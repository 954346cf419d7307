-------------------------- MODULE NumberingProofs --------------------------
(***************************************************************************)
(* Module DownlinkGround proved for every depth, numbering modulus, set of *)
(* packets and burst length: what the ground concludes from the counts of  *)
(* the packets it receives, and that Emit is pus_tm_send packet by packet. *)
(***************************************************************************)
EXTENDS DownlinkGround, DownlinkProofs

\* How far the on-board message counter of a service, and the count in packet i,
\* are ahead of the count the ground expects; how long ago packet i was numbered.
Ahead(s) == (msg_counter[s] - expected[s]) % MSG_MODULUS
Offset(s, i) == (queue[i].msg_counter - expected[s]) % MSG_MODULUS
Age(i) == (seq_count - queue[i].seq_count) % SEQ_MODULUS
Queued(s) == OfService(queue, s, Len(queue))

DgTypeOK == /\ DlTypeOK
            /\ expected \in [TmServices -> 0 .. MSG_MODULUS - 1]
            /\ missed \in [TmServices -> Nat] /\ dropped \in [TmServices -> Nat]
            /\ lost \in 0 .. MaxDropped

\* A service is as far ahead of the ground as it has packets queued and packets
\* dropped the ground has not missed yet; its queued packets are strictly ordered.
MessageInv(s) ==
  /\ missed[s] <= dropped[s] /\ dropped[s] <= lost
  /\ Ahead(s) = Queued(s) + dropped[s] - missed[s]
  /\ \A i \in 1 .. Len(queue) : queue[i].service = s =>
       Offset(s, i) + 1 + (Queued(s) - OfService(queue, s, i)) <= Ahead(s)
  /\ \A i, j \in 1 .. Len(queue) :
       i < j /\ queue[i].service = s /\ queue[j].service = s => Offset(s, i) < Offset(s, j)

\* Since packet i was numbered, as many packets were as stand behind it, itself
\* included, and at most those lost besides.
SequenceInv ==
  /\ \A i \in 1 .. Len(queue) : /\ Len(queue) - i + 1 <= Age(i)
                                /\ Age(i) <= Len(queue) - i + 1 + lost
  /\ \A i, j \in 1 .. Len(queue) : i < j => Age(i) - Age(j) >= j - i

NumberingInv == DgTypeOK /\ (\A s \in TmServices : MessageInv(s)) /\ SequenceInv

-----------------------------------------------------------------------------
LEMMA QueueElement ==
  ASSUME DgTypeOK
  PROVE  /\ queue \in Seq(TmPacket) /\ Len(queue) \in Nat /\ Len(queue) <= DEPTH
         /\ \A i \in 1 .. Len(queue) : /\ queue[i] \in TmPacket
                                       /\ queue[i].service \in TmServices
                                       /\ queue[i].msg_counter \in 0 .. MSG_MODULUS - 1
                                       /\ queue[i].seq_count \in 0 .. SEQ_MODULUS - 1
<1>1. queue \in Seq(TmPacket) /\ Len(queue) <= DEPTH
  BY DEF DgTypeOK, DlTypeOK
<1>2. Len(queue) \in Nat /\ \A i \in 1 .. Len(queue) : queue[i] \in TmPacket
  BY <1>1, LenProperties, ElementOfSeq
<1>3. QED
  BY <1>1, <1>2 DEF TmPacket

\* The three distances lie below their moduli and lead from one count to the other.
LEMMA AheadLeads ==
  ASSUME DgTypeOK, NEW s \in TmServices
  PROVE  /\ Ahead(s) \in 0 .. MSG_MODULUS - 1
         /\ msg_counter[s] = (expected[s] + Ahead(s)) % MSG_MODULUS
<1>1. expected[s] \in Int /\ msg_counter[s] \in 0 .. MSG_MODULUS - 1
  BY MsgAssumption DEF DgTypeOK, DlTypeOK
<1>2. QED
  BY <1>1, DistanceLeads, MsgAssumption DEF Ahead

LEMMA OffsetLeads ==
  ASSUME DgTypeOK, NEW s \in TmServices, NEW i \in 1 .. Len(queue)
  PROVE  /\ Offset(s, i) \in 0 .. MSG_MODULUS - 1
         /\ queue[i].msg_counter = (expected[s] + Offset(s, i)) % MSG_MODULUS
<1>1. expected[s] \in Int /\ queue[i].msg_counter \in 0 .. MSG_MODULUS - 1
  BY QueueElement, MsgAssumption DEF DgTypeOK
<1>2. QED
  BY <1>1, DistanceLeads, MsgAssumption DEF Offset

LEMMA AgeLeads ==
  ASSUME DgTypeOK, NEW i \in 1 .. Len(queue)
  PROVE  /\ Age(i) \in 0 .. SEQ_MODULUS - 1
         /\ seq_count = (queue[i].seq_count + Age(i)) % SEQ_MODULUS
<1>1. queue[i].seq_count \in Int /\ seq_count \in 0 .. SEQ_MODULUS - 1
  BY QueueElement, SeqAssumption DEF DgTypeOK, DlTypeOK
<1>2. QED
  BY <1>1, DistanceLeads, SeqAssumption DEF Age

\* A service has no more packets queued than there are.
LEMMA QueuedBound ==
  ASSUME DgTypeOK, NEW s
  PROVE  Queued(s) \in 0 .. Len(queue)
<1>1. Len(queue) \in Nat
  BY QueueElement
<1>2. OfService(queue, s, 0 + Len(queue)) <= OfService(queue, s, 0) + Len(queue)
  BY <1>1, OfServiceGrows
<1>3. OfService(queue, s, 0) = 0 /\ 0 + Len(queue) = Len(queue)
  BY <1>1, OfServiceStep
<1>4. OfService(queue, s, Len(queue)) \in Nat
  BY <1>1, OfServiceType
<1>5. QED
  BY <1>1, <1>2, <1>3, <1>4 DEF Queued

\* What was numbered o after the count of a service is o further ahead of the ground.
LEMMA NumberedAhead ==
  ASSUME DgTypeOK, NEW s \in TmServices, NEW o \in Nat, Ahead(s) + o < MSG_MODULUS,
         NEW x, x = (msg_counter[s] + o) % MSG_MODULUS
  PROVE  (x - expected[s]) % MSG_MODULUS = Ahead(s) + o
<1> DEFINE e == expected[s]
           a == Ahead(s)
<1>1. e \in Int /\ a \in Int /\ 0 <= a /\ msg_counter[s] = (e + a) % MSG_MODULUS
  BY AheadLeads, MsgAssumption DEF DgTypeOK
<1> HIDE DEF e, a
<1>2. e + a \in Int /\ a + o \in Int /\ 0 <= a + o /\ (e + a) + o = e + (a + o)
  BY <1>1
<1>3. (((e + a) % MSG_MODULUS) + o) % MSG_MODULUS = ((e + a) + o) % MSG_MODULUS
  BY <1>2, AddToRemainder, MsgAssumption
<1> DEFINE b == a + o
<1>4. b \in Int /\ 0 <= b /\ b < MSG_MODULUS /\ x = (e + b) % MSG_MODULUS
  <2>1. b < MSG_MODULUS
    BY DEF a
  <2>2. QED
    BY <1>1, <1>2, <1>3, <2>1
<1> HIDE DEF b
<1>5. (((e + b) % MSG_MODULUS) - e) % MSG_MODULUS = b
  BY <1>1, <1>4, DistanceModulo, MsgAssumption
<1>6. QED
  BY <1>4, <1>5 DEF e, a, b

-----------------------------------------------------------------------------
(* A burst *)

LEMMA BurstPackets ==
  ASSUME NEW pkts \in Bursts
  PROVE  pkts \in Seq(TmContent) /\ Len(pkts) \in Nat
<1>1. pkts \in UNION {[1 .. m -> Contents] : m \in 0 .. MaxBurst}
  BY DEF Bursts, BoundedSeq, SeqOf
<1>2. PICK m \in Nat : pkts \in [1 .. m -> Contents]
  BY <1>1, BurstAssumption
<1>3. pkts \in [1 .. m -> TmContent]
  BY <1>2, BurstAssumption
<1>4. pkts \in Seq(TmContent)
  BY <1>2, <1>3, SeqDef
<1>5. QED
  BY <1>4, LenProperties

\* What a burst does to the counts of one service: c(k) of its first k packets are
\* of that service.
LEMMA BurstCounts ==
  ASSUME DgTypeOK, NEW pkts \in Bursts, Burst(pkts), NEW s \in TmServices
  PROVE  /\ Kept(pkts) \in 0 .. Len(pkts) /\ Len(queue') = Len(queue) + Kept(pkts)
         /\ \A k \in Nat : OfService(pkts, s, k) \in Nat
         /\ OfService(pkts, s, Kept(pkts)) <= OfService(pkts, s, Len(pkts))
         /\ OfService(pkts, s, Len(pkts)) - OfService(pkts, s, Kept(pkts)) <= Len(pkts) - Kept(pkts)
         /\ Queued(s)' = Queued(s) + OfService(pkts, s, Kept(pkts))
         /\ \A i \in 1 .. Len(queue) : OfService(queue', s, i) = OfService(queue, s, i)
         /\ \A k \in 1 .. Kept(pkts) :
              OfService(queue', s, Len(queue) + k) = Queued(s) + OfService(pkts, s, k)
<1> DEFINE n == Len(queue)
           K == Kept(pkts)
           L == Len(pkts)
<1>1. DlTypeOK /\ pkts \in Seq(TmContent) /\ L \in Nat /\ Emit(pkts) /\ n \in Nat
  BY BurstPackets, QueueElement DEF DgTypeOK, Burst
<1>2. EmitAdds(pkts)
  BY <1>1, EmitAddsPrefix
<1>3. K \in 0 .. L /\ Len(queue') = n + K
  BY <1>2 DEF EmitAdds
<1>4. \A i \in 1 .. K : queue'[n + i].service = pkts[i].service
  <2>1. \A i \in 1 .. K : queue'[n + i] = Stamped(pkts)[i] /\ i \in 1 .. L
    BY <1>1, <1>2, <1>3 DEF EmitAdds
  <2>2. QED
    BY <1>1, <2>1, StampedType
<1>5. \A i \in 1 .. n : queue'[i].service = queue[i].service
  BY <1>2 DEF EmitAdds
<1>6. \A k \in Nat : OfService(pkts, s, k) \in Nat
  BY OfServiceType
<1>7. /\ OfService(pkts, s, K) <= OfService(pkts, s, L)
      /\ OfService(pkts, s, L) - OfService(pkts, s, K) <= L - K
  BY <1>1, <1>3, OfServiceBetween
<1>8. \A i \in 0 .. n : OfService(queue', s, i) = OfService(queue, s, i)
  <2> DEFINE q == queue'
  <2>1. n \in Nat /\ \A i \in 1 .. n : q[i].service = queue[i].service
    BY <1>1, <1>5
  <2> HIDE DEF q, n
  <2>2. \A i \in 0 .. n : OfService(q, s, i) = OfService(queue, s, i)
    BY <2>1, OfServicePrefix, Zenon
  <2>3. QED
    BY <2>2 DEF q
<1>9. \A k \in 0 .. K : OfService(queue', s, n + k) = Queued(s) + OfService(pkts, s, k)
  <2>1. K \in Nat
    BY <1>1, <1>3
  <2>2. \A k \in 0 .. K : OfService(queue', s, n + k) = OfService(queue', s, n) + OfService(pkts, s, k)
    <3>1. StandsBehind(pkts, K, queue', n)
      BY <1>4 DEF StandsBehind
    <3> HIDE DEF K, n
    <3>2. QED
      BY <1>1, <2>1, <3>1, OfServiceJoined
  <2>3. OfService(queue', s, n) = Queued(s)
    BY <1>1, <1>8 DEF Queued
  <2>4. QED
    BY <2>2, <2>3
<1>10. Queued(s)' = Queued(s) + OfService(pkts, s, K)
  BY <1>1, <1>3, <1>9 DEF Queued
<1>11. /\ \A i \in 1 .. n : OfService(queue', s, i) = OfService(queue, s, i)
       /\ \A k \in 1 .. K : OfService(queue', s, n + k) = Queued(s) + OfService(pkts, s, k)
  <2>1. (\A i \in 1 .. n : i \in 0 .. n) /\ (\A k \in 1 .. K : k \in 0 .. K)
    BY <1>1, <1>3
  <2>2. QED
    BY <1>8, <1>9, <2>1, Zenon
<1>12. QED
  BY <1>3, <1>6, <1>7, <1>10, <1>11, Zenon

\* The distances after the burst: those of the packets that were queued stay, those
\* of the new packets follow from how far the service was ahead.
LEMMA BurstOffsets ==
  ASSUME DgTypeOK, NEW s \in TmServices, MessageInv(s), NEW pkts \in Bursts, Burst(pkts)
  PROVE  /\ Ahead(s)' = Ahead(s) + OfService(pkts, s, Len(pkts))
         /\ \A i \in 1 .. Len(queue) : queue'[i] = queue[i] /\ Offset(s, i)' = Offset(s, i)
         /\ \A j \in Nat, k \in 1 .. Kept(pkts) : j = Len(queue) + k =>
              /\ queue'[j].service = pkts[k].service
              /\ pkts[k].service = s =>
                   /\ Offset(s, j)' = Ahead(s) + OfService(pkts, s, k - 1)
                   /\ OfService(pkts, s, k) = OfService(pkts, s, k - 1) + 1
<1> DEFINE n == Len(queue)
           K == Kept(pkts)
           L == Len(pkts)
           c(k) == OfService(pkts, s, k)
<1>1. /\ DlTypeOK /\ pkts \in Seq(TmContent) /\ L \in Nat /\ Emit(pkts)
      /\ n \in Nat /\ n <= DEPTH /\ DEPTH \in Nat /\ MaxDropped \in Nat
  BY BurstPackets, QueueElement, DepthAssumption, WrapAssumption DEF DgTypeOK, Burst
<1>2. EmitAdds(pkts)
  BY <1>1, EmitAddsPrefix
<1>3. K \in 0 .. L /\ n + K <= DEPTH
  BY <1>1, <1>2 DEF EmitAdds
<1>4. /\ \A k \in Nat : c(k) \in Nat
      /\ c(K) <= c(L) /\ c(L) - c(K) <= L - K
      /\ Queued(s)' = Queued(s) + c(K)
  BY BurstCounts
<1>5. expected' = expected /\ lost' = lost + (L - K) /\ lost' <= MaxDropped
  BY DEF Burst
<1>6. Ahead(s) \in Nat /\ Ahead(s) + c(L) < MSG_MODULUS
  <2>1. Queued(s) \in Nat /\ Queued(s)' <= n + K
    <3>1. Queued(s) \in 0 .. n
      BY QueuedBound
    <3>2. c(K) <= K
      <4>1. K \in Nat /\ 0 <= K /\ 0 \in Nat
        BY <1>1, <1>3
      <4>2. c(K) - c(0) <= K - 0 /\ c(0) = 0
        BY <4>1, OfServiceBetween, OfServiceStep
      <4>3. QED
        BY <1>4, <4>1, <4>2
    <3>3. c(K) \in Nat /\ K \in Nat
      BY <1>1, <1>3, <1>4
    <3> HIDE DEF c, K, n
    <3>4. QED
      BY <1>1, <1>4, <3>1, <3>2, <3>3
  <2>2. /\ Ahead(s) = Queued(s) + dropped[s] - missed[s]
        /\ dropped[s] <= lost /\ dropped[s] \in Nat /\ missed[s] \in Nat /\ lost \in Nat
    BY <1>1 DEF MessageInv, DgTypeOK
  <2>3. c(K) \in Nat /\ c(L) \in Nat /\ DEPTH + MaxDropped < MSG_MODULUS /\ MSG_MODULUS \in Nat
    BY <1>1, <1>3, <1>4, WrapAssumption, MsgAssumption
  <2>4. Ahead(s) \in Nat
    BY AheadLeads, MsgAssumption
  <2> HIDE DEF c, K, L, n
  <2>5. Queued(s) + c(K) <= DEPTH /\ c(L) - c(K) <= L - K /\ lost + (L - K) <= MaxDropped
    <3>1. K \in Nat
      BY <1>1, <1>3
    <3>2. QED
      BY <1>1, <1>3, <1>4, <1>5, <2>1, <2>3, <3>1
  <2>6. K \in Nat /\ L \in Nat
    BY <1>1, <1>3
  <2>7. /\ DEPTH \in Int /\ MaxDropped \in Int /\ MSG_MODULUS \in Int /\ lost \in Int
        /\ K \in Int /\ L \in Int /\ c(K) \in Int /\ c(L) \in Int /\ Queued(s) \in Int
        /\ dropped[s] \in Int /\ missed[s] \in Int /\ missed[s] >= 0
    BY <1>1, <2>1, <2>2, <2>3, <2>6
  <2>8. Ahead(s) + c(L) < MSG_MODULUS
    <3> DEFINE q == Queued(s)
               d == dropped[s]
               m == missed[s]
               cK == c(K)
               cL == c(L)
    <3>1. /\ q \in Int /\ d \in Int /\ m \in Int /\ cK \in Int /\ cL \in Int /\ m >= 0
          /\ q + cK <= DEPTH /\ cL - cK <= L - K /\ d <= lost
          /\ Ahead(s) = q + d - m
      BY <2>2, <2>5, <2>7
    <3> HIDE DEF q, d, m, cK, cL
    <3>2. q + d - m + cL < MSG_MODULUS
      BY <2>3, <2>5, <2>7, <3>1
    <3>3. QED
      BY <3>1, <3>2 DEF cL
  <2>9. QED
    BY <2>4, <2>8
<1>7. Ahead(s)' = Ahead(s) + c(L)
  <2>1. msg_counter'[s] = (msg_counter[s] + c(L)) % MSG_MODULUS
    BY <1>1 DEF Emit
  <2>2. c(L) \in Nat
    BY <1>1, <1>4
  <2> HIDE DEF c
  <2>3. (msg_counter'[s] - expected[s]) % MSG_MODULUS = Ahead(s) + c(L)
    BY <1>6, <2>1, <2>2, NumberedAhead
  <2>4. Ahead(s)' = (msg_counter'[s] - expected'[s]) % MSG_MODULUS
    BY DEF Ahead
  <2>5. QED
    BY <1>5, <2>3, <2>4
<1>8. ASSUME NEW i \in 1 .. n PROVE queue'[i] = queue[i] /\ Offset(s, i)' = Offset(s, i)
  BY <1>2, <1>5 DEF EmitAdds, Offset
<1>9. ASSUME NEW k \in 1 .. K, NEW j \in Nat, j = n + k
      PROVE  /\ queue'[j].service = pkts[k].service
             /\ pkts[k].service = s => /\ Offset(s, j)' = Ahead(s) + c(k - 1)
                                       /\ c(k) = c(k - 1) + 1
  <2>1. /\ k \in 1 .. L /\ k \in Nat \ {0} /\ k - 1 \in Nat /\ L \in Nat /\ k - 1 <= L
        /\ queue'[j] = Stamped(pkts)[k]
    BY <1>1, <1>2, <1>3, <1>9 DEF EmitAdds
  <2>2. queue'[j].service = pkts[k].service
    BY <1>1, <2>1, StampedType
  <2>3. CASE pkts[k].service = s
    <3>1. c(k) = c(k - 1) + 1
      BY <2>1, <2>3, OfServiceOne
    <3>2. queue'[j].msg_counter = (msg_counter[s] + c(k - 1)) % MSG_MODULUS
      BY <2>1, <2>3 DEF Stamped
    <3> DEFINE o == c(k - 1)
    <3>3. o \in Nat /\ Ahead(s) + o < MSG_MODULUS
      <4>1. o <= c(L)
        BY <2>1, OfServiceBetween
      <4>2. o \in Nat /\ c(L) \in Nat /\ MSG_MODULUS \in Nat
        BY <1>4, <2>1, MsgAssumption
      <4> HIDE DEF o, c
      <4>3. QED
        BY <1>6, <4>1, <4>2
    <3>4. queue'[j].msg_counter = (msg_counter[s] + o) % MSG_MODULUS
      BY <3>2
    <3> HIDE DEF o
    <3>5. (queue'[j].msg_counter - expected[s]) % MSG_MODULUS = Ahead(s) + o
      BY <3>3, <3>4, NumberedAhead
    <3>6. Offset(s, j)' = (queue'[j].msg_counter - expected[s]) % MSG_MODULUS
      BY <1>5 DEF Offset
    <3>7. QED
      BY <2>2, <3>1, <3>5, <3>6 DEF o
  <2>4. QED
    BY <2>2, <2>3
<1>10. QED
  BY <1>7, <1>8, <1>9

\* A place in the queue after a burst is an old one or the k-th of the burst.
LEMMA BurstPlaces ==
  ASSUME DgTypeOK, NEW pkts \in Bursts, Burst(pkts), NEW i \in 1 .. Len(queue')
  PROVE  \/ i \in 1 .. Len(queue)
         \/ \E k \in 1 .. Kept(pkts) : i = Len(queue) + k
<1>1. DlTypeOK /\ pkts \in Seq(TmContent) /\ Len(pkts) \in Nat /\ Emit(pkts) /\ Len(queue) \in Nat
  BY BurstPackets, QueueElement DEF DgTypeOK, Burst
<1>2. EmitAdds(pkts)
  BY <1>1, EmitAddsPrefix
<1>3. Kept(pkts) \in Nat /\ Len(queue') = Len(queue) + Kept(pkts)
  BY <1>1, <1>2 DEF EmitAdds
<1>4. CASE ~(i <= Len(queue))
  <2>1. i - Len(queue) \in 1 .. Kept(pkts) /\ i = Len(queue) + (i - Len(queue))
    BY <1>1, <1>3, <1>4
  <2>2. QED
    BY <2>1
<1>5. QED
  BY <1>1, <1>3, <1>4

LEMMA BurstMessages ==
  ASSUME DgTypeOK, NEW s \in TmServices, MessageInv(s), NEW pkts \in Bursts, Burst(pkts)
  PROVE  MessageInv(s)'
<1> DEFINE n == Len(queue)
           K == Kept(pkts)
           L == Len(pkts)
           c(k) == OfService(pkts, s, k)
           before(i) == OfService(queue, s, i)
<1>0. n \in Nat /\ L \in Nat /\ K \in 0 .. L /\ Len(queue') = n + K /\ \A k \in Nat : c(k) \in Nat
  BY BurstCounts, BurstPackets, QueueElement
<1>1. K \in Nat /\ K <= L /\ c(K) \in Nat /\ c(L) \in Nat
  BY <1>0
<1>2. /\ c(K) <= c(L) /\ c(L) - c(K) <= L - K
      /\ Queued(s)' = Queued(s) + c(K) /\ Ahead(s)' = Ahead(s) + c(L)
      /\ dropped[s]' = dropped[s] + (c(L) - c(K)) /\ missed[s]' = missed[s]
      /\ lost' = lost + (L - K)
  BY BurstCounts, BurstOffsets DEF Burst
<1>3. /\ Ahead(s) \in Nat /\ Queued(s) \in Nat /\ dropped[s] \in Nat /\ missed[s] \in Nat
      /\ lost \in Nat
  <2>1. Ahead(s) \in Nat /\ Queued(s) \in Nat
    <3>1. Ahead(s) \in 0 .. MSG_MODULUS - 1 /\ Queued(s) \in 0 .. Len(queue)
      BY AheadLeads, QueuedBound
    <3>2. QED
      BY <1>0, <3>1, MsgAssumption
  <2>2. QED
    BY <2>1, WrapAssumption DEF DgTypeOK
<1>4. /\ missed[s] <= dropped[s] /\ dropped[s] <= lost
      /\ Ahead(s) = Queued(s) + dropped[s] - missed[s]
  BY DEF MessageInv
<1>5. ASSUME NEW i \in 1 .. n
      PROVE  /\ Offset(s, i) \in Nat /\ before(i) \in Nat /\ before(i) <= Queued(s)
             /\ queue'[i] = queue[i] /\ Offset(s, i)' = Offset(s, i)
             /\ OfService(queue', s, i) = before(i)
             /\ queue[i].service = s => Offset(s, i) + 1 + (Queued(s) - before(i)) <= Ahead(s)
  <2>1. i \in Nat /\ i <= n
    BY <1>0
  <2>2. Offset(s, i) \in Nat
    BY OffsetLeads, MsgAssumption
  <2>3. before(i) \in Nat
    BY <2>1, OfServiceType
  <2>4. before(i) <= Queued(s)
    BY <1>0, <2>1, OfServiceBetween DEF Queued
  <2>5. OfService(queue', s, i) = before(i) /\ queue'[i] = queue[i] /\ Offset(s, i)' = Offset(s, i)
    BY BurstCounts, BurstOffsets
  <2>6. QED
    BY <2>2, <2>3, <2>4, <2>5 DEF MessageInv
<1>6. \A i, j \in 1 .. n :
        i < j /\ queue[i].service = s /\ queue[j].service = s => Offset(s, i) < Offset(s, j)
  BY DEF MessageInv
<1>7. ASSUME NEW k \in 1 .. K, NEW j, j = n + k
      PROVE  /\ k \in Nat /\ j \in Nat /\ c(k) \in Nat /\ c(k - 1) \in Nat /\ c(k) <= c(K)
             /\ OfService(queue', s, j) = Queued(s) + c(k)
             /\ queue'[j].service = s => /\ Offset(s, j)' = Ahead(s) + c(k - 1)
                                         /\ c(k) = c(k - 1) + 1
  <2>1. k \in Nat /\ k - 1 \in Nat /\ j \in Nat /\ k <= K
    BY <1>0, <1>1, <1>7
  <2>2. c(k) \in Nat /\ c(k - 1) \in Nat
    BY <1>0, <2>1
  <2>3. c(k) <= c(K)
    BY <1>1, <2>1, OfServiceBetween
  <2>4. OfService(queue', s, n + k) = Queued(s) + c(k)
    BY BurstCounts
  <2>5. /\ queue'[j].service = pkts[k].service
        /\ pkts[k].service = s => Offset(s, j)' = Ahead(s) + c(k - 1) /\ c(k) = c(k - 1) + 1
    BY <1>7, <2>1, BurstOffsets
  <2>6. QED
    BY <1>7, <2>1, <2>2, <2>3, <2>4, <2>5
<1>8. ASSUME NEW k \in 1 .. K, NEW l \in 1 .. K, k < l PROVE c(k) <= c(l - 1)
  <2>1. k \in Nat /\ l - 1 \in Nat /\ k <= l - 1
    BY <1>1, <1>8
  <2>2. QED
    BY <2>1, OfServiceBetween
<1> DEFINE a == Ahead(s)
           q == Queued(s)
           d == dropped[s]
           m == missed[s]
           cK == c(K)
           cL == c(L)
           a2 == Ahead(s)'
           q2 == Queued(s)'
           d2 == dropped[s]'
<1>9. /\ a \in Nat /\ q \in Nat /\ d \in Nat /\ m \in Nat /\ lost \in Nat
      /\ cK \in Nat /\ cL \in Nat /\ K \in Nat /\ L \in Nat
      /\ a2 = a + cL /\ q2 = q + cK /\ d2 = d + (cL - cK) /\ missed[s]' = m /\ lost' = lost + (L - K)
      /\ cK <= cL /\ cL - cK <= L - K /\ m <= d /\ d <= lost /\ a = q + d - m
  BY <1>0, <1>1, <1>2, <1>3, <1>4
<1> HIDE DEF n, K, L, c, before, a, q, d, m, cK, cL, a2, q2, d2
<1>10. m <= d2 /\ d2 <= lost' /\ a2 = q2 + d2 - m
  BY <1>9
<1>11. ASSUME NEW i \in 1 .. Len(queue'), queue'[i].service = s
       PROVE  Offset(s, i)' + 1 + (q2 - OfService(queue', s, i)) <= a2
  <2>1. CASE i \in 1 .. n
    <3> DEFINE o == Offset(s, i)
               b == before(i)
    <3>1. /\ o \in Nat /\ b \in Nat /\ o + 1 + (q - b) <= a
          /\ Offset(s, i)' = o /\ OfService(queue', s, i) = b
      BY <1>5, <1>11, <2>1 DEF q, a
    <3> HIDE DEF o, b
    <3>2. o + 1 + (q2 - b) <= a2
      BY <1>9, <3>1
    <3>3. QED
      BY <3>1, <3>2
  <2>2. CASE \E k \in 1 .. K : i = n + k
    <3>1. PICK k \in 1 .. K : i = n + k
      BY <2>2
    <3> DEFINE x == c(k)
               y == c(k - 1)
    <3>2. /\ x \in Nat /\ y \in Nat /\ x <= cK /\ x = y + 1
          /\ Offset(s, i)' = a + y /\ OfService(queue', s, i) = q + x
      BY <1>7, <1>11, <3>1 DEF a, q, cK
    <3> HIDE DEF x, y
    <3>3. (a + y) + 1 + (q2 - (q + x)) <= a2
      BY <1>9, <3>2
    <3>4. QED
      BY <3>2, <3>3
  <2>3. QED
    BY <2>1, <2>2, BurstPlaces DEF n, K
<1>12. ASSUME NEW i \in 1 .. Len(queue'), NEW j \in 1 .. Len(queue'),
              i < j, queue'[i].service = s, queue'[j].service = s
       PROVE  Offset(s, i)' < Offset(s, j)'
  <2>1. CASE j \in 1 .. n
    <3>1. i \in 1 .. n
      BY <1>0, <1>12, <2>1
    <3>2. QED
      BY <1>5, <1>6, <1>12, <2>1, <3>1
  <2>2. CASE \E l \in 1 .. K : j = n + l
    <3>1. PICK l \in 1 .. K : j = n + l
      BY <2>2
    <3> DEFINE z == c(l - 1)
    <3>2. z \in Nat /\ Offset(s, j)' = a + z
      BY <1>7, <1>12, <3>1 DEF a
    <3>3. CASE i \in 1 .. n
      <4> DEFINE o == Offset(s, i)
                 b == before(i)
      <4>1. o \in Nat /\ b \in Nat /\ b <= q /\ o + 1 + (q - b) <= a /\ Offset(s, i)' = o
        BY <1>5, <1>12, <3>3 DEF a, q
      <4> HIDE DEF o, b, z
      <4>2. o < a + z
        BY <1>9, <3>2, <4>1
      <4>3. QED
        BY <3>2, <4>1, <4>2
    <3>4. CASE \E k \in 1 .. K : i = n + k
      <4>1. PICK k \in 1 .. K : i = n + k
        BY <3>4
      <4>2. k < l
        BY <1>0, <1>1, <1>12, <3>1, <4>1
      <4> DEFINE x == c(k)
                 y == c(k - 1)
      <4>3. x \in Nat /\ y \in Nat /\ x = y + 1 /\ Offset(s, i)' = a + y
        BY <1>7, <1>12, <4>1 DEF a
      <4>4. x <= z
        BY <1>8, <4>2
      <4> HIDE DEF x, y, z
      <4>5. a + y < a + z
        BY <1>9, <3>2, <4>3, <4>4
      <4>6. QED
        BY <3>2, <4>3, <4>5
    <3>5. QED
      BY <3>3, <3>4, BurstPlaces DEF n, K
  <2>3. QED
    BY <2>1, <2>2, BurstPlaces DEF n, K
<1>13. QED
  <2>1. missed[s]' <= dropped[s]' /\ dropped[s]' <= lost' /\ Ahead(s)' = Queued(s)' + dropped[s]' - missed[s]'
    BY <1>9, <1>10 DEF a2, q2, d2
  <2>2. QED
    BY <1>11, <1>12, <2>1 DEF MessageInv, a2, q2

\* The ages after a burst of L packets.
LEMMA BurstAges ==
  ASSUME DgTypeOK, SequenceInv, NEW pkts \in Bursts, Burst(pkts)
  PROVE  /\ \A i \in 1 .. Len(queue) : Age(i)' = Age(i) + Len(pkts)
         /\ \A j \in Nat, k \in 1 .. Kept(pkts) :
              j = Len(queue) + k => Age(j)' = Len(pkts) - k + 1
<1> DEFINE n == Len(queue)
           K == Kept(pkts)
           L == Len(pkts)
           S == SEQ_MODULUS
<1>1. /\ DlTypeOK /\ pkts \in Seq(TmContent) /\ L \in Nat /\ Emit(pkts)
      /\ n \in Nat /\ n <= DEPTH /\ DEPTH \in Nat /\ MaxDropped \in Nat
      /\ S \in Nat \ {0} /\ DEPTH + MaxDropped < S
  BY BurstPackets, QueueElement, DepthAssumption, WrapAssumption, SeqAssumption
  DEF DgTypeOK, Burst
<1>2. EmitAdds(pkts)
  BY <1>1, EmitAddsPrefix
<1>3. K \in Nat /\ K <= L /\ n + K <= DEPTH
  BY <1>1, <1>2 DEF EmitAdds
<1>4. lost \in Nat /\ lost + (L - K) <= MaxDropped
  BY <1>1 DEF Burst, DgTypeOK
<1>5. seq_count \in Int /\ seq_count' = (seq_count + L) % S
  BY <1>1 DEF Emit, DlTypeOK
<1>6. ASSUME NEW i \in 1 .. n PROVE Age(i)' = Age(i) + L
  <2> DEFINE x == queue[i].seq_count
             a == Age(i)
             b == a + L
  <2>1. x \in Int /\ a \in Nat /\ seq_count = (x + a) % S
    BY <1>1, AgeLeads, QueueElement
  <2>2. a <= n - i + 1 + lost
    BY DEF SequenceInv
  <2>3. Age(i)' = (seq_count' - x) % S
    BY <1>2 DEF EmitAdds, Age
  <2> HIDE DEF x, a, n, K, L, S
  <2>4. b \in Int /\ 0 <= b /\ b < S /\ x + a \in Int /\ (x + a) + L = x + b
    BY <1>1, <1>3, <1>4, <2>1, <2>2
  <2>5. (((x + a) % S) + L) % S = ((x + a) + L) % S
    <3> DEFINE z == x + a
    <3>1. z \in Int /\ L \in Int
      BY <1>1, <2>4
    <3> HIDE DEF z
    <3>2. ((z % S) + L) % S = (z + L) % S
      BY <1>1, <3>1, AddToRemainder
    <3>3. QED
      BY <3>2 DEF z
  <2> HIDE DEF b
  <2>6. (((x + b) % S) - x) % S = b
    BY <1>1, <2>1, <2>4, DistanceModulo
  <2>7. Age(i)' = b
    BY <1>5, <2>1, <2>3, <2>4, <2>5, <2>6
  <2>8. QED
    BY <2>7 DEF b, a
<1>7. ASSUME NEW j \in Nat, NEW k \in 1 .. K, j = n + k PROVE Age(j)' = L - k + 1
  <2> DEFINE x == seq_count + k - 1
             y == x % S
             b == L - k + 1
  <2>1. k \in Nat /\ k >= 1 /\ k <= K /\ k \in 1 .. L
    BY <1>1, <1>3
  <2>2. queue'[j].seq_count = y
    <3>1. queue'[j] = Stamped(pkts)[k]
      BY <1>2, <1>7 DEF EmitAdds
    <3>2. QED
      BY <2>1, <3>1 DEF Stamped
  <2>3. Age(j)' = (seq_count' - y) % S
    BY <2>2 DEF Age
  <2> HIDE DEF n, K, L, S
  <2>4. /\ x \in Int /\ b \in Int /\ 0 <= b /\ b < S /\ x + b = seq_count + L
    BY <1>1, <1>3, <1>4, <1>5, <2>1
  <2> HIDE DEF x, b
  <2>5. y \in Int
    BY <1>1, <2>4, Division
  <2>6. (y + b) % S = (x + b) % S
    BY <1>1, <2>4, AddToRemainder
  <2> HIDE DEF y
  <2>7. (((y + b) % S) - y) % S = b
    BY <1>1, <2>4, <2>5, DistanceModulo
  <2>8. Age(j)' = b
    BY <1>5, <2>3, <2>4, <2>6, <2>7
  <2>9. QED
    BY <2>8 DEF b
<1>8. QED
  BY <1>6, <1>7

LEMMA BurstSequence ==
  ASSUME DgTypeOK, SequenceInv, NEW pkts \in Bursts, Burst(pkts)
  PROVE  SequenceInv'
<1> DEFINE n == Len(queue)
           K == Kept(pkts)
           L == Len(pkts)
           n2 == Len(queue')
<1>1. n \in Nat /\ L \in Nat /\ K \in Nat /\ K <= L /\ n2 = n + K /\ lost \in Nat
  <2>1. L \in Nat /\ n \in Nat /\ DlTypeOK /\ pkts \in Seq(TmContent) /\ Emit(pkts)
    BY BurstPackets, QueueElement DEF DgTypeOK, Burst
  <2>2. EmitAdds(pkts)
    BY <2>1, EmitAddsPrefix
  <2>3. QED
    BY <2>1, <2>2, WrapAssumption DEF EmitAdds, DgTypeOK
<1>2. lost' = lost + (L - K)
  BY DEF Burst
<1>3. ASSUME NEW i \in 1 .. n
      PROVE  /\ i \in Nat /\ i >= 1 /\ i <= n /\ Age(i) \in Nat /\ Age(i)' = Age(i) + L
             /\ n - i + 1 <= Age(i) /\ Age(i) <= n - i + 1 + lost
  <2>1. Age(i) \in Nat
    BY AgeLeads, SeqAssumption
  <2>2. QED
    BY <1>1, <2>1, BurstAges DEF SequenceInv
<1>4. ASSUME NEW j \in 1 .. n2, NEW k \in 1 .. K, j = n + k
      PROVE  k \in Nat /\ k >= 1 /\ k <= K /\ Age(j)' = L - k + 1
  <2>1. j \in Nat
    BY <1>1
  <2>2. QED
    BY <1>1, <1>4, <2>1, BurstAges
<1>5. \A i, j \in 1 .. n : i < j => Age(i) - Age(j) >= j - i
  BY DEF SequenceInv
<1>6. \A i \in 1 .. n2 : i \in 1 .. n \/ \E k \in 1 .. K : i = n + k
  BY BurstPlaces
<1> HIDE DEF n, K, L, n2
<1>7. ASSUME NEW i \in 1 .. n2
      PROVE  n2 - i + 1 <= Age(i)' /\ Age(i)' <= n2 - i + 1 + lost'
  <2>1. CASE i \in 1 .. n
    <3> DEFINE a == Age(i)
    <3>1. /\ a \in Nat /\ i \in Nat /\ Age(i)' = a + L /\ n - i + 1 <= a /\ a <= n - i + 1 + lost
      BY <1>3, <2>1
    <3> HIDE DEF a
    <3>2. QED
      BY <1>1, <1>2, <3>1
  <2>2. CASE \E k \in 1 .. K : i = n + k
    <3>1. PICK k \in 1 .. K : i = n + k
      BY <2>2
    <3>2. k \in Nat /\ Age(i)' = L - k + 1
      BY <1>4, <3>1
    <3>3. QED
      BY <1>1, <1>2, <3>1, <3>2
  <2>3. QED
    BY <1>6, <2>1, <2>2
<1>8. ASSUME NEW i \in 1 .. n2, NEW j \in 1 .. n2, i < j PROVE Age(i)' - Age(j)' >= j - i
  <2>1. CASE j \in 1 .. n
    <3>1. i \in 1 .. n
      BY <1>1, <1>8, <2>1
    <3> DEFINE a == Age(i)
               b == Age(j)
    <3>2. /\ a \in Nat /\ b \in Nat /\ Age(i)' = a + L /\ Age(j)' = b + L /\ a - b >= j - i
      BY <1>3, <1>5, <1>8, <2>1, <3>1
    <3>3. i \in Nat /\ j \in Nat
      BY <1>1, <2>1, <3>1
    <3> HIDE DEF a, b
    <3>4. QED
      BY <1>1, <3>2, <3>3
  <2>2. CASE \E k \in 1 .. K : j = n + k
    <3>1. PICK l \in 1 .. K : j = n + l
      BY <2>2
    <3>2. l \in Nat /\ Age(j)' = L - l + 1
      BY <1>4, <3>1
    <3>3. CASE i \in 1 .. n
      <4> DEFINE a == Age(i)
      <4>1. a \in Nat /\ i \in Nat /\ Age(i)' = a + L /\ n - i + 1 <= a
        BY <1>3, <3>3
      <4> HIDE DEF a
      <4>2. QED
        BY <1>1, <3>1, <3>2, <4>1
    <3>4. CASE \E k \in 1 .. K : i = n + k
      <4>1. PICK k \in 1 .. K : i = n + k
        BY <3>4
      <4>2. k \in Nat /\ Age(i)' = L - k + 1
        BY <1>4, <4>1
      <4>3. QED
        BY <1>1, <3>1, <3>2, <4>1, <4>2
    <3>5. QED
      BY <1>6, <3>3, <3>4
  <2>3. QED
    BY <1>6, <2>1, <2>2
<1>9. QED
  BY <1>7, <1>8 DEF SequenceInv, n2

LEMMA BurstTypes ==
  ASSUME DgTypeOK, NEW pkts \in Bursts, Burst(pkts)
  PROVE  DgTypeOK'
<1>1. DlTypeOK /\ pkts \in Seq(TmContent) /\ Len(pkts) \in Nat /\ Emit(pkts)
  BY BurstPackets DEF DgTypeOK, Burst
<1>2. DlTypeOK'
  BY <1>1, EmitType
<1>3. Kept(pkts) \in 0 .. Len(pkts) /\ EmitAdds(pkts)
  BY <1>1, EmitAddsPrefix DEF EmitAdds
<1>4. lost' \in 0 .. MaxDropped
  BY <1>1, <1>3, WrapAssumption DEF Burst, DgTypeOK
<1>5. ASSUME NEW s \in TmServices
      PROVE  dropped[s] + (OfService(pkts, s, Len(pkts)) - OfService(pkts, s, Kept(pkts))) \in Nat
  <2> DEFINE d == dropped[s]
             x == OfService(pkts, s, Len(pkts))
             y == OfService(pkts, s, Kept(pkts))
  <2>1. d \in Nat /\ x \in Nat /\ y \in Nat /\ y <= x
    <3>1. Kept(pkts) \in Nat
      BY <1>1, <1>3
    <3>2. QED
      BY <1>1, <3>1, BurstCounts DEF DgTypeOK
  <2> HIDE DEF d, x, y
  <2>2. d + (x - y) \in Nat
    BY <2>1
  <2>3. QED
    BY <2>2 DEF d, x, y
<1>6. dropped' \in [TmServices -> Nat]
  BY <1>5 DEF Burst
<1>7. QED
  BY <1>2, <1>4, <1>6 DEF DgTypeOK, Burst

-----------------------------------------------------------------------------
(* Reception *)

\* The queue after a pop: every packet one place further to the front, and as many
\* packets of each service less as the popped one accounts for.
LEMMA PopShifts ==
  ASSUME DgTypeOK, tm_queue_pop
  PROVE  /\ 1 \in 1 .. Len(queue) /\ queue' \in Seq(TmPacket) /\ Len(queue') = Len(queue) - 1
         /\ Head(queue) = queue[1]
         /\ \A i \in 1 .. Len(queue') : i + 1 \in 1 .. Len(queue) /\ queue'[i] = queue[i + 1]
         /\ \A s : \A i \in 0 .. Len(queue') :
              OfService(queue, s, 1 + i) =
                (IF queue[1].service = s THEN 1 ELSE 0) + OfService(queue', s, i)
<1>1. queue \in Seq(TmPacket) /\ Len(queue) \in Nat /\ queue # <<>> /\ queue' = Tail(queue)
  BY QueueElement DEF tm_queue_pop
<1>2. Len(queue) # 0
  BY <1>1, EmptySeq
<1>3. /\ Head(queue) = queue[1] /\ queue' \in Seq(TmPacket) /\ Len(queue') = Len(queue) - 1
      /\ \A i \in 1 .. Len(queue') : queue'[i] = queue[i + 1]
  BY <1>1, HeadTailProperties
<1>4. \A i \in 1 .. Len(queue') : i + 1 \in 1 .. Len(queue)
  BY <1>1, <1>3
<1>5. ASSUME NEW s, NEW i \in 0 .. Len(queue')
      PROVE  OfService(queue, s, 1 + i) =
               (IF queue[1].service = s THEN 1 ELSE 0) + OfService(queue', s, i)
  <2>1. Len(queue') \in Nat /\ StandsBehind(queue', Len(queue'), queue, 1)
    BY <1>1, <1>2, <1>3 DEF StandsBehind
  <2>2. QED
    BY <2>1, OfServiceTail
<1>6. QED
  BY <1>1, <1>2, <1>3, <1>4, <1>5

LEMMA ReceiveTypes ==
  ASSUME DgTypeOK, Receive
  PROVE  DgTypeOK'
<1> DEFINE p == queue[1]
<1>1. tm_queue_pop /\ Head(queue) = p /\ 1 \in 1 .. Len(queue)
      /\ queue' \in Seq(TmPacket) /\ Len(queue') = Len(queue) - 1
  BY PopShifts DEF Receive
<1>2. p.service \in TmServices /\ p.msg_counter \in Int /\ expected[p.service] \in Int
  BY <1>1, QueueElement, MsgAssumption DEF DgTypeOK
<1>3. DlTypeOK'
  <2>1. Len(queue) \in Nat /\ Len(queue) <= DEPTH
    BY QueueElement
  <2>2. Len(queue') <= DEPTH
    BY <1>1, <2>1, DepthAssumption
  <2>3. QED
    BY <1>1, <2>2 DEF DgTypeOK, DlTypeOK, tm_queue_pop
<1>4. expected' \in [TmServices -> 0 .. MSG_MODULUS - 1]
  <2>1. (p.msg_counter + 1) % MSG_MODULUS \in 0 .. MSG_MODULUS - 1
    <3>1. p.msg_counter + 1 \in Int
      BY <1>2
    <3>2. QED
      BY <3>1, ModuloBound, MsgAssumption
  <2>2. QED
    BY <1>1, <2>1 DEF Receive, DgTypeOK
<1>5. missed' \in [TmServices -> Nat]
  <2>1. (p.msg_counter - expected[p.service]) % MSG_MODULUS \in Nat
    <3>1. p.msg_counter - expected[p.service] \in Int
      BY <1>2
    <3>2. QED
      BY <3>1, ModuloBound, MsgAssumption
  <2>2. missed[p.service] + ((p.msg_counter - expected[p.service]) % MSG_MODULUS) \in Nat
    BY <1>2, <2>1 DEF DgTypeOK
  <2>3. QED
    BY <1>1, <2>2 DEF Receive, DgTypeOK
<1>6. QED
  BY <1>3, <1>4, <1>5 DEF DgTypeOK, Receive

\* After reception of a packet of the service everything is its offset and one closer.
LEMMA ReceiveOffsets ==
  ASSUME DgTypeOK, Receive, NEW s \in TmServices, queue[1].service = s, MessageInv(s)
  PROVE  /\ missed[s]' = missed[s] + Offset(s, 1)
         /\ Offset(s, 1) + 1 <= Ahead(s)
         /\ Ahead(s)' = Ahead(s) - Offset(s, 1) - 1
         /\ \A i \in 1 .. Len(queue') : \A j : j = i + 1 /\ queue[j].service = s =>
              Offset(s, i)' = Offset(s, j) - Offset(s, 1) - 1
<1> DEFINE e == expected[s]
           M == MSG_MODULUS
           f == Offset(s, 1)
           e2 == expected'[s]
<1>1. /\ 1 \in 1 .. Len(queue) /\ Head(queue) = queue[1] /\ Len(queue) \in Nat
      /\ \A i \in 1 .. Len(queue') : i + 1 \in 1 .. Len(queue) /\ queue'[i] = queue[i + 1]
  BY PopShifts, QueueElement DEF Receive
<1>2. e \in Int /\ M \in Nat \ {0}
  BY MsgAssumption DEF DgTypeOK
<1>3. f \in Nat /\ f < M /\ queue[1].msg_counter = (e + f) % M
  <2>1. f \in 0 .. M - 1 /\ queue[1].msg_counter = (e + f) % M
    BY <1>1, OffsetLeads
  <2> HIDE DEF f
  <2>2. QED
    BY <1>2, <2>1
<1>4. e2 = (queue[1].msg_counter + 1) % M /\ missed[s]' = missed[s] + f
  BY <1>1 DEF Receive, DgTypeOK, Offset
<1> HIDE DEF e, f, e2, M
<1>5. e2 \in Int /\ e2 = (e + (f + 1)) % M
  <2> DEFINE z == e + f
  <2>1. z \in Int /\ z + 1 = e + (f + 1)
    BY <1>2, <1>3
  <2> HIDE DEF z
  <2>2. \A b \in Int : ((z % M) + b) % M = (z + b) % M
    BY <1>2, <2>1, AddToRemainder
  <2>3. e2 = (z + 1) % M
    BY <1>3, <1>4, <2>2 DEF z
  <2>4. z + 1 \in Int
    BY <2>1
  <2>5. (z + 1) % M \in Int
    BY <1>2, <2>4, Division
  <2>6. QED
    BY <2>1, <2>3, <2>5
\* What is o ahead of the old expectation is o - f - 1 ahead of the new one.
<1>6. ASSUME NEW o \in Nat, f + 1 <= o, o < M
      PROVE  (((e + o) % M) - e2) % M = o - f - 1
  <2> DEFINE g == f + 1
             h == o - g
  <2>1. g \in Int /\ h \in Int /\ 0 <= h /\ h < M /\ e + g \in Int /\ (e + g) + h = e + o
        /\ h = o - f - 1
    BY <1>2, <1>3, <1>6
  <2>2. e2 = (e + g) % M
    BY <1>5
  <2> HIDE DEF g, h
  <2>3. (e2 + h) % M = (e + o) % M
    <3> DEFINE z == e + g
    <3>1. z \in Int
      BY <2>1
    <3> HIDE DEF z
    <3>2. ((z % M) + h) % M = (z + h) % M
      BY <1>2, <2>1, <3>1, AddToRemainder
    <3>3. QED
      BY <2>1, <2>2, <3>2 DEF z
  <2>4. (((e2 + h) % M) - e2) % M = h
    BY <1>2, <1>5, <2>1, DistanceModulo
  <2>5. QED
    BY <2>1, <2>3, <2>4
<1>7. /\ Ahead(s) \in Nat /\ Ahead(s) < M /\ f + 1 <= Ahead(s)
      /\ msg_counter[s] = (e + Ahead(s)) % M /\ msg_counter' = msg_counter
  <2> DEFINE a == Ahead(s)
             q == Queued(s)
             b == OfService(queue, s, 1)
  <2>1. a \in 0 .. M - 1 /\ msg_counter[s] = (e + a) % M
    BY AheadLeads DEF e, M
  <2>2. q \in Nat /\ b \in Nat /\ b <= q /\ f + 1 + (q - b) <= a
    <3>1. q \in Nat /\ b \in Nat /\ b <= q
      BY <1>1, OfServiceType, OfServiceBetween DEF Queued
    <3>2. QED
      BY <1>1, <3>1 DEF MessageInv, f
  <2> HIDE DEF a, q, b
  <2>3. a \in Nat /\ a < M /\ f + 1 <= a
    BY <1>2, <1>3, <2>1, <2>2
  <2>4. QED
    BY <2>1, <2>3 DEF a, Receive, tm_queue_pop
<1>8. Ahead(s)' = Ahead(s) - f - 1
  <2>1. Ahead(s)' = (msg_counter'[s] - e2) % M
    BY DEF Ahead, e2, M
  <2> DEFINE a == Ahead(s)
  <2>2. a \in Nat /\ a < M /\ f + 1 <= a /\ msg_counter'[s] = (e + a) % M
    BY <1>7
  <2> HIDE DEF a
  <2>3. (((e + a) % M) - e2) % M = a - f - 1
    BY <1>6, <2>2
  <2>4. Ahead(s)' = a - f - 1
    BY <2>1, <2>2, <2>3
  <2>5. QED
    BY <2>4 DEF a
<1>9. ASSUME NEW i \in 1 .. Len(queue'), NEW j, j = i + 1, queue[j].service = s
      PROVE  Offset(s, i)' = Offset(s, j) - f - 1
  <2> DEFINE o == Offset(s, j)
  <2>1. j \in 1 .. Len(queue) /\ queue'[i] = queue[j] /\ 1 < j
    BY <1>1, <1>9
  <2>2. o \in 0 .. M - 1 /\ queue[j].msg_counter = (e + o) % M
    BY <2>1, OffsetLeads DEF e, M
  <2>3. f < o
    BY <1>1, <1>9, <2>1 DEF MessageInv, f
  <2>4. Offset(s, i)' = (queue[j].msg_counter - e2) % M
    BY <2>1 DEF Offset, e2, M
  <2> HIDE DEF o
  <2>5. o \in Nat /\ o < M /\ f + 1 <= o
    BY <1>2, <1>3, <2>2, <2>3
  <2>6. (((e + o) % M) - e2) % M = o - f - 1
    BY <1>6, <2>5
  <2>7. Offset(s, i)' = o - f - 1
    BY <2>2, <2>4, <2>6
  <2>8. QED
    BY <2>7 DEF o
<1>10. QED
  BY <1>4, <1>7, <1>8, <1>9 DEF f

\* Whatever service the packet is of: one packet of s less or none, and the distances
\* of s shrink by f, of which all but that packet is a gap.
LEMMA ReceiveShift ==
  ASSUME DgTypeOK, Receive, NEW s \in TmServices, MessageInv(s)
  PROVE  \E f \in Nat, one \in Nat :
           /\ missed[s]' = missed[s] + (f - one)
           /\ Queued(s) = one + Queued(s)'
           /\ one <= f /\ f <= Ahead(s) /\ f - one <= dropped[s] - missed[s]
           /\ Ahead(s)' = Ahead(s) - f
           /\ \A i \in 1 .. Len(queue') : \A j : j = i + 1 =>
                /\ OfService(queue, s, j) = one + OfService(queue', s, i)
                /\ queue[j].service = s => Offset(s, i)' = Offset(s, j) - f
<1>1. /\ 1 \in 1 .. Len(queue) /\ Head(queue) = queue[1] /\ Len(queue) \in Nat
      /\ Len(queue') = Len(queue) - 1 /\ Len(queue') \in Nat
      /\ \A i \in 1 .. Len(queue') : i + 1 \in 1 .. Len(queue) /\ queue'[i] = queue[i + 1]
  BY PopShifts, QueueElement DEF Receive
<1>2. \A i \in 0 .. Len(queue') : OfService(queue, s, 1 + i) =
        (IF queue[1].service = s THEN 1 ELSE 0) + OfService(queue', s, i)
  BY PopShifts DEF Receive
<1>3. Queued(s) = (IF queue[1].service = s THEN 1 ELSE 0) + Queued(s)'
  <2>1. Len(queue') \in 0 .. Len(queue') /\ 1 + Len(queue') = Len(queue)
    BY <1>1
  <2>2. QED
    BY <1>2, <2>1 DEF Queued
<1>4. \A i \in 1 .. Len(queue') : \A j : j = i + 1 =>
        OfService(queue, s, j) = (IF queue[1].service = s THEN 1 ELSE 0) + OfService(queue', s, i)
  <2>1. \A i \in 1 .. Len(queue') : i + 1 = 1 + i /\ i \in 0 .. Len(queue')
    BY <1>1
  <2>2. QED
    BY <1>2, <2>1
<1>5. CASE queue[1].service = s
  <2> DEFINE o == Offset(s, 1)
             a == Ahead(s)
             f == o + 1
             d == dropped[s]
             m == missed[s]
             q == Queued(s)
  <2>1. /\ missed[s]' = m + o /\ o + 1 <= a /\ Ahead(s)' = a - o - 1
        /\ \A i \in 1 .. Len(queue') : \A j : j = i + 1 /\ queue[j].service = s =>
             Offset(s, i)' = Offset(s, j) - o - 1
    BY <1>5, ReceiveOffsets
  <2>2. o \in Nat /\ a \in Nat
    BY <1>1, OffsetLeads, AheadLeads, MsgAssumption
  <2>3. OfService(queue, s, 1) = 1
    <3>1. 1 \in Nat \ {0} /\ 1 - 1 = 0
      OBVIOUS
    <3>2. OfService(queue, s, 1) = OfService(queue, s, 1 - 1) + 1 /\ OfService(queue, s, 0) = 0
      BY <1>5, <3>1, OfServiceOne, OfServiceStep
    <3>3. QED
      BY <3>1, <3>2
  <2>4. /\ d \in Nat /\ m \in Nat /\ q \in Nat
        /\ a = q + d - m /\ o + 1 + (q - 1) <= a
    <3>1. q \in Nat
      BY <1>1, QueuedBound
    <3>2. QED
      BY <1>1, <1>5, <2>3, <3>1 DEF MessageInv, DgTypeOK
  <2>5. \A i \in 1 .. Len(queue') : \A j : j = i + 1 /\ queue[j].service = s =>
          Offset(s, i)' = Offset(s, j) - f
    <3> SUFFICES ASSUME NEW i \in 1 .. Len(queue'), NEW j, j = i + 1, queue[j].service = s
                 PROVE  Offset(s, i)' = Offset(s, j) - f
      OBVIOUS
    <3> DEFINE x == Offset(s, j)
    <3>1. j \in 1 .. Len(queue)
      BY <1>1
    <3>2. x \in Int
      BY <3>1, OffsetLeads, MsgAssumption
    <3>3. Offset(s, i)' = x - o - 1
      BY <2>1
    <3> HIDE DEF o, x
    <3>4. x - o - 1 = x - f
      BY <2>2, <3>2
    <3>5. QED
      BY <3>3, <3>4 DEF x
  <2>6. f \in Nat /\ 1 \in Nat /\ f - 1 = o /\ 1 <= f /\ f <= a /\ f - 1 <= d - m /\ a - o - 1 = a - f
    <3>1. o + 1 <= a
      BY <2>1
    <3> HIDE DEF o, a, d, m, q
    <3>2. QED
      BY <2>2, <2>4, <3>1
  <2> HIDE DEF f
  <2>7. /\ missed[s]' = missed[s] + (f - 1) /\ Queued(s) = 1 + Queued(s)'
        /\ 1 <= f /\ f <= Ahead(s) /\ f - 1 <= dropped[s] - missed[s]
        /\ Ahead(s)' = Ahead(s) - f
        /\ \A i \in 1 .. Len(queue') : \A j : j = i + 1 =>
             /\ OfService(queue, s, j) = 1 + OfService(queue', s, i)
             /\ queue[j].service = s => Offset(s, i)' = Offset(s, j) - f
    BY <1>3, <1>4, <1>5, <2>1, <2>5, <2>6
  <2>8. QED
    BY <2>6, <2>7
<1>6. CASE queue[1].service # s
  <2>1. expected'[s] = expected[s] /\ missed'[s] = missed[s] /\ msg_counter' = msg_counter
    BY <1>1, <1>6 DEF Receive, tm_queue_pop, DgTypeOK
  <2>2. missed[s] \in Nat /\ dropped[s] \in Nat /\ missed[s] <= dropped[s] /\ Ahead(s) \in Nat
    BY AheadLeads, MsgAssumption DEF MessageInv, DgTypeOK
  <2>3. Ahead(s)' = Ahead(s)
    BY <2>1 DEF Ahead
  <2>4. ASSUME NEW i \in 1 .. Len(queue'), NEW j, j = i + 1
        PROVE  Offset(s, i)' = Offset(s, j) /\ Offset(s, j) \in Nat
    <3>1. j \in 1 .. Len(queue) /\ queue'[i] = queue[j]
      BY <1>1, <2>4
    <3>2. QED
      BY <2>1, <3>1, OffsetLeads, MsgAssumption DEF Offset
  <2>5. /\ missed[s]' = missed[s] + (0 - 0) /\ Queued(s) = 0 + Queued(s)'
        /\ 0 <= 0 /\ 0 <= Ahead(s) /\ 0 - 0 <= dropped[s] - missed[s]
        /\ Ahead(s)' = Ahead(s) - 0
    BY <1>3, <1>6, <2>1, <2>2, <2>3
  <2>6. \A i \in 1 .. Len(queue') : \A j : j = i + 1 =>
          /\ OfService(queue, s, j) = 0 + OfService(queue', s, i)
          /\ queue[j].service = s => Offset(s, i)' = Offset(s, j) - 0
    BY <1>4, <1>6, <2>4
  <2>7. QED
    BY <2>5, <2>6
<1>7. QED
  BY <1>5, <1>6

LEMMA ReceiveMessages ==
  ASSUME DgTypeOK, Receive, NEW s \in TmServices, MessageInv(s)
  PROVE  MessageInv(s)'
<1>1. PICK f \in Nat, one \in Nat :
           /\ missed[s]' = missed[s] + (f - one)
           /\ Queued(s) = one + Queued(s)'
           /\ one <= f /\ f <= Ahead(s) /\ f - one <= dropped[s] - missed[s]
           /\ Ahead(s)' = Ahead(s) - f
           /\ \A i \in 1 .. Len(queue') : \A j : j = i + 1 =>
                /\ OfService(queue, s, j) = one + OfService(queue', s, i)
                /\ queue[j].service = s => Offset(s, i)' = Offset(s, j) - f
  BY ReceiveShift
<1>2. /\ Len(queue) \in Nat /\ Len(queue') \in Nat
      /\ \A i \in 1 .. Len(queue') : i + 1 \in 1 .. Len(queue) /\ queue'[i] = queue[i + 1]
  BY PopShifts, QueueElement DEF Receive
<1>3. DgTypeOK'
  BY ReceiveTypes
<1>4. dropped' = dropped /\ lost' = lost
  BY DEF Receive
<1> DEFINE a == Ahead(s)
           q == Queued(s)
           q2 == Queued(s)'
           d == dropped[s]
           m == missed[s]
<1>5. /\ a \in Nat /\ q \in Nat /\ q2 \in Nat /\ d \in Nat /\ m \in Nat
      /\ m <= d /\ d <= lost /\ a = q + d - m
      /\ q = one + q2 /\ one <= f /\ f <= a /\ f - one <= d - m
      /\ Ahead(s)' = a - f /\ missed[s]' = m + (f - one)
  <2>1. a \in Nat /\ q \in Nat
    BY <1>2, AheadLeads, QueuedBound, MsgAssumption
  <2>2. q2 \in Nat
    BY <1>2, OfServiceType DEF Queued
  <2>3. QED
    BY <1>1, <2>1, <2>2 DEF MessageInv, DgTypeOK
<1> HIDE DEF a, q, q2, d, m
<1>6. m + (f - one) <= d /\ a - f = q2 + d - (m + (f - one))
  BY <1>5
<1>7. ASSUME NEW i \in 1 .. Len(queue'), queue'[i].service = s
      PROVE  Offset(s, i)' + 1 + (q2 - OfService(queue', s, i)) <= a - f
  <2> DEFINE j == i + 1
             o == Offset(s, j)
             b == OfService(queue', s, i)
  <2>1. j \in 1 .. Len(queue) /\ queue[j].service = s
    BY <1>2, <1>7
  <2>2. OfService(queue, s, j) = one + b /\ Offset(s, i)' = o - f
    BY <1>1, <2>1
  <2>3. b \in Nat /\ o \in Nat
    BY <1>2, <2>1, OfServiceType, OffsetLeads, MsgAssumption
  <2>4. o + 1 + (q - (one + b)) <= a
    BY <2>1, <2>2 DEF MessageInv, q, a
  <2> HIDE DEF j, o, b
  <2>5. (o - f) + 1 + (q2 - b) <= a - f
    BY <1>5, <2>3, <2>4
  <2>6. QED
    BY <2>2, <2>5 DEF b
<1>8. ASSUME NEW i \in 1 .. Len(queue'), NEW k \in 1 .. Len(queue'), i < k,
             queue'[i].service = s, queue'[k].service = s
      PROVE  Offset(s, i)' < Offset(s, k)'
  <2> DEFINE x == Offset(s, i + 1)
             y == Offset(s, k + 1)
  <2>1. /\ i + 1 \in 1 .. Len(queue) /\ queue[i + 1].service = s
        /\ k + 1 \in 1 .. Len(queue) /\ queue[k + 1].service = s /\ i + 1 < k + 1
    BY <1>2, <1>8
  <2>2. Offset(s, i)' = x - f /\ Offset(s, k)' = y - f
    BY <1>1, <2>1
  <2>3. x < y
    BY <2>1 DEF MessageInv
  <2>4. x \in Nat /\ y \in Nat
    BY <2>1, OffsetLeads, MsgAssumption
  <2> HIDE DEF x, y
  <2>5. x - f < y - f
    BY <2>3, <2>4
  <2>6. QED
    BY <2>2, <2>5
<1>9. QED
  <2>1. /\ missed[s]' <= dropped[s]' /\ dropped[s]' <= lost'
        /\ Ahead(s)' = Queued(s)' + dropped[s]' - missed[s]'
    BY <1>4, <1>5, <1>6 DEF d, q2
  <2>2. \A i \in 1 .. Len(queue') : queue'[i].service = s =>
          Offset(s, i)' + 1 + (Queued(s)' - OfService(queue', s, i)) <= Ahead(s)'
    BY <1>5, <1>7 DEF q2
  <2>3. QED
    BY <1>8, <2>1, <2>2 DEF MessageInv

LEMMA ReceiveSequence ==
  ASSUME DgTypeOK, Receive, SequenceInv
  PROVE  SequenceInv'
<1>1. /\ Len(queue) \in Nat /\ Len(queue') = Len(queue) - 1
      /\ \A i \in 1 .. Len(queue') : i + 1 \in 1 .. Len(queue) /\ queue'[i] = queue[i + 1]
  BY PopShifts, QueueElement DEF Receive
<1>2. seq_count' = seq_count /\ lost' = lost /\ lost \in Nat
  BY WrapAssumption DEF Receive, tm_queue_pop, DgTypeOK
<1>3. ASSUME NEW i \in 1 .. Len(queue')
      PROVE  /\ Age(i)' = Age(i + 1) /\ Age(i + 1) \in Nat /\ i + 1 \in 1 .. Len(queue) /\ i \in Nat
             /\ Len(queue) - (i + 1) + 1 <= Age(i + 1)
             /\ Age(i + 1) <= Len(queue) - (i + 1) + 1 + lost
  <2>1. i + 1 \in 1 .. Len(queue) /\ queue'[i] = queue[i + 1] /\ i \in Nat
    BY <1>1
  <2>2. Age(i)' = Age(i + 1)
    BY <1>2, <2>1 DEF Age
  <2>3. Age(i + 1) \in Nat
    BY <2>1, AgeLeads, SeqAssumption
  <2>4. QED
    BY <2>1, <2>2, <2>3 DEF SequenceInv
<1>4. ASSUME NEW i \in 1 .. Len(queue')
      PROVE  Len(queue') - i + 1 <= Age(i)' /\ Age(i)' <= Len(queue') - i + 1 + lost'
  <2>1. Len(queue') - i + 1 = Len(queue) - (i + 1) + 1
    BY <1>1
  <2>2. QED
    BY <1>2, <1>3, <2>1
<1>5. ASSUME NEW i \in 1 .. Len(queue'), NEW j \in 1 .. Len(queue'), i < j
      PROVE  Age(i)' - Age(j)' >= j - i
  <2>1. i + 1 < j + 1 /\ (j + 1) - (i + 1) = j - i
    BY <1>3, <1>5
  <2>2. Age(i + 1) - Age(j + 1) >= (j + 1) - (i + 1)
    BY <1>3, <2>1 DEF SequenceInv
  <2>3. QED
    BY <1>3, <2>1, <2>2
<1>6. QED
  BY <1>4, <1>5 DEF SequenceInv

-----------------------------------------------------------------------------
(* The theorems *)

\* Nothing numbered, nothing expected: both ends start, and restart, at zero.
LEMMA EmptyNumbering == DgInit => NumberingInv
<1> SUFFICES ASSUME DgInit PROVE NumberingInv
  OBVIOUS
<1>1. Len(queue) = 0 /\ queue \in Seq(TmPacket)
  BY DEF DgInit, DlInit, NoPackets
<1>2. DgTypeOK
  BY <1>1, DepthAssumption, CounterAssumption, SeqAssumption, MsgAssumption, WrapAssumption
  DEF DgInit, DlInit, ZeroCounters, DgTypeOK, DlTypeOK
<1>3. ASSUME NEW s \in TmServices PROVE MessageInv(s)
  <2>1. missed[s] = 0 /\ dropped[s] = 0 /\ lost = 0 /\ msg_counter[s] = 0 /\ expected[s] = 0
    BY DEF DgInit, DlInit, ZeroCounters
  <2>2. Ahead(s) = 0
    <3>1. 0 % MSG_MODULUS = 0
      BY SmallRemainder, MsgAssumption
    <3>2. 0 - 0 = 0
      OBVIOUS
    <3>3. QED
      BY <2>1, <3>1, <3>2 DEF Ahead
  <2>3. Queued(s) = 0
    BY <1>1, OfServiceStep DEF Queued
  <2>4. QED
    BY <1>1, <2>1, <2>2, <2>3 DEF MessageInv
<1>4. SequenceInv
  BY <1>1 DEF SequenceInv
<1>5. QED
  BY <1>2, <1>3, <1>4 DEF NumberingInv

LEMMA NumberingStep ==
  ASSUME NumberingInv, [DgNext]_<<dl_vars, gnd_vars>>
  PROVE  NumberingInv'
<1> USE DEF NumberingInv
<1>1. ASSUME NEW pkts \in Bursts, Burst(pkts) PROVE NumberingInv'
  BY <1>1, BurstTypes, BurstMessages, BurstSequence
<1>2. CASE Receive
  BY <1>2, ReceiveTypes, ReceiveMessages, ReceiveSequence
<1>3. CASE Restart
  <2>1. DgInit'
    BY <1>3 DEF Restart, DgInit, DlInit
  <2>2. DgInit' => NumberingInv'
    BY EmptyNumbering, PTL
  <2>3. QED
    BY <2>1, <2>2
<1>4. CASE UNCHANGED <<dl_vars, gnd_vars>>
  <2>1. /\ queue' = queue /\ overflows' = overflows /\ seq_count' = seq_count
        /\ msg_counter' = msg_counter /\ expected' = expected /\ missed' = missed
        /\ dropped' = dropped /\ lost' = lost
    BY <1>4 DEF dl_vars, gnd_vars
  <2>2. DgTypeOK' /\ SequenceInv'
    BY <2>1 DEF DgTypeOK, DlTypeOK, SequenceInv, Age
  <2>3. \A s \in TmServices : MessageInv(s)'
    BY <2>1 DEF MessageInv, Ahead, Offset, Queued
  <2>4. QED
    BY <2>2, <2>3
<1>5. QED
  BY <1>1, <1>2, <1>3, <1>4 DEF DgNext

LEMMA NumberingInvariant == DgSpec => []NumberingInv
<1>1. DgInit => NumberingInv
  BY EmptyNumbering
<1>2. NumberingInv /\ [DgNext]_<<dl_vars, gnd_vars>> => NumberingInv'
  BY NumberingStep
<1>3. QED
  BY <1>1, <1>2, PTL DEF DgSpec

\* The queue never holds more than PUS_TM_QUEUE_DEPTH packets, each with counts below
\* their wraps, and the overflow counter never passes its 16 bits.
THEOREM DownlinkTypes == DgSpec => []DlTypeOK
<1>1. NumberingInv => DlTypeOK
  BY DEF NumberingInv, DgTypeOK
<1>2. QED
  BY <1>1, NumberingInvariant, PTL

\* The gaps the ground sees in the message counts of a service never overstate what the
\* queue dropped of it, and say exactly that once its newest packet has arrived.
THEOREM GapsTellLoss == DgSpec => []GapsRevealLoss
<1>1. ASSUME NumberingInv PROVE GapsRevealLoss
  <2>1. ASSUME NEW s \in TmServices
        PROVE  missed[s] <= dropped[s] /\ (msg_counter[s] = expected[s] => missed[s] = dropped[s])
    <3> DEFINE q == Queued(s)
               d == dropped[s]
               m == missed[s]
    <3>1. m <= d /\ Ahead(s) = q + d - m /\ d \in Nat /\ m \in Nat
      BY <1>1 DEF NumberingInv, MessageInv, DgTypeOK
    <3>2. q \in Nat
      <4>1. Len(queue) \in Nat /\ q \in 0 .. Len(queue)
        BY <1>1, QueueElement, QueuedBound DEF NumberingInv
      <4>2. QED
        BY <4>1
    <3>3. ASSUME msg_counter[s] = expected[s] PROVE m = d
      <4>1. Ahead(s) = 0
        <5>1. msg_counter[s] \in Int
          BY <1>1, MsgAssumption DEF NumberingInv, DgTypeOK, DlTypeOK
        <5>2. msg_counter[s] - expected[s] = 0
          BY <3>3, <5>1
        <5>3. 0 % MSG_MODULUS = 0
          BY SmallRemainder, MsgAssumption
        <5>4. QED
          BY <5>2, <5>3 DEF Ahead
      <4> HIDE DEF q, d, m
      <4>2. QED
        BY <3>1, <3>2, <4>1
    <3>4. QED
      BY <3>1, <3>3
  <2>2. QED
    BY <2>1 DEF GapsRevealLoss
<1>2. QED
  BY <1>1, NumberingInvariant, PTL

\* Packets leave the queue in the order in which they were numbered: the sequence counts
\* of two packets in the queue are at least as far apart as their places.
THEOREM SequenceOrder == DgSpec => []SequenceCountsInOrder
<1>1. ASSUME NumberingInv PROVE SequenceCountsInOrder
  <2>1. ASSUME NEW i \in 1 .. Len(queue), NEW j \in 1 .. Len(queue), i < j
        PROVE  (queue[j].seq_count - queue[i].seq_count) % SEQ_MODULUS >= j - i
    <3> DEFINE x == queue[i].seq_count
               y == queue[j].seq_count
               a == Age(i)
               b == Age(j)
               S == SEQ_MODULUS
    <3>1. x \in Int /\ y \in 0 .. S - 1 /\ S \in Nat \ {0}
      BY <1>1, QueueElement, SeqAssumption DEF NumberingInv
    <3>2. /\ a \in 0 .. S - 1 /\ b \in 0 .. S - 1
          /\ seq_count = (x + a) % S /\ seq_count = (y + b) % S
      BY <1>1, AgeLeads DEF NumberingInv
    <3>3. a - b >= j - i /\ i \in Int /\ j \in Int
      BY <1>1, <2>1, QueueElement DEF NumberingInv, SequenceInv
    <3> HIDE DEF x, y, a, b, S
    <3> DEFINE g == a - b
    <3>4. a \in Int /\ b \in Int /\ g \in Int /\ 0 <= g /\ g < S
      BY <2>1, <3>1, <3>2, <3>3
    <3>5. y = (x + (a - b)) % S
      <4>1. (((x + a) % S) - b) % S = (x + (a - b)) % S
        BY <3>1, <3>4, ForthAndBack
      <4>2. y + (b - b) = y /\ y \in Int /\ 0 <= y /\ y < S
        BY <3>1, <3>4
      <4>3. (((y + b) % S) - b) % S = (y + (b - b)) % S
        BY <3>1, <3>4, <4>2, ForthAndBack
      <4>4. y % S = y
        BY <3>1, <4>2, SmallRemainder
      <4>5. QED
        BY <3>2, <4>1, <4>2, <4>3, <4>4
    <3> HIDE DEF g
    <3>6. (((x + g) % S) - x) % S = g
      BY <3>1, <3>4, DistanceModulo
    <3>7. (y - x) % S = a - b
      BY <3>5, <3>6 DEF g
    <3>8. QED
      BY <3>3, <3>7 DEF x, y, S
  <2>2. QED
    BY <2>1 DEF SequenceCountsInOrder
<1>2. QED
  BY <1>1, NumberingInvariant, PTL

-----------------------------------------------------------------------------
(* Emit and pus_tm_send *)

\* The downlink after the first k packets of a burst, in closed form.
Room == DEPTH - Len(queue)
QueueAfter(pkts, k) == queue \o SubSeq(Stamped(pkts), 1, Lesser(k, Room))
SeqAfter(k) == (seq_count + k) % SEQ_MODULUS
MsgAfter(pkts, k) ==
  [s \in TmServices |-> (msg_counter[s] + OfService(pkts, s, k)) % MSG_MODULUS]
DownlinkAfter(pkts, k) == [queue |-> QueueAfter(pkts, k), overflows |-> OverflowsAfter(k),
                           seq |-> SeqAfter(k), msg |-> MsgAfter(pkts, k)]

LEMMA QueueAfterType ==
  ASSUME DlTypeOK, NEW pkts \in Seq(TmContent), NEW k \in 0 .. Len(pkts)
  PROVE  /\ Room \in Nat /\ Lesser(k, Room) \in 0 .. Len(pkts)
         /\ SubSeq(Stamped(pkts), 1, Lesser(k, Room)) \in Seq(TmPacket)
         /\ QueueAfter(pkts, k) \in Seq(TmPacket)
         /\ Len(QueueAfter(pkts, k)) = Len(queue) + Lesser(k, Room)
<1>1. Len(pkts) \in Nat /\ Len(queue) \in Nat /\ queue \in Seq(TmPacket)
  BY LenProperties DEF DlTypeOK
<1>2. Room \in Nat /\ Lesser(k, Room) \in 0 .. Len(pkts)
  BY <1>1, DepthAssumption DEF DlTypeOK, Room, Lesser
<1>3. Stamped(pkts) \in Seq(TmPacket) /\ Len(Stamped(pkts)) = Len(pkts)
  BY StampedType
<1> DEFINE l == Lesser(k, Room)
           t == SubSeq(Stamped(pkts), 1, l)
<1>4. l \in 0 .. Len(Stamped(pkts))
  BY <1>2, <1>3
<1> HIDE DEF l
<1>5. t \in Seq(TmPacket) /\ Len(t) = l
  BY <1>3, <1>4, SplitSeq
<1> HIDE DEF t
<1>6. queue \o t \in Seq(TmPacket) /\ Len(queue \o t) = Len(queue) + Len(t)
  BY <1>1, <1>5, ConcatProperties
<1>7. QED
  BY <1>2, <1>5, <1>6 DEF QueueAfter, t, l

\* The packet pus_tm_send builds after k - 1 others is the k-th of the numbered burst.
LEMMA SentPacket ==
  ASSUME DlTypeOK, NEW pkts \in Seq(TmContent), NEW k \in 1 .. Len(pkts)
  PROVE  Stamped(pkts)[k] =
           [service |-> pkts[k].service, subtype |-> pkts[k].subtype, data |-> pkts[k].data,
            seq_count |-> SeqAfter(k - 1), msg_counter |-> MsgAfter(pkts, k - 1)[pkts[k].service]]
<1>1. Len(pkts) \in Nat /\ pkts[k] \in TmContent
  BY LenProperties, ElementOfSeq
<1>2. pkts[k].service \in TmServices
  BY <1>1 DEF TmContent
<1>3. seq_count + k - 1 = seq_count + (k - 1)
  BY <1>1, SeqAssumption DEF DlTypeOK
<1>4. QED
  BY <1>2, <1>3 DEF Stamped, SeqAfter, MsgAfter

\* One more packet is appended if there is room for it.
LEMMA QueueAfterNext ==
  ASSUME DlTypeOK, NEW pkts \in Seq(TmContent), NEW k \in 1 .. Len(pkts)
  PROVE  QueueAfter(pkts, k) = IF Len(QueueAfter(pkts, k - 1)) >= DEPTH THEN QueueAfter(pkts, k - 1)
                               ELSE Append(QueueAfter(pkts, k - 1), Stamped(pkts)[k])
<1>1. /\ Len(pkts) \in Nat /\ Len(queue) \in Nat /\ queue \in Seq(TmPacket)
      /\ k \in 0 .. Len(pkts) /\ k - 1 \in 0 .. Len(pkts) /\ k \in Nat \ {0} /\ DEPTH \in Nat
  BY LenProperties, DepthAssumption DEF DlTypeOK
<1>2. Room \in Nat /\ Len(queue) + Room = DEPTH
  BY <1>1, QueueAfterType DEF Room
<1>3. Len(QueueAfter(pkts, k - 1)) = Len(queue) + Lesser(k - 1, Room)
  BY <1>1, QueueAfterType
<1>4. CASE k - 1 >= Room
  <2>1. Lesser(k - 1, Room) = Room /\ Lesser(k, Room) = Room
    BY <1>1, <1>2, <1>4 DEF Lesser
  <2>2. Len(QueueAfter(pkts, k - 1)) >= DEPTH
    BY <1>1, <1>2, <1>3, <2>1
  <2>3. QED
    BY <2>1, <2>2 DEF QueueAfter
<1>5. CASE ~(k - 1 >= Room)
  <2>1. Lesser(k - 1, Room) = k - 1 /\ Lesser(k, Room) = k
    BY <1>1, <1>2, <1>5 DEF Lesser
  <2>2. ~(Len(QueueAfter(pkts, k - 1)) >= DEPTH)
    BY <1>1, <1>2, <1>3, <1>5, <2>1
  <2> DEFINE st == Stamped(pkts)
             t == SubSeq(st, 1, k - 1)
             p == st[k]
  <2>3. st \in Seq(TmPacket) /\ Len(st) = Len(pkts) /\ p \in TmPacket
    BY StampedType
  <2>4. QueueAfter(pkts, k - 1) = queue \o t /\ QueueAfter(pkts, k) = queue \o SubSeq(st, 1, k)
    BY <2>1 DEF QueueAfter
  <2> HIDE DEF st, p
  <2>5. t \in Seq(TmPacket)
    BY <1>1, <2>3, SplitSeq
  <2>6. SubSeq(st, 1, k) = Append(t, p)
    <3>1. 1 \in 1 .. Len(st) /\ k \in 1 .. Len(st)
      BY <1>1, <2>3
    <3>2. QED
      BY <1>1, <2>3, <3>1, SubSeqRecursiveSecond DEF p
  <2> HIDE DEF t
  <2>7. /\ <<p>> \in Seq(TmPacket) /\ Append(t, p) = t \o <<p>>
        /\ Append(queue \o t, p) = (queue \o t) \o <<p>>
    <3>1. queue \o t \in Seq(TmPacket)
      BY <1>1, <2>5, ConcatProperties
    <3>2. <<p>> \in Seq(TmPacket)
      BY <2>3
    <3>3. QED
      BY <2>3, <2>5, <3>1, <3>2, AppendIsConcat
  <2>8. (queue \o t) \o <<p>> = queue \o (t \o <<p>>)
    <3> DEFINE u == <<p>>
    <3>1. u \in Seq(TmPacket)
      BY <2>7
    <3> HIDE DEF u
    <3>2. (queue \o t) \o u = queue \o (t \o u)
      BY <1>1, <2>5, <3>1, ConcatAssociative
    <3>3. QED
      BY <3>2 DEF u
  <2>9. QED
    BY <2>2, <2>4, <2>6, <2>7, <2>8 DEF p, st
<1>6. QED
  BY <1>4, <1>5

LEMMA OverflowsAfterNext ==
  ASSUME DlTypeOK, NEW k \in Nat \ {0}
  PROVE  OverflowsAfter(k) =
           IF Len(queue) + Lesser(k - 1, Room) >= DEPTH /\ OverflowsAfter(k - 1) < COUNTER_MAX
           THEN OverflowsAfter(k - 1) + 1 ELSE OverflowsAfter(k - 1)
<1>1. Len(queue) \in Nat /\ Len(queue) <= DEPTH /\ DEPTH \in Nat
  BY LenProperties, DepthAssumption DEF DlTypeOK
<1>2. overflows \in Nat /\ overflows <= COUNTER_MAX /\ COUNTER_MAX \in Nat
  BY CounterAssumption DEF DlTypeOK
<1> DEFINE n == Len(queue)
<1> HIDE DEF n
<1>3. n \in Nat /\ n <= DEPTH
  BY <1>1 DEF n
<1>4. Len(queue) = n
  BY DEF n
<1>5. n + Lesser(k - 1, Room) >= DEPTH <=> n + (k - 1) >= DEPTH
  BY <1>1, <1>3, <1>4 DEF Lesser, Room
<1>6. CASE n + k <= DEPTH
  <2>1. n + (k - 1) <= DEPTH /\ ~(n + (k - 1) >= DEPTH)
    BY <1>1, <1>3, <1>6
  <2>2. OverflowsAfter(k) = overflows /\ OverflowsAfter(k - 1) = overflows
    BY <1>4, <1>6, <2>1 DEF OverflowsAfter
  <2>3. QED
    BY <1>4, <1>5, <2>1, <2>2
<1>7. CASE ~(n + k <= DEPTH)
  <2>1. n + (k - 1) >= DEPTH
    BY <1>1, <1>3, <1>7
  <2>2. OverflowsAfter(k - 1) = Lesser(overflows + (n + (k - 1) - DEPTH), COUNTER_MAX)
    BY <1>1, <1>2, <1>3, <1>4, <2>1 DEF OverflowsAfter, Lesser
  <2>3. OverflowsAfter(k) = Lesser(overflows + (n + k - DEPTH), COUNTER_MAX)
    BY <1>4, <1>7 DEF OverflowsAfter
  <2>4. QED
    BY <1>1, <1>2, <1>3, <1>4, <1>5, <2>1, <2>2, <2>3 DEF Lesser
<1>8. QED
  BY <1>6, <1>7

LEMMA SeqAfterNext ==
  ASSUME DlTypeOK, NEW k \in Nat \ {0}
  PROVE  SeqAfter(k) = (SeqAfter(k - 1) + 1) % SEQ_MODULUS
<1> DEFINE z == seq_count + (k - 1)
           one == 1
<1>1. z \in Int /\ one \in Int /\ z + one = seq_count + k
  BY SeqAssumption DEF DlTypeOK
<1> HIDE DEF z, one
<1>2. ((z % SEQ_MODULUS) + one) % SEQ_MODULUS = (z + one) % SEQ_MODULUS
  BY <1>1, AddToRemainder, SeqAssumption
<1>3. QED
  BY <1>1, <1>2 DEF SeqAfter, z, one

LEMMA MsgAfterNext ==
  ASSUME DlTypeOK, NEW pkts \in Seq(TmContent), NEW k \in 1 .. Len(pkts)
  PROVE  MsgAfter(pkts, k) =
           [MsgAfter(pkts, k - 1) EXCEPT ![pkts[k].service] = (@ + 1) % MSG_MODULUS]
<1>1. Len(pkts) \in Nat /\ k \in Nat \ {0} /\ pkts[k] \in TmContent
  BY LenProperties, ElementOfSeq
<1>2. pkts[k].service \in TmServices
  BY <1>1 DEF TmContent
<1>3. ASSUME NEW s \in TmServices
      PROVE  MsgAfter(pkts, k)[s] = IF s = pkts[k].service THEN (MsgAfter(pkts, k - 1)[s] + 1) % MSG_MODULUS
                                    ELSE MsgAfter(pkts, k - 1)[s]
  <2>1. OfService(pkts, s, k) = OfService(pkts, s, k - 1) + (IF pkts[k].service = s THEN 1 ELSE 0)
    BY <1>1, OfServiceOne
  <2>2. OfService(pkts, s, k - 1) \in Nat /\ msg_counter[s] \in Nat
    BY <1>1, OfServiceType, MsgAssumption DEF DlTypeOK
  <2>3. CASE s = pkts[k].service
    <3> DEFINE x == msg_counter[s]
               y == OfService(pkts, s, k - 1)
               z == x + y
               one == 1
    <3>1. x \in Int /\ y \in Int /\ OfService(pkts, s, k) = y + one
      BY <2>1, <2>2, <2>3
    <3> HIDE DEF x, y
    <3>2. z \in Int /\ one \in Int /\ z + one = x + (y + one)
      BY <3>1
    <3> HIDE DEF z, one
    <3>3. ((z % MSG_MODULUS) + one) % MSG_MODULUS = (z + one) % MSG_MODULUS
      BY <3>2, AddToRemainder, MsgAssumption
    <3>4. MsgAfter(pkts, k)[s] = (z + one) % MSG_MODULUS
      BY <3>1, <3>2 DEF MsgAfter, x
    <3>5. MsgAfter(pkts, k - 1)[s] = z % MSG_MODULUS
      BY DEF MsgAfter, x, y, z
    <3>6. QED
      BY <2>3, <3>3, <3>4, <3>5 DEF one
  <2>4. CASE s # pkts[k].service
    <3>1. OfService(pkts, s, k) = OfService(pkts, s, k - 1)
      BY <2>1, <2>2, <2>4
    <3>2. QED
      BY <2>4, <3>1 DEF MsgAfter
  <2>5. QED
    BY <2>3, <2>4
<1>4. QED
  BY <1>2, <1>3 DEF MsgAfter

\* The closed form follows pus_tm_send, packet by packet.
LEMMA AfterNext ==
  ASSUME DlTypeOK, NEW pkts \in Seq(TmContent), NEW k \in 1 .. Len(pkts)
  PROVE  DownlinkAfter(pkts, k) = SendOne(DownlinkAfter(pkts, k - 1), pkts[k])
<1>1. Len(pkts) \in Nat /\ k \in Nat \ {0} /\ k - 1 \in 0 .. Len(pkts)
  BY LenProperties
<1>2. Len(QueueAfter(pkts, k - 1)) = Len(queue) + Lesser(k - 1, Room)
  BY <1>1, QueueAfterType
<1> DEFINE d == DownlinkAfter(pkts, k - 1)
           p == [service |-> pkts[k].service, subtype |-> pkts[k].subtype, data |-> pkts[k].data,
                 seq_count |-> d.seq, msg_counter |-> d.msg[pkts[k].service]]
<1>3. /\ d.queue = QueueAfter(pkts, k - 1) /\ d.overflows = OverflowsAfter(k - 1)
      /\ d.seq = SeqAfter(k - 1) /\ d.msg = MsgAfter(pkts, k - 1)
  BY DEF DownlinkAfter
<1>4. p = Stamped(pkts)[k]
  BY <1>3, SentPacket
<1>5. QueueAfter(pkts, k) = IF Len(d.queue) >= DEPTH THEN d.queue ELSE Append(d.queue, p)
  BY <1>3, <1>4, QueueAfterNext
<1>6. OverflowsAfter(k) = IF Len(d.queue) >= DEPTH /\ d.overflows < COUNTER_MAX
                          THEN d.overflows + 1 ELSE d.overflows
  BY <1>1, <1>2, <1>3, OverflowsAfterNext
<1>7. SeqAfter(k) = (d.seq + 1) % SEQ_MODULUS
  BY <1>1, <1>3, SeqAfterNext
<1>8. MsgAfter(pkts, k) = [d.msg EXCEPT ![pkts[k].service] = (@ + 1) % MSG_MODULUS]
  BY <1>3, MsgAfterNext
<1>9. SendOne(d, pkts[k]) =
        [queue |-> IF Len(d.queue) >= DEPTH THEN d.queue ELSE Append(d.queue, p),
         overflows |-> IF Len(d.queue) >= DEPTH /\ d.overflows < COUNTER_MAX
                       THEN d.overflows + 1 ELSE d.overflows,
         seq |-> (d.seq + 1) % SEQ_MODULUS,
         msg |-> [d.msg EXCEPT ![pkts[k].service] = (@ + 1) % MSG_MODULUS]]
  BY DEF SendOne
<1> HIDE DEF d, p
<1>10. SendOne(d, pkts[k]) = [queue |-> QueueAfter(pkts, k), overflows |-> OverflowsAfter(k),
                              seq |-> SeqAfter(k), msg |-> MsgAfter(pkts, k)]
  BY <1>5, <1>6, <1>7, <1>8, <1>9
<1>11. QED
  BY <1>10 DEF DownlinkAfter, d

LEMMA AfterNone ==
  ASSUME DlTypeOK, NEW pkts \in Seq(TmContent)
  PROVE  DownlinkAfter(pkts, 0) =
           [queue |-> queue, overflows |-> overflows, seq |-> seq_count, msg |-> msg_counter]
<1>1. Len(queue) \in Nat /\ Len(queue) <= DEPTH /\ DEPTH \in Nat /\ queue \in Seq(TmPacket)
  BY LenProperties, DepthAssumption DEF DlTypeOK
<1>2. QueueAfter(pkts, 0) = queue
  <2>1. Lesser(0, Room) = 0
    BY <1>1 DEF Lesser, Room
  <2>2. SubSeq(Stamped(pkts), 1, 0) = <<>>
    BY SubSeqEmpty
  <2>3. queue \o <<>> = queue
    BY <1>1, ConcatEmptySeq
  <2>4. QED
    BY <2>1, <2>2, <2>3 DEF QueueAfter
<1>3. OverflowsAfter(0) = overflows
  BY <1>1 DEF OverflowsAfter
<1>4. SeqAfter(0) = seq_count
  <2>1. seq_count \in Int /\ 0 <= seq_count /\ seq_count < SEQ_MODULUS /\ seq_count + 0 = seq_count
    BY SeqAssumption DEF DlTypeOK
  <2>2. QED
    BY <2>1, SmallRemainder, SeqAssumption DEF SeqAfter
<1>5. MsgAfter(pkts, 0) = msg_counter
  <2>1. ASSUME NEW s \in TmServices
        PROVE  (msg_counter[s] + OfService(pkts, s, 0)) % MSG_MODULUS = msg_counter[s]
    <3> DEFINE x == msg_counter[s]
    <3>1. x \in Int /\ 0 <= x /\ x < MSG_MODULUS
      BY MsgAssumption DEF DlTypeOK
    <3>2. x + 0 = x /\ OfService(pkts, s, 0) = 0
      BY <3>1, OfServiceStep
    <3> HIDE DEF x
    <3>3. x % MSG_MODULUS = x
      BY <3>1, SmallRemainder, MsgAssumption
    <3>4. QED
      BY <3>2, <3>3 DEF x
  <2>2. msg_counter = [s \in TmServices |-> msg_counter[s]]
    BY DEF DlTypeOK
  <2>3. QED
    BY <2>1, <2>2 DEF MsgAfter
<1>6. QED
  BY <1>2, <1>3, <1>4, <1>5 DEF DownlinkAfter

\* f[k] is the downlink after k calls of pus_tm_send.
IsSent(f, pkts) ==
  f = [k \in 0 .. Len(pkts) |->
         IF k = 0 THEN [queue |-> queue, overflows |-> overflows,
                        seq |-> seq_count, msg |-> msg_counter]
         ELSE SendOne(f[k - 1], pkts[k])]

LEMMA SentIsAfter ==
  ASSUME DlTypeOK, NEW pkts \in Seq(TmContent)
  PROVE  \A k \in 0 .. Len(pkts) : SendEach(pkts)[k] = DownlinkAfter(pkts, k)
<1> DEFINE L == Len(pkts)
           g == [k \in 0 .. L |-> DownlinkAfter(pkts, k)]
           f == SendEach(pkts)
           start == [queue |-> queue, overflows |-> overflows,
                     seq |-> seq_count, msg |-> msg_counter]
<1>1. L \in Nat
  BY LenProperties
<1>2. IsSent(g, pkts)
  <2>1. ASSUME NEW k \in 0 .. L
        PROVE  DownlinkAfter(pkts, k) = IF k = 0 THEN start ELSE SendOne(g[k - 1], pkts[k])
    <3>1. CASE k = 0
      BY <3>1, AfterNone
    <3>2. CASE k # 0
      <4>1. k \in 1 .. Len(pkts) /\ k - 1 \in 0 .. L
        BY <1>1, <3>2
      <4>2. DownlinkAfter(pkts, k) = SendOne(DownlinkAfter(pkts, k - 1), pkts[k])
        BY <4>1, AfterNext
      <4>3. g[k - 1] = DownlinkAfter(pkts, k - 1)
        BY <4>1
      <4>4. QED
        BY <3>2, <4>2, <4>3
    <3>3. QED
      BY <3>1, <3>2
  <2>2. g = [k \in 0 .. L |-> IF k = 0 THEN start ELSE SendOne(g[k - 1], pkts[k])]
    BY <2>1
  <2> HIDE DEF g
  <2>3. QED
    BY <2>2 DEF IsSent
<1>3. f = CHOOSE h : IsSent(h, pkts)
  BY DEF SendEach, IsSent
<1>4. IsSent(f, pkts)
  <2> HIDE DEF f, g
  <2>1. QED
    BY <1>2, <1>3
<1> HIDE DEF f
<1>5. \A k \in 0 .. L : f[k] = IF k = 0 THEN start ELSE SendOne(f[k - 1], pkts[k])
  BY <1>4 DEF IsSent
<1> DEFINE T == {k \in Nat : k <= L => f[k] = DownlinkAfter(pkts, k)}
<1> HIDE DEF g, start
<1>6. 0 \in T
  <2>1. 0 \in 0 .. L
    BY <1>1
  <2>2. f[0] = start
    BY <1>5, <2>1
  <2>3. DownlinkAfter(pkts, 0) = start
    BY AfterNone DEF start
  <2>4. QED
    BY <2>2, <2>3
<1>7. ASSUME NEW k \in Nat, k \in T PROVE k + 1 \in T
  <2> SUFFICES ASSUME k + 1 <= L PROVE f[k + 1] = DownlinkAfter(pkts, k + 1)
    OBVIOUS
  <2>1. k + 1 \in 1 .. Len(pkts) /\ k + 1 \in 0 .. L /\ k + 1 # 0 /\ (k + 1) - 1 = k /\ k <= L
    BY <1>1
  <2>2. f[k] = DownlinkAfter(pkts, k)
    BY <1>7, <2>1
  <2> DEFINE j == k + 1
  <2>3. j \in 1 .. Len(pkts) /\ j \in 0 .. L /\ j # 0 /\ j - 1 = k
    BY <2>1
  <2> HIDE DEF j, T
  <2>4. f[j] = SendOne(f[k], pkts[j])
    BY <1>5, <2>3
  <2>5. DownlinkAfter(pkts, j) = SendOne(DownlinkAfter(pkts, j - 1), pkts[j])
    BY <2>3, AfterNext
  <2>6. f[j] = DownlinkAfter(pkts, j)
    BY <2>2, <2>3, <2>4, <2>5
  <2>7. QED
    BY <2>6 DEF j
<1> HIDE DEF T
<1>8. \A k \in Nat : k \in T
  BY <1>6, <1>7, SetInduction
<1>9. \A k \in 0 .. L : k \in Nat /\ k <= L
  BY <1>1
<1>10. QED
  BY <1>8, <1>9 DEF T, f

\* The step the application takes for a burst of packets is what pus_tm_send, called
\* once for each of them, leaves behind, at every depth and for every burst.
THEOREM EmitSendsEach == DgSpec => EmitIsRepeatedSend
<1>1. ASSUME DlTypeOK, NEW pkts \in Bursts, Emit(pkts)
      PROVE  IsWhatWasSent(pkts)
  <2> DEFINE f == SendEach(pkts)
  <2>1. pkts \in Seq(TmContent) /\ Len(pkts) \in Nat /\ Len(pkts) \in 0 .. Len(pkts)
    BY BurstPackets
  <2>2. \A k \in 0 .. Len(pkts) : f[k] = DownlinkAfter(pkts, k)
    BY <1>1, <2>1, SentIsAfter
  <2> HIDE DEF f
  <2>3. \A k \in 0 .. Len(pkts) :
          /\ f[k].queue = QueueAfter(pkts, k) /\ f[k].overflows = OverflowsAfter(k)
          /\ f[k].seq = SeqAfter(k) /\ f[k].msg = MsgAfter(pkts, k)
    <3>1. \A k : LET r == DownlinkAfter(pkts, k)
                 IN /\ r.queue = QueueAfter(pkts, k) /\ r.overflows = OverflowsAfter(k)
                    /\ r.seq = SeqAfter(k) /\ r.msg = MsgAfter(pkts, k)
      BY DEF DownlinkAfter
    <3>2. QED
      BY <2>2, <3>1
  <2>4. ASSUME NEW k \in 0 .. Len(pkts) PROVE Len(f[k].queue) = CountAfter(k)
    <3>1. Len(QueueAfter(pkts, k)) = Len(queue) + Lesser(k, Room)
      BY <1>1, <2>1, QueueAfterType
    <3>2. Len(queue) \in Nat /\ Len(queue) <= DEPTH /\ DEPTH \in Nat /\ k \in Nat
      BY <1>1, <2>1, LenProperties, DepthAssumption DEF DlTypeOK
    <3>3. Len(queue) + Lesser(k, Room) = CountAfter(k)
      BY <3>2 DEF Lesser, Room, CountAfter
    <3>4. QED
      BY <2>3, <3>1, <3>3
  <2>5. /\ queue' = QueueAfter(pkts, Len(pkts)) /\ overflows' = OverflowsAfter(Len(pkts))
        /\ seq_count' = SeqAfter(Len(pkts)) /\ msg_counter' = MsgAfter(pkts, Len(pkts))
    BY <1>1 DEF Emit, QueueAfter, SeqAfter, MsgAfter, Kept, Room
  <2>6. /\ queue' = f[Len(pkts)].queue /\ overflows' = f[Len(pkts)].overflows
        /\ seq_count' = f[Len(pkts)].seq /\ msg_counter' = f[Len(pkts)].msg
    BY <2>1, <2>3, <2>5
  <2>7. QED
    BY <2>3, <2>4, <2>6 DEF f, IsWhatWasSent
<1>2. DlTypeOK => \A pkts \in Bursts : Emit(pkts) => IsWhatWasSent(pkts)
  BY <1>1
<1>3. QED
  BY <1>2, DownlinkTypes, PTL DEF EmitIsRepeatedSend
=============================================================================
