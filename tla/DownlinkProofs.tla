--------------------------- MODULE DownlinkProofs ---------------------------
(***************************************************************************)
(* What a burst of pus_tm_send calls does to the downlink queue, for every *)
(* depth, counter width and numbering modulus.                             *)
(***************************************************************************)
EXTENDS Downlink, DataLemmas, FiniteSetTheorems

\* The number of packets of a service among the first k is a natural number.
LEMMA OfServiceType ==
  ASSUME NEW pkts, NEW s, NEW k \in Int
  PROVE  OfService(pkts, s, k) \in Nat
<1>1. IsFiniteSet(1 .. k)
  BY FS_Interval
<1>2. IsFiniteSet({j \in 1 .. k : pkts[j].service = s})
  BY <1>1, FS_Subset
<1>3. QED
  BY <1>2, FS_CardinalityType DEF OfService

\* No packet, no service; each further packet counts for its own service.
LEMMA OfServiceStep ==
  ASSUME NEW pkts, NEW s
  PROVE  /\ OfService(pkts, s, 0) = 0
         /\ \A k \in Nat : OfService(pkts, s, k + 1) =
              OfService(pkts, s, k) + (IF pkts[k + 1].service = s THEN 1 ELSE 0)
<1> DEFINE Of(k) == {j \in 1 .. k : pkts[j].service = s}
<1>1. Of(0) = {}
  OBVIOUS
<1>2. OfService(pkts, s, 0) = 0
  BY <1>1, FS_EmptySet DEF OfService
<1>3. ASSUME NEW k \in Nat
      PROVE  OfService(pkts, s, k + 1) =
               OfService(pkts, s, k) + (IF pkts[k + 1].service = s THEN 1 ELSE 0)
  <2>1. IsFiniteSet(Of(k))
    <3>1. IsFiniteSet(1 .. k)
      BY FS_Interval
    <3>2. QED
      BY <3>1, FS_Subset
  <2>2. k + 1 \notin Of(k) /\ 1 .. k + 1 = (1 .. k) \cup {k + 1}
    OBVIOUS
  <2>3. CASE pkts[k + 1].service = s
    <3>1. Of(k + 1) = Of(k) \cup {k + 1}
      BY <2>2, <2>3
    <3>2. Cardinality(Of(k) \cup {k + 1}) = Cardinality(Of(k)) + 1
      BY <2>1, <2>2, FS_AddElement
    <3>3. QED
      BY <2>3, <3>1, <3>2 DEF OfService
  <2>4. CASE pkts[k + 1].service # s
    <3>1. Of(k + 1) = Of(k)
      BY <2>2, <2>4
    <3>2. OfService(pkts, s, k) = Cardinality(Of(k)) /\ OfService(pkts, s, k + 1) = Cardinality(Of(k + 1))
      BY DEF OfService
    <3>3. OfService(pkts, s, k) \in Nat
      BY OfServiceType
    <3> HIDE DEF Of
    <3>4. QED
      BY <2>4, <3>1, <3>2, <3>3
  <2>5. QED
    BY <2>3, <2>4
<1>4. QED
  BY <1>2, <1>3

\* d further packets are of the service, or not.
LEMMA OfServiceGrows ==
  ASSUME NEW pkts, NEW s, NEW j \in Nat
  PROVE  \A d \in Nat : /\ OfService(pkts, s, j) <= OfService(pkts, s, j + d)
                        /\ OfService(pkts, s, j + d) <= OfService(pkts, s, j) + d
<1> DEFINE T == {d \in Nat : /\ OfService(pkts, s, j) <= OfService(pkts, s, j + d)
                             /\ OfService(pkts, s, j + d) <= OfService(pkts, s, j) + d}
<1>1. \A k \in Nat : OfService(pkts, s, k) \in Nat
  BY OfServiceType
<1>2. 0 \in T
  <2>1. j + 0 = j
    OBVIOUS
  <2>2. QED
    BY <1>1, <2>1
<1>3. ASSUME NEW d \in Nat, d \in T PROVE d + 1 \in T
  <2>1. j + d \in Nat /\ j + (d + 1) = (j + d) + 1
    OBVIOUS
  <2>2. OfService(pkts, s, (j + d) + 1) =
          OfService(pkts, s, j + d) + (IF pkts[(j + d) + 1].service = s THEN 1 ELSE 0)
    BY <2>1, OfServiceStep
  <2>3. QED
    BY <1>1, <1>3, <2>1, <2>2
<1> HIDE DEF T
<1>4. \A d \in Nat : d \in T
  BY <1>2, <1>3, SetInduction
<1>5. QED
  BY <1>4 DEF T

LEMMA OfServiceBetween ==
  ASSUME NEW pkts, NEW s, NEW a \in Nat, NEW b \in Nat, a <= b
  PROVE  /\ OfService(pkts, s, a) <= OfService(pkts, s, b)
         /\ OfService(pkts, s, b) - OfService(pkts, s, a) <= b - a
<1> DEFINE d == b - a
<1>1. d \in Nat /\ a + d = b
  OBVIOUS
<1> HIDE DEF d
<1>2. /\ OfService(pkts, s, a) <= OfService(pkts, s, a + d)
      /\ OfService(pkts, s, a + d) <= OfService(pkts, s, a) + d
  BY <1>1, OfServiceGrows
<1>3. OfService(pkts, s, a) \in Nat /\ OfService(pkts, s, b) \in Nat
  BY OfServiceType
<1>4. QED
  BY <1>1, <1>2, <1>3

LEMMA OfServiceOne ==
  ASSUME NEW pkts, NEW s, NEW k \in Nat \ {0}
  PROVE  OfService(pkts, s, k) =
           OfService(pkts, s, k - 1) + (IF pkts[k].service = s THEN 1 ELSE 0)
<1> DEFINE l == k - 1
<1>1. l \in Nat /\ l + 1 = k
  OBVIOUS
<1> HIDE DEF l
<1>2. OfService(pkts, s, l + 1) = OfService(pkts, s, l) + (IF pkts[l + 1].service = s THEN 1 ELSE 0)
  BY <1>1, OfServiceStep
<1>3. QED
  BY <1>1, <1>2 DEF l

\* The first m packets of r stand behind the first n of q, by their services.
StandsBehind(r, m, q, n) == \A i \in 1 .. m : q[n + i].service = r[i].service

\* Counting on through packets that stand behind others.
LEMMA OfServiceJoined ==
  ASSUME NEW q, NEW r, NEW s, NEW n \in Nat, NEW m \in Nat, StandsBehind(r, m, q, n)
  PROVE  \A k \in 0 .. m : OfService(q, s, n + k) = OfService(q, s, n) + OfService(r, s, k)
<1> DEFINE T == {k \in Nat : k <= m =>
                    OfService(q, s, n + k) = OfService(q, s, n) + OfService(r, s, k)}
<1>1. \A k \in Nat : OfService(q, s, k) \in Nat /\ OfService(r, s, k) \in Nat
  BY OfServiceType
<1>2. 0 \in T
  <2>1. n + 0 = n /\ OfService(r, s, 0) = 0
    BY OfServiceStep
  <2>2. QED
    BY <1>1, <2>1
<1>3. ASSUME NEW k \in Nat, k \in T PROVE k + 1 \in T
  <2> SUFFICES ASSUME k + 1 <= m
               PROVE  OfService(q, s, n + (k + 1)) = OfService(q, s, n) + OfService(r, s, k + 1)
    OBVIOUS
  <2>1. n + k \in Nat /\ n + (k + 1) = (n + k) + 1 /\ k + 1 \in 1 .. m
    OBVIOUS
  <2>2. OfService(q, s, (n + k) + 1) =
          OfService(q, s, n + k) + (IF q[(n + k) + 1].service = s THEN 1 ELSE 0)
    <3> DEFINE l == n + k
    <3>1. l \in Nat
      BY <2>1
    <3> HIDE DEF l
    <3>2. OfService(q, s, l + 1) = OfService(q, s, l) + (IF q[l + 1].service = s THEN 1 ELSE 0)
      BY <3>1, OfServiceStep
    <3>3. QED
      BY <3>2 DEF l
  <2>3. OfService(r, s, k + 1) = OfService(r, s, k) + (IF r[k + 1].service = s THEN 1 ELSE 0)
    BY OfServiceStep
  <2>4. OfService(q, s, n + k) = OfService(q, s, n) + OfService(r, s, k)
    BY <1>3, <2>1
  <2>5. q[(n + k) + 1].service = r[k + 1].service
    BY <2>1 DEF StandsBehind
  <2>6. QED
    BY <1>1, <2>1, <2>2, <2>3, <2>4, <2>5
<1> HIDE DEF T
<1>4. \A k \in Nat : k \in T
  BY <1>2, <1>3, SetInduction
<1>5. QED
  BY <1>4 DEF T

\* The first packet and the others.
LEMMA OfServiceTail ==
  ASSUME NEW q, NEW r, NEW s, NEW m \in Nat, StandsBehind(r, m, q, 1)
  PROVE  \A k \in 0 .. m :
           OfService(q, s, 1 + k) = (IF q[1].service = s THEN 1 ELSE 0) + OfService(r, s, k)
<1>1. \A k \in 0 .. m : OfService(q, s, 1 + k) = OfService(q, s, 1) + OfService(r, s, k)
  BY OfServiceJoined
<1>2. 1 \in Nat \ {0} /\ 1 - 1 = 0
  OBVIOUS
<1>3. OfService(q, s, 1) = OfService(q, s, 1 - 1) + (IF q[1].service = s THEN 1 ELSE 0)
  BY <1>2, OfServiceOne
<1>4. OfService(q, s, 0) = 0
  BY OfServiceStep
<1>5. QED
  BY <1>1, <1>2, <1>3, <1>4

\* The first k packets decide how many of them are of the service.
LEMMA OfServicePrefix ==
  ASSUME NEW q, NEW r, NEW s, NEW m \in Nat, \A i \in 1 .. m : q[i].service = r[i].service
  PROVE  \A k \in 0 .. m : OfService(q, s, k) = OfService(r, s, k)
<1>1. ASSUME NEW k \in 0 .. m
      PROVE  {j \in 1 .. k : q[j].service = s} = {j \in 1 .. k : r[j].service = s}
  OBVIOUS
<1>2. QED
  BY <1>1 DEF OfService

\* What the queue and its overflow counter become after k more packets.
LEMMA AfterType ==
  ASSUME DlTypeOK, NEW k \in Nat
  PROVE  /\ Len(queue) \in 0 .. DEPTH
         /\ CountAfter(k) \in 0 .. DEPTH
         /\ OverflowsAfter(k) \in 0 .. COUNTER_MAX
<1>1. Len(queue) \in 0 .. DEPTH
  BY DepthAssumption, LenProperties DEF DlTypeOK
<1>2. QED
  BY <1>1, DepthAssumption, CounterAssumption
  DEF DlTypeOK, CountAfter, OverflowsAfter, Lesser

\* Numbering keeps the packets, one by one, and makes each a telemetry packet.
LEMMA StampedType ==
  ASSUME DlTypeOK, NEW pkts \in Seq(TmContent)
  PROVE  /\ Stamped(pkts) \in Seq(TmPacket)
         /\ Len(Stamped(pkts)) = Len(pkts)
         /\ \A k \in 1 .. Len(pkts) : /\ Stamped(pkts)[k] \in TmPacket
                                      /\ Stamped(pkts)[k].service = pkts[k].service
                                      /\ Stamped(pkts)[k].subtype = pkts[k].subtype
                                      /\ Stamped(pkts)[k].data = pkts[k].data
<1> DEFINE n == Len(pkts)
<1>1. n \in Nat
  BY LenProperties
<1>2. ASSUME NEW k \in 1 .. n
      PROVE  /\ Stamped(pkts)[k] \in TmPacket
             /\ Stamped(pkts)[k].service = pkts[k].service
             /\ Stamped(pkts)[k].subtype = pkts[k].subtype
             /\ Stamped(pkts)[k].data = pkts[k].data
  <2>1. pkts[k] \in TmContent
    BY ElementOfSeq
  <2>2. (seq_count + k - 1) % SEQ_MODULUS \in 0 .. SEQ_MODULUS - 1
    <3>1. seq_count + k - 1 \in Int
      BY <1>1, SeqAssumption DEF DlTypeOK
    <3>2. QED
      BY <3>1, ModuloBound, SeqAssumption
  <2>3. OfService(pkts, pkts[k].service, k - 1) \in Nat
    BY <1>1, OfServiceType
  <2>4. msg_counter[pkts[k].service] \in Nat
    BY <2>1, MsgAssumption DEF DlTypeOK, TmContent
  <2>5. (msg_counter[pkts[k].service] + OfService(pkts, pkts[k].service, k - 1)) % MSG_MODULUS
          \in 0 .. MSG_MODULUS - 1
    <3>1. msg_counter[pkts[k].service] + OfService(pkts, pkts[k].service, k - 1) \in Int
      BY <2>3, <2>4
    <3>2. QED
      BY <3>1, ModuloBound, MsgAssumption
  <2>6. QED
    BY <2>1, <2>2, <2>5 DEF Stamped, TmContent, TmPacket
<1>3. Stamped(pkts) \in [1 .. n -> TmPacket]
  BY <1>2 DEF Stamped
<1>4. Stamped(pkts) \in Seq(TmPacket)
  BY <1>1, <1>3, SeqDef
<1>5. Len(Stamped(pkts)) = n
  <2>1. Len(Stamped(pkts)) \in Nat /\ 1 .. Len(Stamped(pkts)) = 1 .. n
    BY <1>3, <1>4, LenProperties
  <2>2. QED
    BY <1>1, <2>1
<1>6. QED
  BY <1>2, <1>4, <1>5

\* The packets a burst adds to the queue: a prefix of the burst, behind what was there.
EmitAdds(pkts) ==
  /\ Kept(pkts) \in 0 .. Len(pkts) /\ Kept(pkts) <= DEPTH - Len(queue)
  /\ queue' \in Seq(TmPacket)
  /\ Len(queue') = Len(queue) + Kept(pkts)
  /\ \A i \in 1 .. Len(queue) : queue'[i] = queue[i]
  /\ \A i \in 1 .. Kept(pkts) : queue'[Len(queue) + i] = Stamped(pkts)[i]

LEMMA EmitAddsPrefix ==
  ASSUME DlTypeOK, NEW pkts \in Seq(TmContent), Emit(pkts)
  PROVE  EmitAdds(pkts)
<1> DEFINE kept == SubSeq(Stamped(pkts), 1, Kept(pkts))
<1>1. Len(pkts) \in Nat /\ Len(queue) \in Nat
  BY LenProperties DEF DlTypeOK
<1>2. Kept(pkts) \in 0 .. Len(pkts) /\ Kept(pkts) <= DEPTH - Len(queue)
  BY <1>1, DepthAssumption DEF DlTypeOK, Kept, Lesser
<1>3. Kept(pkts) \in Int /\ \A i \in 1 .. Kept(pkts) : i \in 1 .. Len(pkts)
  BY <1>1, <1>2
<1>4. \A i \in 1 .. Kept(pkts) : Stamped(pkts)[i] \in TmPacket
  BY <1>3, StampedType
<1>5. /\ kept \in Seq(TmPacket)
      /\ Len(kept) = IF 1 <= Kept(pkts) THEN Kept(pkts) - 1 + 1 ELSE 0
      /\ \A i \in 1 .. Kept(pkts) - 1 + 1 : kept[i] = Stamped(pkts)[1 + i - 1]
  BY <1>3, <1>4, SubSeqProperties
<1>6. /\ Len(kept) = Kept(pkts)
      /\ \A i \in 1 .. Kept(pkts) : kept[i] = Stamped(pkts)[i]
  <2>1. Kept(pkts) - 1 + 1 = Kept(pkts) /\ \A i \in 1 .. Kept(pkts) : 1 + i - 1 = i
    BY <1>3
  <2>2. QED
    BY <1>2, <1>5, <2>1
<1>7. queue' = queue \o kept
  BY DEF Emit
<1>8. queue \in Seq(TmPacket)
  BY DEF DlTypeOK
<1> HIDE DEF kept
<1>9. /\ queue' \in Seq(TmPacket)
      /\ Len(queue') = Len(queue) + Kept(pkts)
      /\ \A i \in 1 .. Len(queue) + Kept(pkts) :
           queue'[i] = IF i <= Len(queue) THEN queue[i] ELSE kept[i - Len(queue)]
  <2>1. kept \in Seq(TmPacket) /\ Len(kept) = Kept(pkts)
    BY <1>5, <1>6
  <2>2. /\ queue \o kept \in Seq(TmPacket)
        /\ Len(queue \o kept) = Len(queue) + Len(kept)
        /\ \A i \in 1 .. Len(queue) + Len(kept) :
             (queue \o kept)[i] = IF i <= Len(queue) THEN queue[i] ELSE kept[i - Len(queue)]
    BY <1>8, <2>1, ConcatProperties
  <2>3. QED
    BY <1>7, <2>1, <2>2
<1>10. \A i \in 1 .. Len(queue) : queue'[i] = queue[i]
  BY <1>1, <1>2, <1>9
<1>11. ASSUME NEW i \in 1 .. Kept(pkts)
       PROVE  queue'[Len(queue) + i] = Stamped(pkts)[i]
  <2>1. /\ Len(queue) + i \in 1 .. Len(queue) + Kept(pkts)
        /\ ~(Len(queue) + i <= Len(queue))
        /\ Len(queue) + i - Len(queue) = i
    BY <1>1, <1>2
  <2>2. QED
    BY <1>6, <1>9, <2>1
<1>12. QED
  BY <1>2, <1>9, <1>10, <1>11 DEF EmitAdds

\* A burst keeps the types of the queue, the overflow counter and the numbering.
LEMMA EmitType ==
  ASSUME DlTypeOK, NEW pkts \in Seq(TmContent), Emit(pkts)
  PROVE  DlTypeOK'
<1>1. Len(pkts) \in Nat /\ Len(queue) \in Nat
  BY LenProperties DEF DlTypeOK
<1>2. queue' \in Seq(TmPacket) /\ Len(queue') <= DEPTH
  BY <1>1, EmitAddsPrefix, DepthAssumption DEF EmitAdds
<1>3. overflows' \in 0 .. COUNTER_MAX
  BY <1>1, AfterType DEF Emit
<1>4. seq_count' \in 0 .. SEQ_MODULUS - 1
  BY <1>1, ModuloBound, SeqAssumption DEF Emit, DlTypeOK
<1>5. ASSUME NEW s \in TmServices
      PROVE  (msg_counter[s] + OfService(pkts, s, Len(pkts))) % MSG_MODULUS
               \in 0 .. MSG_MODULUS - 1
  <2>1. msg_counter[s] \in Nat /\ OfService(pkts, s, Len(pkts)) \in Nat
    BY <1>1, OfServiceType, MsgAssumption DEF DlTypeOK
  <2>2. msg_counter[s] + OfService(pkts, s, Len(pkts)) \in Int
    BY <2>1
  <2>3. QED
    BY <2>2, ModuloBound, MsgAssumption
<1>6. msg_counter' \in [TmServices -> 0 .. MSG_MODULUS - 1]
  BY <1>5 DEF Emit
<1>7. QED
  BY <1>2, <1>3, <1>4, <1>6 DEF DlTypeOK
=============================================================================
