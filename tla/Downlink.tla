------------------------------ MODULE Downlink ------------------------------
(***************************************************************************)
(* src/pus_tm.c over src/tm_queue.c : telemetry packets are numbered when  *)
(* they are built and queued afterwards, so a packet the full queue drops  *)
(* has already consumed a sequence count and a message count.              *)
(*                                                                         *)
(* The queue is the sequence of packets module TmQueue shows the ring to   *)
(* implement.  A packet is its service, subtype, source data (one number   *)
(* per field) and the two counts it is stamped with; the rest of a packet  *)
(* (constant header fields, time stamp, CRC) no property here tells apart. *)
(* Every packet the application sends fits PUS_MAX_PACKET_SIZE, so         *)
(* pus_tm_build has no reachable error return.                             *)
(***************************************************************************)
EXTENDS PusTypes, Sequences, FiniteSets

CONSTANTS DEPTH,         \* PUS_TM_QUEUE_DEPTH
          COUNTER_MAX,   \* 0xFFFF, where the 16-bit event counters saturate
          SEQ_MODULUS,   \* 16384, the wrap of the packet sequence count
          MSG_MODULUS    \* 65536, the wrap of the message type counters

ASSUME DepthAssumption == DEPTH \in Nat \ {0}
ASSUME CounterAssumption == COUNTER_MAX \in Nat
ASSUME SeqAssumption == SEQ_MODULUS \in Nat \ {0}
ASSUME MsgAssumption == MSG_MODULUS \in Nat \ {0}

VARIABLES queue,       \* packets awaiting downlink, oldest first
          overflows,   \* packets dropped, saturating
          seq_count,   \* s_seq_count
          msg_counter  \* s_msg_counter

dl_vars == <<queue, overflows, seq_count, msg_counter>>

\* A packet before and after it is stamped by pus_tm_build.
TmContent == [service : TmServices, subtype : Nat, data : Seq(Nat)]
TmPacket == [service : TmServices, subtype : Nat, data : Seq(Nat),
             seq_count : 0 .. SEQ_MODULUS - 1, msg_counter : 0 .. MSG_MODULUS - 1]

\* pus_tm_reset and tm_queue_init
NoPackets == <<>>
ZeroCounters == [s \in TmServices |-> 0]

DlInit == /\ queue = NoPackets /\ overflows = 0
          /\ seq_count = 0 /\ msg_counter = ZeroCounters

-----------------------------------------------------------------------------
\* State of the queue after k more packets have been sent.
CountAfter(k) == Lesser(Len(queue) + k, DEPTH)
OverflowsAfter(k) ==
  IF Len(queue) + k <= DEPTH THEN overflows
  ELSE Lesser(overflows + (Len(queue) + k - DEPTH), COUNTER_MAX)

\* What pus_tm_send returns for the packet sent after k others.
SendStatus(k) == IF Len(queue) + k < DEPTH THEN PUS_OK ELSE PUS_ERR_QUEUE_FULL

\* How many of the first k packets belong to service s.
OfService(pkts, s, k) == Cardinality({j \in 1 .. k : pkts[j].service = s})

\* Mutant: the sequence count advances once per step, not once per packet.
Stamped_one_count(pkts) ==
  [k \in 1 .. Len(pkts) |->
     [service     |-> pkts[k].service,
      subtype     |-> pkts[k].subtype,
      data        |-> pkts[k].data,
      seq_count   |-> seq_count,
      msg_counter |-> (msg_counter[pkts[k].service]
                        + OfService(pkts, pkts[k].service, k - 1)) % MSG_MODULUS]]

\* The packets as pus_tm_build numbers them, one after the other.
Stamped(pkts) ==
  [k \in 1 .. Len(pkts) |->
     [service     |-> pkts[k].service,
      subtype     |-> pkts[k].subtype,
      data        |-> pkts[k].data,
      seq_count   |-> (seq_count + k - 1) % SEQ_MODULUS,
      msg_counter |-> (msg_counter[pkts[k].service]
                        + OfService(pkts, pkts[k].service, k - 1)) % MSG_MODULUS]]

\* Mutant: the queue takes everything.
Kept_all(pkts) == Len(pkts)

\* The packets of pkts for which there is room.
Kept(pkts) == Lesser(Len(pkts), DEPTH - Len(queue))

\* Mutant: numbering follows the queue, a dropped packet consumes no count.
Emit_numbers_only_kept(pkts) ==
  /\ queue' = queue \o SubSeq(Stamped(pkts), 1, Kept(pkts))
  /\ overflows' = OverflowsAfter(Len(pkts))
  /\ seq_count' = (seq_count + Kept(pkts)) % SEQ_MODULUS
  /\ msg_counter' = [s \in TmServices |->
                       (msg_counter[s] + OfService(pkts, s, Kept(pkts))) % MSG_MODULUS]

\* Successive calls of pus_tm_send, one for each element of pkts.
Emit(pkts) ==
  /\ queue' = queue \o SubSeq(Stamped(pkts), 1, Kept(pkts))
  /\ overflows' = OverflowsAfter(Len(pkts))
  /\ seq_count' = (seq_count + Len(pkts)) % SEQ_MODULUS
  /\ msg_counter' = [s \in TmServices |->
                       (msg_counter[s] + OfService(pkts, s, Len(pkts))) % MSG_MODULUS]

\* tm_queue_pop into a buffer of PUS_MAX_PACKET_SIZE octets, as the driver calls it.
tm_queue_pop == /\ queue # <<>>
                /\ queue' = Tail(queue)
                /\ UNCHANGED <<overflows, seq_count, msg_counter>>

-----------------------------------------------------------------------------
DlTypeOK == /\ queue \in Seq(TmPacket) /\ Len(queue) <= DEPTH
            /\ overflows \in 0 .. COUNTER_MAX
            /\ seq_count \in 0 .. SEQ_MODULUS - 1
            /\ msg_counter \in [TmServices -> 0 .. MSG_MODULUS - 1]
=============================================================================
