--------------------------- MODULE DownlinkGround ---------------------------
(***************************************************************************)
(* The downlink path on its own, with a ground segment that watches the    *)
(* counts of the packets it receives: bursts of up to MaxBurst packets,    *)
(* pops, resets.  Emit is compared with sending the burst packet by packet *)
(* and the loss the ground infers from count gaps with what was dropped.   *)
(***************************************************************************)
EXTENDS Downlink, SequencesExt

CONSTANTS Contents,   \* what may be sent
          MaxBurst,   \* longest burst of packets sent in one step
          MaxDropped  \* bound on the packets dropped between two resets
ASSUME BurstAssumption == Contents \subseteq TmContent /\ MaxBurst \in Nat
\* What is queued and what was dropped is less than a wrap of either count.
ASSUME WrapAssumption == /\ MaxDropped \in Nat
                         /\ DEPTH + MaxDropped < SEQ_MODULUS
                         /\ DEPTH + MaxDropped < MSG_MODULUS

VARIABLES expected,  \* per service: message count the ground expects next
          missed,    \* per service: packets the ground has found missing
          dropped,   \* per service: packets the queue really dropped
          lost       \* packets the queue dropped in all

gnd_vars == <<expected, missed, dropped, lost>>

Bursts == BoundedSeq(Contents, MaxBurst) \ {<<>>}

DgInit == /\ DlInit
          /\ expected = ZeroCounters /\ missed = ZeroCounters
          /\ dropped = ZeroCounters /\ lost = 0

Burst(pkts) ==
  /\ Emit(pkts)
  /\ lost' = lost + (Len(pkts) - Kept(pkts)) /\ lost' <= MaxDropped
  /\ dropped' = [s \in TmServices |-> dropped[s]
                   + (OfService(pkts, s, Len(pkts)) - OfService(pkts, s, Kept(pkts)))]
  /\ UNCHANGED <<expected, missed>>

\* Ground: a packet whose count is not the expected one reveals a gap.
Receive == /\ tm_queue_pop
           /\ LET p == Head(queue) IN
              /\ missed' = [missed EXCEPT ![p.service] =
                              @ + ((p.msg_counter - expected[p.service]) % MSG_MODULUS)]
              /\ expected' = [expected EXCEPT ![p.service] = (p.msg_counter + 1) % MSG_MODULUS]
           /\ UNCHANGED <<dropped, lost>>

\* A restart of the unit resets both ends of the link.
Restart == /\ queue' = NoPackets /\ overflows' = 0
           /\ seq_count' = 0 /\ msg_counter' = ZeroCounters
           /\ expected' = ZeroCounters /\ missed' = ZeroCounters
           /\ dropped' = ZeroCounters /\ lost' = 0

DgNext == (\E pkts \in Bursts : Burst(pkts)) \/ Receive \/ Restart
DgSpec == DgInit /\ [][DgNext]_<<dl_vars, gnd_vars>>

-----------------------------------------------------------------------------
\* pus_tm_send, one packet at a time, on a record of the downlink state.
SendOne(dl, pkt) ==
  LET p == [service |-> pkt.service, subtype |-> pkt.subtype, data |-> pkt.data,
            seq_count |-> dl.seq, msg_counter |-> dl.msg[pkt.service]]
      full == Len(dl.queue) >= DEPTH
  IN [queue |-> IF full THEN dl.queue ELSE Append(dl.queue, p),
      overflows |-> IF full /\ dl.overflows < COUNTER_MAX
                    THEN dl.overflows + 1 ELSE dl.overflows,
      seq |-> (dl.seq + 1) % SEQ_MODULUS,
      msg |-> [dl.msg EXCEPT ![pkt.service] = (@ + 1) % MSG_MODULUS]]

\* The downlink after the first k of the packets, for every k.
SendEach(pkts) ==
  LET after[k \in 0 .. Len(pkts)] ==
        IF k = 0 THEN [queue |-> queue, overflows |-> overflows,
                       seq |-> seq_count, msg |-> msg_counter]
        ELSE SendOne(after[k - 1], pkts[k])
  IN after

\* The step left what pus_tm_send, called once per packet, leaves, and on the way
\* CountAfter and OverflowsAfter are what the queue's two getters return.
IsWhatWasSent(pkts) ==
  LET sent == SendEach(pkts)
      last == sent[Len(pkts)]
  IN /\ queue' = last.queue /\ overflows' = last.overflows
     /\ seq_count' = last.seq /\ msg_counter' = last.msg
     /\ \A k \in 0 .. Len(pkts) : /\ Len(sent[k].queue) = CountAfter(k)
                                  /\ sent[k].overflows = OverflowsAfter(k)

\* Emit computes in one step exactly what pus_tm_send, called once per packet,
\* leaves in the queue and in the three counters, and on the way CountAfter and
\* OverflowsAfter are what tm_queue_count and tm_queue_overflow_count return.
EmitIsRepeatedSend ==
  [][\A pkts \in Bursts : Emit(pkts) => IsWhatWasSent(pkts)]_<<dl_vars, gnd_vars>>

\* "The ground segment only uses the counter for gap detection per service"
\* (pus_tm.c, deviation D-01): the gaps the ground sees never overstate the loss,
\* and a service whose newest packet reached the ground has every one of its
\* dropped packets accounted for, whatever the other services lost meanwhile.
GapsRevealLoss ==
  \A s \in TmServices :
    /\ missed[s] <= dropped[s]
    /\ msg_counter[s] = expected[s] => missed[s] = dropped[s]

\* The packets in the queue leave in the order they were numbered: sequence
\* counts grow along the queue by less than one wrap.
SequenceCountsInOrder ==
  \A i, j \in 1 .. Len(queue) : i < j =>
    (queue[j].seq_count - queue[i].seq_count) % SEQ_MODULUS >= j - i
=============================================================================
