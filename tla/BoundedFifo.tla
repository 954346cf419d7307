---------------------------- MODULE BoundedFifo ----------------------------
(***************************************************************************)
(* What the downlink queue promises (SWREQ-TMQ-010, SWREQ-TMQ-020): a FIFO *)
(* of at most DEPTH packets that, when full, refuses the newest packet,    *)
(* keeps the ones it holds and counts the loss in a counter that saturates *)
(* at COUNTER_MAX.  No ring, no slots, no stale octets.                    *)
(***************************************************************************)
EXTENDS PusTypes, Sequences

CONSTANTS DEPTH,        \* PUS_TM_QUEUE_DEPTH
          MAX_SIZE,     \* PUS_MAX_PACKET_SIZE, in octets
          COUNTER_MAX,  \* 0xFFFF
          OCTETS,       \* the values of an octet
          CAPACITIES    \* the buffer sizes a caller of pop may offer

VARIABLES fifo,       \* the packets held, oldest first
          overflows,  \* packets refused since the last initialisation
          ret,        \* status returned by the last call
          out         \* the packet handed over by the last successful pop

vars == <<fifo, overflows, ret, out>>

\* Packets of every length that the interface tells apart: empty and too long ones too.
Packets == UNION {[1 .. n -> OCTETS] : n \in 0 .. MAX_SIZE + 1}

Init == fifo = <<>> /\ overflows = 0 /\ ret = PUS_OK /\ out = <<>>

Reset == /\ fifo' = <<>> /\ overflows' = 0
         /\ UNCHANGED <<ret, out>>

Push(p) ==
  /\ UNCHANGED out
  /\ \/ Len(p) \notin 1 .. MAX_SIZE
        /\ ret' = PUS_ERR_BAD_LENGTH
        /\ UNCHANGED <<fifo, overflows>>
     \/ Len(p) \in 1 .. MAX_SIZE /\ Len(fifo) = DEPTH
        /\ ret' = PUS_ERR_QUEUE_FULL
        /\ overflows' = Lesser(overflows + 1, COUNTER_MAX)
        /\ UNCHANGED fifo
     \/ Len(p) \in 1 .. MAX_SIZE /\ Len(fifo) < DEPTH
        /\ ret' = PUS_OK
        /\ fifo' = Append(fifo, p)
        /\ UNCHANGED overflows

Pop(cap) ==
  /\ UNCHANGED overflows
  /\ \/ fifo = <<>>
        /\ ret' = PUS_ERR_QUEUE_FULL
        /\ UNCHANGED <<fifo, out>>
     \/ fifo # <<>> /\ cap < Len(Head(fifo))
        /\ ret' = PUS_ERR_BUFFER_TOO_SMALL
        /\ UNCHANGED <<fifo, out>>
     \/ fifo # <<>> /\ cap >= Len(Head(fifo))
        /\ ret' = PUS_OK
        /\ out' = Head(fifo)
        /\ fifo' = Tail(fifo)

\* A null pointer argument is answered and nothing else happens.
NullArgument == ret' = PUS_ERR_NULL /\ UNCHANGED <<fifo, overflows, out>>

Next == \/ Reset
        \/ \E p \in Packets : Push(p)
        \/ \E cap \in CAPACITIES : Pop(cap)
        \/ NullArgument

Spec == Init /\ [][Next]_vars
=============================================================================
