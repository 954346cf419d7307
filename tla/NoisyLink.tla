----------------------------- MODULE NoisyLink ------------------------------
(***************************************************************************)
(* A packet crosses the link as octets, a telecommand or a telemetry       *)
(* packet.  On the uplink noise inverts bits: a few of them anywhere in    *)
(* the packet, or several within one short burst.  A behaviour is the      *)
(* journey of one packet.                                                  *)
(***************************************************************************)
EXTENDS TcWire, TmWire, GswPackets, FiniteSets

CONSTANTS Messages,   \* [dir : {"up"}, tc, seq_count] or [dir : {"down"}, tm, time]
          FLIPS,      \* most inverted bits that may be anywhere
          BURST       \* longest burst, in bits
ASSUME NoiseAssumption == FLIPS \in Nat /\ BURST \in Nat \ {0}

\* The telecommands build_tc can be asked for: any header field its bits can hold, any
\* declared length, application data of any length.
SentTc == {tc \in RawTc : /\ tc.len = PUS_TC_MIN_LEN + Len(tc.app_data)
                          /\ tc.total >= 7 /\ tc.total - 7 \in Word16
                          /\ tc.version \in 0 .. 7 /\ tc.apid \in Apid
                          /\ tc.pus_version \in 0 .. 15}

Word32 == {v \in Nat : v \div 65536 \in Word16}
\* The source data each service reports.
SourceFields(service) ==
  CASE service = PUS_SERVICE_VERIFICATION -> (Word16 \X Word16) \cup (Word16 \X Word16 \X Word16)
    [] service = PUS_SERVICE_HOUSEKEEPING ->
         ({1} \X Octet \X Word32 \X Word16 \X Octet)
         \cup ({2} \X Word16 \X Word16 \X Word16 \X Octet \X Word16)
    [] service = PUS_SERVICE_EVENT -> Word16 \X Word16
    [] service = PUS_SERVICE_TEST -> {<<>>}
SentTm(service) == [service : {service}, subtype : Octet, data : SourceFields(service),
                    seq_count : SeqCount, msg_counter : Word16]

Uplink == [dir : {"up"}, tc : SentTc, seq_count : SeqCount]
Downlinked(service) == [dir : {"down"}, tm : SentTm(service), time : [coarse : Word32, fine : Word16]]
ASSUME MessageAssumption ==
  \A m \in Messages : m \in Uplink \/ \E service \in TmServices : m \in Downlinked(service)

VARIABLES sent,     \* the message on the link
          octets,   \* its octets, as they arrive
          noise     \* the bits inverted so far, 0 the last of the packet
link_vars == <<sent, octets, noise>>

Encode(m) == IF m.dir = "up" THEN build_tc(m.tc, m.seq_count)
             ELSE pus_tm_build(m.tm, m.time, PUS_MAX_PACKET_SIZE).octets

NlInit == sent \in Messages /\ octets = Encode(sent) /\ noise = {}

Bits == 0 .. 8 * Len(octets) - 1

\* The octets with these bits inverted.
Inverted(bits) ==
  [i \in DOMAIN octets |->
     Number(Plus(Digits(octets[i]), {b - 8 * (Len(octets) - i) : b \in bits}), 8)]

Hit(bits) == noise' = noise \cup bits /\ octets' = Inverted(bits) /\ UNCHANGED sent

Invert == /\ sent.dir = "up" /\ Cardinality(noise) < FLIPS
          /\ \E b \in Bits \ noise : Hit({b})

Burst == /\ sent.dir = "up" /\ noise = {}
         /\ \E first \in Bits, others \in SUBSET (1 .. BURST - 1) :
              Hit({first} \cup ({first + k : k \in others} \cap Bits))

NlNext == Invert \/ Burst
NlSpec == NlInit /\ [][NlNext]_link_vars

-----------------------------------------------------------------------------
\* crc16_ccitt, a register shifted bit by bit, is the remainder of the division by
\* x^16 + x^12 + x^5 + 1 that SWREQ-CRC-010 asks for, on every packet and every
\* corrupted packet.
CrcIsRemainder == crc16_ccitt(octets) = CrcReference(octets)

\* SWREQ-TC-015 and the comment of pus_tc_parse: "a corrupted APID can never be
\* reported as an addressing error when it is in fact a bit flip on the link".
\* Whatever bits are hit, the packet is refused for its length or its checksum and
\* for nothing else.
NoiseIsCaught ==
  sent.dir = "up" /\ noise # {} /\ sent.tc.crc_ok =>
    pus_tc_parse(ReceivedTc(octets)) \in {PUS_ERR_BAD_LENGTH, PUS_ERR_BAD_CRC}

\* SWREQ-CCSDS-010: no bit of the six octets is lost or moved between
\* ccsds_unpack_primary and ccsds_pack_primary, for headers valid or corrupted.
HeaderRoundTrip ==
  LET hdr == ccsds_unpack_primary(octets) IN
  /\ hdr \in ccsds_primary_header_t
  /\ ccsds_pack_primary(hdr, CCSDS_PRIMARY_HEADER_LEN) =
       [status |-> PUS_OK, octets |-> SubSeq(octets, 1, CCSDS_PRIMARY_HEADER_LEN)]

\* SWREQ-TC-010: a telecommand the ground encoded is decoded to the fields it was
\* built from, defects included, and named by its first four octets.
TcDecodesAsSent ==
  sent.dir = "up" /\ noise = {} =>
    LET tc == ReceivedTc(octets) IN
    /\ tc = [sent.tc EXCEPT !.request_id = tc.request_id]
    /\ pus_put_u16(tc.request_id[1]) \o pus_put_u16(tc.request_id[2]) = SubSeq(octets, 1, 4)

\* SWREQ-TM-010 and SWREQ-TM-040: the ground's own decoder finds every telemetry
\* packet sound and reads back all its fields.
TelemetryDecodes ==
  sent.dir = "down" =>
    /\ tm_sound(octets) /\ hk_sound(octets)
    /\ parse_tm(octets) = [packet |-> sent.tm, apid |-> PUS_TM_APID,
                           destination_id |-> PUS_TM_DESTINATION_ID, time |-> sent.time]
=============================================================================
