----------------------------- MODULE GswPackets -----------------------------
(***************************************************************************)
(* tests/integration/gsw : the packet codec of the test ground segment,    *)
(* which its authors wrote from the interface document independently of    *)
(* the flight code.  A telecommand is a RawTc record of PusTc.             *)
(***************************************************************************)
EXTENDS PusTc, Crc16

SOURCE_ID == 257   \* 0x0101

\* packets.py : build_tc
build_tc(tc, seq_count) ==
  LET packet ==
        pus_put_u16(tc.version * 8192 + tc.packet_type * 4096 + tc.sec_hdr_flag * 2048 + tc.apid)
        \o pus_put_u16(3 * 16384 + seq_count)
        \o pus_put_u16(tc.total - 7)
        \o <<tc.pus_version * 16 + tc.ack_flags, tc.service_type, tc.service_subtype>>
        \o pus_put_u16(SOURCE_ID) \o tc.app_data
      crc == crc16_ccitt(packet)
  IN packet \o pus_put_u16(IF tc.crc_ok THEN crc ELSE Xor16(crc, 1))

\* packets.py : parse_tm refuses what is not a sound telemetry packet
tm_sound(raw) == /\ Len(raw) >= 21
                 /\ (raw[1] \div 16) % 2 = 0
                 /\ 6 + pus_get_u16(raw, 5) + 1 = Len(raw)
                 /\ crc16_ccitt(SubSeq(raw, 1, Len(raw) - 2)) = pus_get_u16(raw, Len(raw) - 1)
                 /\ raw[7] \div 16 = PUS_VERSION_C

\* obc_db.py : decode_hk refuses a structure it does not know and a report that is
\* not of its 9 or 10 octets; the data start at octet 20 and end two before the last.
hk_sound(raw) ==
  raw[8] = PUS_SERVICE_HOUSEKEEPING => \/ raw[20] = 1 /\ Len(raw) = 30
                                       \/ raw[20] = 2 /\ Len(raw) = 31

\* obc_db.py : the fields decode_hk unpacks, and the properties of packets.py : TmPacket.
tm_fields(raw) ==
  CASE raw[8] = PUS_SERVICE_VERIFICATION ->
         <<pus_get_u16(raw, 20), pus_get_u16(raw, 22)>>
         \o (IF Len(raw) = 25 THEN <<>> ELSE <<pus_get_u16(raw, 24)>>)
    [] raw[8] = PUS_SERVICE_HOUSEKEEPING /\ raw[20] = 1 ->
         <<raw[20], raw[21], pus_get_u32(raw, 22), U16(pus_get_i16(raw, 26)), raw[28]>>
    [] raw[8] = PUS_SERVICE_HOUSEKEEPING /\ raw[20] = 2 ->
         <<raw[20], pus_get_u16(raw, 21), pus_get_u16(raw, 23), pus_get_u16(raw, 25),
           raw[27], pus_get_u16(raw, 28)>>
    [] raw[8] = PUS_SERVICE_EVENT -> <<pus_get_u16(raw, 20), pus_get_u16(raw, 22)>>
    [] OTHER -> <<>>

parse_tm(raw) ==
  [packet |-> [service     |-> raw[8],
               subtype     |-> raw[9],
               data        |-> tm_fields(raw),
               seq_count   |-> pus_get_u16(raw, 3) % 16384,
               msg_counter |-> pus_get_u16(raw, 10)],
   apid |-> pus_get_u16(raw, 1) % 2048,
   destination_id |-> pus_get_u16(raw, 12),
   time |-> [coarse |-> pus_get_u32(raw, 14), fine |-> pus_get_u16(raw, 18)]]
=============================================================================
