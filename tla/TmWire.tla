------------------------------- MODULE TmWire -------------------------------
(***************************************************************************)
(* src/pus_tm.c : the octets of a telemetry packet, from the record that   *)
(* Downlink queues and the on-board time it is stamped with.               *)
(***************************************************************************)
EXTENDS PusTc, Crc16, SequencesExt

PUS_MAX_PACKET_SIZE   == 256
PUS_TM_APID           == 12
PUS_TM_DESTINATION_ID == 1
PUS_TM_SEC_HEADER_LEN == 13
PUS_TM_MIN_LEN == CCSDS_PRIMARY_HEADER_LEN + PUS_TM_SEC_HEADER_LEN + CCSDS_CRC_LEN
PUS_TM_TIME_REF_STATUS == 0

\* Octets of each field of the source data (a request identifier is two fields), as
\* the services write them: svc01_send_*,
\* svc03_generate for structures 1 and 2, svc05_report.
FieldWidths(p) ==
  CASE p.service = PUS_SERVICE_VERIFICATION -> <<2, 2, 2>>
    [] p.service = PUS_SERVICE_HOUSEKEEPING ->
         IF p.data[1] = 1 THEN <<1, 1, 4, 2, 1>> ELSE <<1, 2, 2, 2, 1, 2>>
    [] p.service = PUS_SERVICE_EVENT -> <<2, 2>>
    [] p.service = PUS_SERVICE_TEST -> <<>>

Put(width, v) == CASE width = 1 -> <<v>>
                   [] width = 2 -> pus_put_u16(v)
                   [] width = 4 -> pus_put_u32(v)

SourceData(p) == FlattenSeq([i \in DOMAIN p.data |-> Put(FieldWidths(p)[i], p.data[i])])

\* Mutant: the length field holds the number of octets after the header.
DataLength_plus_one(total) == total - CCSDS_PRIMARY_HEADER_LEN

DataLength(total) == total - CCSDS_PRIMARY_HEADER_LEN - 1

Primary(p, total) ==
  [version |-> 0, packet_type |-> CCSDS_TYPE_TM, sec_hdr_flag |-> 1, apid |-> PUS_TM_APID,
   seq_flags |-> CCSDS_SEQ_FLAG_UNSEGMENTED, seq_count |-> p.seq_count % 16384,
   data_length |-> DataLength(total)]

\* Packet p stamped with time (seconds and fraction), written to a buffer of cap octets.
pus_tm_build(p, time, cap) ==
  LET data  == SourceData(p)
      total == PUS_TM_MIN_LEN + Len(data)
      body  == ccsds_pack_primary(Primary(p, total), cap).octets
               \o <<PUS_VERSION_C * 16 + PUS_TM_TIME_REF_STATUS, p.service, p.subtype>>
               \o pus_put_u16(p.msg_counter) \o pus_put_u16(PUS_TM_DESTINATION_ID)
               \o pus_put_u32(time.coarse) \o pus_put_u16(time.fine) \o data
  IN IF total > cap \/ total > PUS_MAX_PACKET_SIZE
     THEN [status |-> PUS_ERR_BUFFER_TOO_SMALL, octets |-> <<>>]
     ELSE [status |-> PUS_OK, octets |-> body \o pus_put_u16(crc16_ccitt(body))]
=============================================================================
