------------------------------- MODULE TcWire -------------------------------
(***************************************************************************)
(* src/pus_tc.c on octets: what pus_tc_parse and svc01_reject_raw read of  *)
(* a received buffer, as the record the checks of PusTc work on.           *)
(***************************************************************************)
EXTENDS PusTc, Crc16

\* Octets a short buffer does not have are never read: len alone decides.
Padded(buf) == IF Len(buf) >= PUS_TC_MIN_LEN THEN buf
               ELSE buf \o [i \in 1 .. PUS_TC_MIN_LEN - Len(buf) |-> 0]

\* Mutant: the flags are taken from the upper half of the octet.
AckFlags_upper_half(octet) == octet \div 16

AckFlags(octet) == octet % 16

\* The telecommand in a buffer.  The source identifier (octets 10 and 11) is stored by
\* the code and read by nothing.
ReceivedTc(buf) ==
  LET p   == Padded(buf)
      n   == Len(p)
      hdr == ccsds_unpack_primary(p)
  IN [len             |-> Len(buf),
      total           |-> ccsds_total_length(hdr),
      crc_ok          |-> crc16_ccitt(SubSeq(p, 1, n - CCSDS_CRC_LEN)) = pus_get_u16(p, n - 1),
      version         |-> hdr.version,
      packet_type     |-> hdr.packet_type,
      sec_hdr_flag    |-> hdr.sec_hdr_flag,
      apid            |-> hdr.apid,
      pus_version     |-> p[7] \div 16,
      ack_flags       |-> AckFlags(p[7]),
      service_type    |-> p[8],
      service_subtype |-> p[9],
      request_id      |-> <<pus_get_u16(p, 1), pus_get_u16(p, 3)>>,
      app_data        |-> SubSeq(p, 12, n - CCSDS_CRC_LEN)]
=============================================================================
