------------------------------- MODULE PusTc -------------------------------
(***************************************************************************)
(* src/pus_tc.c : acceptance checks of a raw telecommand.  A raw packet is *)
(* a record of the header fields the checks read; crc_ok says whether the  *)
(* packet error control field verifies, request_id is the number its first *)
(* four octets spell, as its two 16-bit halves, and app_data the octets    *)
(* between headers and CRC.                                                *)
(***************************************************************************)
EXTENDS Ccsds

PUS_TC_APID    == 12
PUS_VERSION_C  == 2
PUS_TC_SEC_HEADER_LEN == 5
PUS_TC_MIN_LEN == CCSDS_PRIMARY_HEADER_LEN + PUS_TC_SEC_HEADER_LEN + CCSDS_CRC_LEN

RawTc == [len : Nat,             \* octets received
          total : Nat,           \* octets the primary header declares
          crc_ok : BOOLEAN,
          version : Nat, packet_type : {0, 1}, sec_hdr_flag : {0, 1}, apid : Nat,
          pus_version : Nat, ack_flags : 0 .. 15,
          service_type : Octet, service_subtype : Octet,
          request_id : Word16 \X Word16, app_data : Seq(Octet)]

\* A packet that passes the length checks has as many octets of application
\* data as its length leaves after headers and CRC.
WellFramed(raw) == raw.len >= PUS_TC_MIN_LEN => Len(raw.app_data) = raw.len - PUS_TC_MIN_LEN

\* Whatever may arrive.
ReceivableTc == {raw \in RawTc : WellFramed(raw)}

\* Mutant: the addressing check comes before the checksum.
pus_tc_parse_apid_first(raw) ==
  IF raw.len < PUS_TC_MIN_LEN THEN PUS_ERR_TRUNCATED
  ELSE IF raw.total # raw.len THEN PUS_ERR_BAD_LENGTH
  ELSE IF raw.apid # PUS_TC_APID THEN PUS_ERR_BAD_APID
  ELSE IF ~raw.crc_ok THEN PUS_ERR_BAD_CRC
  ELSE PUS_OK

\* The checks, in the order the code makes them.
pus_tc_parse(raw) ==
  IF raw.len < PUS_TC_MIN_LEN THEN PUS_ERR_TRUNCATED
  ELSE IF raw.total # raw.len THEN PUS_ERR_BAD_LENGTH
  ELSE IF ~raw.crc_ok THEN PUS_ERR_BAD_CRC
  ELSE IF raw.version # 0 THEN PUS_ERR_BAD_VERSION
  ELSE IF raw.packet_type # CCSDS_TYPE_TC THEN PUS_ERR_BAD_PACKET_TYPE
  ELSE IF raw.sec_hdr_flag # 1 THEN PUS_ERR_NO_SEC_HEADER
  ELSE IF raw.apid # PUS_TC_APID THEN PUS_ERR_BAD_APID
  ELSE IF raw.pus_version # PUS_VERSION_C THEN PUS_ERR_BAD_VERSION
  ELSE PUS_OK

\* (ack_flags & mask) != 0, for a mask of one bit
pus_tc_ack_requested(tc, mask) == (tc.ack_flags \div mask) % 2 = 1
=============================================================================
