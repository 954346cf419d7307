------------------------------- MODULE Ccsds -------------------------------
(***************************************************************************)
(* src/ccsds.c : the six octets of the space packet primary header.  Bit   *)
(* fields are powers of two: x << n is x * 2^n, a mask is a remainder.     *)
(***************************************************************************)
EXTENDS PusBytes

CCSDS_PRIMARY_HEADER_LEN   == 6
CCSDS_CRC_LEN              == 2
CCSDS_TYPE_TM              == 0
CCSDS_TYPE_TC              == 1
CCSDS_SEQ_FLAG_UNSEGMENTED == 3

APID_MASK == 2047         \* 0x07FF
SEQ_COUNT_MASK == 16383   \* 0x3FFF
Apid == 0 .. APID_MASK
SeqCount == 0 .. SEQ_COUNT_MASK

ccsds_primary_header_t ==
  [version : 0 .. 7, packet_type : 0 .. 1, sec_hdr_flag : 0 .. 1, apid : Apid,
   seq_flags : 0 .. 3, seq_count : SeqCount, data_length : Word16]

\* The octets of a header and the status of writing them to a buffer of buf_len octets.
ccsds_pack_primary(hdr, buf_len) ==
  IF buf_len < CCSDS_PRIMARY_HEADER_LEN
  THEN [status |-> PUS_ERR_BUFFER_TOO_SMALL, octets |-> <<>>]
  ELSE [status |-> PUS_OK,
        octets |-> pus_put_u16((hdr.version % 8) * 8192 + (hdr.packet_type % 2) * 4096
                               + (hdr.sec_hdr_flag % 2) * 2048 + (hdr.apid % 2048))
                   \o pus_put_u16((hdr.seq_flags % 4) * 16384 + (hdr.seq_count % 16384))
                   \o pus_put_u16(hdr.data_length)]

\* Mutant: the mask is one bit short.
ApidOf_short_mask(word0) == word0 % 1024

ApidOf(word0) == word0 % 2048

\* The header in the first octets of buf.  Both callers, pus_tc_parse and the
\* driver, have at least the six octets: the PUS_ERR_TRUNCATED return is not reached.
ccsds_unpack_primary(buf) ==
  LET word0 == pus_get_u16(buf, 1)
      word1 == pus_get_u16(buf, 3)
  IN [version      |-> (word0 \div 8192) % 8,
      packet_type  |-> (word0 \div 4096) % 2,
      sec_hdr_flag |-> (word0 \div 2048) % 2,
      apid         |-> ApidOf(word0),
      seq_flags    |-> (word1 \div 16384) % 4,
      seq_count    |-> word1 % 16384,
      data_length  |-> pus_get_u16(buf, 5)]

\* Mutant: the length field is taken for the number of octets after the header.
ccsds_total_length_minus_one(hdr) == CCSDS_PRIMARY_HEADER_LEN + hdr.data_length

ccsds_total_length(hdr) == CCSDS_PRIMARY_HEADER_LEN + hdr.data_length + 1
=============================================================================
