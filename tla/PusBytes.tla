------------------------------ MODULE PusBytes ------------------------------
(***************************************************************************)
(* include/pus/pus_bytes.h : numbers in a buffer, most significant octet   *)
(* first.  A get reads from octet i of sequence d (sequences start at 1);  *)
(* a put is the octets it writes.                                          *)
(***************************************************************************)
EXTENDS PusTypes, Sequences

Octet == 0 .. 255
UINT16_MAX == 65535
Word16 == 0 .. UINT16_MAX

pus_get_u16(d, i) == d[i] * 256 + d[i + 1]
pus_get_i16(d, i) == LET u == pus_get_u16(d, i) IN IF u < 32768 THEN u ELSE u - 65536
pus_get_u32(d, i) == ((d[i] * 256 + d[i + 1]) * 256 + d[i + 2]) * 256 + d[i + 3]

pus_put_u16(v) == <<(v \div 256) % 256, v % 256>>
pus_put_u32(v) == <<(v \div 16777216) % 256, (v \div 65536) % 256,
                    (v \div 256) % 256, v % 256>>
=============================================================================
