---------------------------- MODULE ObcSimProofs ----------------------------
(***************************************************************************)
(* The platform driver of sim/obc_sim.c, for every set of packets the      *)
(* ground may send, every segmentation of the octet stream and every size  *)
(* of the receive buffer: the driver uses the application as obc_app.h     *)
(* allows, keeps in step with the uplink and gets the alarm to the ground. *)
(***************************************************************************)
EXTENDS ObcSim, ObswLemmas

LEMMA Word16Bounds == ASSUME NEW w \in Nat, w <= UINT16_MAX PROVE w \in Word16
<1>1. UINT16_MAX \in Nat
  BY DEF UINT16_MAX
<1>2. QED
  BY <1>1 DEF Word16

LEMMA U16Octets ==
  ASSUME NEW a \in Octet, NEW b \in Octet
  PROVE  a * 256 + b \in Nat /\ a * 256 + b \in Word16
<1>1. a \in Nat /\ a <= 255 /\ b \in Nat /\ b <= 255
  BY OctetBounds
<1>2. a * 256 + b \in Nat /\ a * 256 + b <= 65535
  BY <1>1
<1>3. a * 256 + b <= UINT16_MAX
  BY <1>2 DEF UINT16_MAX
<1>4. QED
  BY <1>2, <1>3, Word16Bounds

LEMMA PaddedType ==
  ASSUME NEW octets \in Seq(Octet)
  PROVE  /\ Padded(octets) \in Seq(Octet) /\ Len(Padded(octets)) \in Nat
         /\ Len(Padded(octets)) >= 13
         /\ Len(octets) \in Nat
         /\ Len(octets) >= 13 => Padded(octets) = octets
<1>1. Len(octets) \in Nat
  BY LenProperties
<1>2. PUS_TC_MIN_LEN = 13
  BY DEF PUS_TC_MIN_LEN, CCSDS_PRIMARY_HEADER_LEN, PUS_TC_SEC_HEADER_LEN, CCSDS_CRC_LEN
<1>3. CASE Len(octets) >= 13
  BY <1>1, <1>2, <1>3 DEF Padded
<1>4. CASE Len(octets) < 13
  <2> DEFINE fill == [i \in 1 .. 13 - Len(octets) |-> 0]
  <2>1. 0 \in Octet
    BY DEF Octet
  <2>2. fill \in Seq(Octet) /\ Len(fill) = 13 - Len(octets)
    <3>1. 13 - Len(octets) \in Nat
      BY <1>1, <1>4
    <3>2. QED
      BY <2>1, <3>1, IsASeq
  <2>3. Padded(octets) = octets \o fill
    BY <1>1, <1>2, <1>4 DEF Padded
  <2> HIDE DEF fill
  <2>4. octets \o fill \in Seq(Octet) /\ Len(octets \o fill) = Len(octets) + Len(fill)
    BY <2>2, ConcatProperties
  <2>5. QED
    BY <1>1, <1>4, <2>2, <2>3, <2>4
<1>5. QED
  BY <1>1, <1>3, <1>4

\* The fields the driver and pus_tc_parse find in a primary header.
LEMMA HeaderFields ==
  ASSUME NEW octets \in Seq(Octet), Len(octets) >= 6
  PROVE  LET hdr == ccsds_unpack_primary(octets) IN
         /\ hdr.version \in Nat /\ hdr.packet_type \in {0, 1} /\ hdr.sec_hdr_flag \in {0, 1}
         /\ hdr.apid \in Nat /\ hdr.data_length = pus_get_u16(octets, 5)
         /\ pus_get_u16(octets, 1) \in Word16 /\ pus_get_u16(octets, 3) \in Word16
         /\ pus_get_u16(octets, 5) \in Nat
<1> DEFINE w == pus_get_u16(octets, 1)
<1>1. Len(octets) \in Nat /\ \A i \in 1 .. 6 : octets[i] \in Octet
  <2>1. Len(octets) \in Nat
    BY LenProperties
  <2>2. \A i \in 1 .. 6 : i \in 1 .. Len(octets)
    BY <2>1
  <2>3. QED
    BY <2>1, <2>2, ElementOfSeq
<1>2. /\ octets[1] \in Octet /\ octets[2] \in Octet /\ octets[3] \in Octet
      /\ octets[4] \in Octet /\ octets[5] \in Octet /\ octets[6] \in Octet
  BY <1>1
<1>3. /\ pus_get_u16(octets, 1) \in Word16 /\ pus_get_u16(octets, 3) \in Word16
      /\ pus_get_u16(octets, 5) \in Nat /\ w \in Nat
  <2>1. /\ pus_get_u16(octets, 1) = octets[1] * 256 + octets[2]
        /\ pus_get_u16(octets, 3) = octets[3] * 256 + octets[4]
        /\ pus_get_u16(octets, 5) = octets[5] * 256 + octets[6]
    BY DEF pus_get_u16
  <2>2. /\ octets[1] * 256 + octets[2] \in Nat /\ octets[1] * 256 + octets[2] \in Word16
        /\ octets[3] * 256 + octets[4] \in Word16 /\ octets[5] * 256 + octets[6] \in Nat
    BY <1>2, U16Octets
  <2>3. QED
    BY <2>1, <2>2
<1> HIDE DEF w
<1>4. /\ (w \div 8192) % 8 \in Nat
      /\ (w \div 4096) % 2 \in {0, 1} /\ (w \div 2048) % 2 \in {0, 1}
      /\ w % 2048 \in Nat
  BY <1>3
<1>5. QED
  BY <1>3, <1>4 DEF ccsds_unpack_primary, w, ApidOf

\* Whatever octets arrive, the application is handed a telecommand it can check.
LEMMA ReceivedIsReceivable ==
  ASSUME NEW octets \in Seq(Octet) PROVE ReceivedTc(octets) \in ReceivableTc
<1> DEFINE p == Padded(octets)
           n == Len(p)
           hdr == ccsds_unpack_primary(p)
           data == SubSeq(p, 12, n - CCSDS_CRC_LEN)
           tc == ReceivedTc(octets)
<1>1. p \in Seq(Octet) /\ n \in Nat /\ n >= 13 /\ Len(octets) \in Nat
      /\ (Len(octets) >= 13 => p = octets)
  BY PaddedType
<1> HIDE DEF p
<1>2. /\ hdr.version \in Nat /\ hdr.packet_type \in {0, 1} /\ hdr.sec_hdr_flag \in {0, 1}
      /\ hdr.apid \in Nat /\ ccsds_total_length(hdr) \in Nat
      /\ <<pus_get_u16(p, 1), pus_get_u16(p, 3)>> \in Word16 \X Word16
  <2>1. /\ hdr.version \in Nat /\ hdr.packet_type \in {0, 1} /\ hdr.sec_hdr_flag \in {0, 1}
        /\ hdr.apid \in Nat /\ hdr.data_length \in Nat
        /\ pus_get_u16(p, 1) \in Word16 /\ pus_get_u16(p, 3) \in Word16
    <3>1. Len(p) >= 6
      BY <1>1
    <3>2. QED
      BY <1>1, <3>1, HeaderFields
  <2> HIDE DEF hdr
  <2>2. QED
    BY <2>1 DEF ccsds_total_length, CCSDS_PRIMARY_HEADER_LEN
<1>3. /\ p[7] \in Octet /\ p[8] \in Octet /\ p[9] \in Octet
      /\ p[7] \div 16 \in Nat /\ p[7] % 16 \in 0 .. 15
  <2>1. 7 \in 1 .. n /\ 8 \in 1 .. n /\ 9 \in 1 .. n
    BY <1>1
  <2>2. p[7] \in Octet /\ p[8] \in Octet /\ p[9] \in Octet
    BY <1>1, <2>1, ElementOfSeq
  <2>3. p[7] \in Nat
    BY <2>2, OctetBounds
  <2>4. p[7] \div 16 \in Nat /\ p[7] % 16 \in 0 .. 15
    <3> DEFINE x == p[7]
    <3>1. x \in Nat
      BY <2>3
    <3> HIDE DEF x
    <3>2. x \div 16 \in Nat /\ x % 16 \in 0 .. 15
      BY <3>1
    <3>3. QED
      BY <3>2 DEF x
  <2>5. QED
    BY <2>2, <2>4
<1>4. data \in Seq(Octet) /\ Len(data) = n - 13
  <2>1. n - CCSDS_CRC_LEN = n - 2 /\ n - 2 \in Nat /\ n - 2 - 12 + 1 = n - 13
    BY <1>1 DEF CCSDS_CRC_LEN
  <2>2. \A i \in 12 .. n - 2 : p[i] \in Octet
    <3>1. \A i \in 12 .. n - 2 : i \in 1 .. n
      BY <1>1
    <3>2. QED
      BY <1>1, <3>1, ElementOfSeq
  <2> HIDE DEF n
  <2>3. /\ SubSeq(p, 12, n - 2) \in Seq(Octet)
        /\ Len(SubSeq(p, 12, n - 2)) = IF 12 <= n - 2 THEN n - 2 - 12 + 1 ELSE 0
    BY <1>1, <2>1, <2>2, SubSeqProperties
  <2>4. QED
    BY <1>1, <2>1, <2>3
<1> DEFINE crc == crc16_ccitt(SubSeq(p, 1, n - CCSDS_CRC_LEN)) = pus_get_u16(p, n - 1)
<1>5. tc = [len |-> Len(octets), total |-> ccsds_total_length(hdr), crc_ok |-> crc,
            version |-> hdr.version, packet_type |-> hdr.packet_type,
            sec_hdr_flag |-> hdr.sec_hdr_flag, apid |-> hdr.apid,
            pus_version |-> p[7] \div 16, ack_flags |-> p[7] % 16,
            service_type |-> p[8], service_subtype |-> p[9],
            request_id |-> <<pus_get_u16(p, 1), pus_get_u16(p, 3)>>, app_data |-> data]
  BY DEF ReceivedTc, AckFlags, p
<1>6. crc \in BOOLEAN
  OBVIOUS
<1>7. WellFramed(tc)
  <2>1. PUS_TC_MIN_LEN = 13
    BY DEF PUS_TC_MIN_LEN, CCSDS_PRIMARY_HEADER_LEN, PUS_TC_SEC_HEADER_LEN, CCSDS_CRC_LEN
  <2>2. tc.len = Len(octets) /\ tc.app_data = data
    BY DEF ReceivedTc, p
  <2>3. Len(octets) >= 13 => Len(data) = Len(octets) - 13
    BY <1>1, <1>4
  <2> HIDE DEF tc, data
  <2>4. QED
    BY <2>1, <2>2, <2>3 DEF WellFramed
<1> HIDE DEF hdr, data, crc
<1>8. tc \in RawTc
  BY <1>1, <1>2, <1>3, <1>4, <1>5, <1>6 DEF RawTc
<1>9. QED
  BY <1>7, <1>8 DEF ReceivableTc

-----------------------------------------------------------------------------
(* The uplink *)

\* What is still to be read, cut as the driver has it.
Pending == buf \o uplink \o transit

\* The stream holds octets, the thread waits for a body only after a header that makes
\* sense, and what is still to be read is the packets not yet handed over.
StreamOK ==
  /\ pc \in {"accept", "drain", "select", "header", "body", "exit"}
  /\ buf \in Seq(Octet) /\ uplink \in Seq(Octet) /\ transit \in Seq(Octet)
  /\ due \in Seq(Seq(Octet)) /\ honest \in BOOLEAN
  /\ pc # "body" => buf = <<>>
  /\ pc = "body" => Len(buf) = 6 /\ ~Malformed(buf)
  /\ honest => \A i \in 1 .. Len(due) : Honest(due[i])
  /\ InStep

LEMMA DeclaredLength ==
  ASSUME NEW h \in Seq(Octet), Len(h) >= 6
  PROVE  /\ Declared(h) = 6 + pus_get_u16(h, 5) + 1
         /\ Declared(h) \in Nat /\ Declared(h) >= 7
<1> DEFINE hdr == ccsds_unpack_primary(h)
<1>1. hdr.data_length = pus_get_u16(h, 5) /\ pus_get_u16(h, 5) \in Nat
  BY HeaderFields
<1> HIDE DEF hdr
<1>2. ccsds_total_length(hdr) = 6 + pus_get_u16(h, 5) + 1
  BY <1>1 DEF ccsds_total_length, CCSDS_PRIMARY_HEADER_LEN
<1>3. QED
  BY <1>1, <1>2 DEF Declared, hdr

\* A header read off the front of a packet with a true length declares that length.
LEMMA HeaderOfPacket ==
  ASSUME NEW h \in Seq(Octet), NEW rest \in Seq(Octet), NEW p \in Seq(Octet),
         NEW more \in Seq(Octet), Len(h) >= 6, h \o rest = p \o more, Honest(p)
  PROVE  Declared(h) = Len(p) /\ Len(p) \in Nat /\ Len(p) >= 7 /\ Len(p) <= RX_SIZE
<1>1. /\ Len(p) \in Nat /\ Len(p) >= 7 /\ Len(p) <= RX_SIZE
      /\ 6 + pus_get_u16(p, 5) + 1 = Len(p)
  <2>1. RX_SIZE \in Nat /\ CCSDS_PRIMARY_HEADER_LEN = 6
    BY DriverAssumption DEF CCSDS_PRIMARY_HEADER_LEN
  <2>2. Len(p) \in Nat
    BY LenProperties
  <2>3. QED
    BY <2>1, <2>2 DEF Honest
<1>2. Len(h) \in Nat /\ Len(rest) \in Nat /\ Len(more) \in Nat
  BY LenProperties
<1>3. \A i \in 1 .. 6 : h[i] = p[i]
  <2>1. /\ \A i \in 1 .. Len(h) + Len(rest) : (h \o rest)[i] = IF i <= Len(h) THEN h[i] ELSE rest[i - Len(h)]
        /\ \A i \in 1 .. Len(p) + Len(more) : (p \o more)[i] = IF i <= Len(p) THEN p[i] ELSE more[i - Len(p)]
    BY ConcatProperties
  <2> SUFFICES ASSUME NEW i \in 1 .. 6 PROVE h[i] = p[i]
    OBVIOUS
  <2>2. /\ i \in 1 .. Len(h) + Len(rest) /\ i <= Len(h)
        /\ i \in 1 .. Len(p) + Len(more) /\ i <= Len(p)
    BY <1>1, <1>2
  <2>3. (h \o rest)[i] = h[i]
    BY <2>1, <2>2
  <2>4. (p \o more)[i] = p[i]
    BY <2>1, <2>2
  <2>5. QED
    BY <2>3, <2>4
<1>4. pus_get_u16(h, 5) = pus_get_u16(p, 5)
  <2>1. h[5] = p[5] /\ h[6] = p[6]
    BY <1>3
  <2>2. QED
    BY <2>1 DEF pus_get_u16
<1>5. QED
  BY <1>1, <1>4, DeclaredLength

\* While lengths are true and octets are waiting, the oldest packet due comes first.
LEMMA OldestPacketFirst ==
  ASSUME NEW q \in Seq(Octet), q # <<>>, NEW d \in Seq(Seq(Octet)), q = FlattenSeq(d)
  PROVE  /\ d # <<>> /\ Head(d) \in Seq(Octet) /\ Tail(d) \in Seq(Seq(Octet))
         /\ Head(d) = d[1] /\ 1 \in 1 .. Len(d)
         /\ FlattenSeq(Tail(d)) \in Seq(Octet)
         /\ q = Head(d) \o FlattenSeq(Tail(d))
         /\ Len(Tail(d)) = Len(d) - 1
         /\ \A i \in 1 .. Len(Tail(d)) : i + 1 \in 1 .. Len(d) /\ Tail(d)[i] = d[i + 1]
<1>1. d # <<>>
  BY FlattenEmpty
<1>2. /\ Head(d) = d[1] /\ Head(d) \in Seq(Octet) /\ Tail(d) \in Seq(Seq(Octet))
      /\ Len(Tail(d)) = Len(d) - 1
      /\ \A i \in 1 .. Len(Tail(d)) : Tail(d)[i] = d[i + 1]
  BY <1>1, HeadTailProperties
<1>3. Len(d) \in Nat \ {0}
  BY <1>1, EmptySeq
<1>4. FlattenSeq(Tail(d)) \in Seq(Octet)
  BY <1>2, FlatType
<1>5. q = Head(d) \o FlattenSeq(Tail(d))
  BY <1>1, FlattenHead
<1>6. QED
  BY <1>1, <1>2, <1>3, <1>4, <1>5

\* While lengths are true the header makes sense.
LEMMA HonestHeader ==
  ASSUME StreamOK, pc = "header", Len(uplink) >= 6, honest
  PROVE  ~Malformed(SubSeq(uplink, 1, 6))
<1> DEFINE h == SubSeq(uplink, 1, 6)
           r == SubSeq(uplink, 7, Len(uplink))
           q == uplink \o transit
<1>1. uplink \in Seq(Octet) /\ transit \in Seq(Octet) /\ due \in Seq(Seq(Octet)) /\ buf = <<>>
  BY DEF StreamOK
<1>2. h \in Seq(Octet) /\ Len(h) = 6 /\ r \in Seq(Octet) /\ uplink = h \o r
  <2>1. 6 \in 0 .. Len(uplink) /\ 6 + 1 = 7
    BY <1>1, LenProperties
  <2>2. QED
    BY <1>1, <2>1, SplitSeq
<1>3. q = FlattenSeq(due)
  BY <1>1, ConcatEmptySeq DEF StreamOK, InStep
<1>4. q \in Seq(Octet) /\ q # <<>>
  <2>1. q \in Seq(Octet) /\ Len(q) = Len(uplink) + Len(transit)
    BY <1>1, ConcatProperties
  <2>2. Len(uplink) \in Nat /\ Len(transit) \in Nat
    BY <1>1, LenProperties
  <2> HIDE DEF q
  <2>3. QED
    BY <2>1, <2>2, EmptySeq
<1> HIDE DEF h, r
<1>5. r \o transit \in Seq(Octet) /\ q = h \o (r \o transit)
  <2>1. r \o transit \in Seq(Octet)
    BY <1>1, <1>2, ConcatProperties
  <2>2. (h \o r) \o transit = h \o (r \o transit)
    BY <1>1, <1>2, ConcatGroups, SMTT(60)
  <2>3. QED
    BY <1>2, <2>1, <2>2
<1> HIDE DEF q
<1>6. /\ Head(due) \in Seq(Octet) /\ FlattenSeq(Tail(due)) \in Seq(Octet)
      /\ q = Head(due) \o FlattenSeq(Tail(due)) /\ Head(due) = due[1] /\ 1 \in 1 .. Len(due)
  BY <1>1, <1>3, <1>4, OldestPacketFirst
<1>7. Honest(Head(due))
  BY <1>6 DEF StreamOK
<1>8. /\ Declared(h) = Len(Head(due)) /\ Len(Head(due)) \in Nat
      /\ Len(Head(due)) >= 7 /\ Len(Head(due)) <= RX_SIZE
  <2>1. Len(h) >= 6
    BY <1>2
  <2>2. h \o (r \o transit) = Head(due) \o FlattenSeq(Tail(due))
    BY <1>5, <1>6
  <2>3. QED
    BY <1>2, <1>5, <1>6, <1>7, <2>1, <2>2, HeaderOfPacket
<1>9. ~Malformed(h)
  BY <1>8, DriverAssumption DEF Malformed, CCSDS_PRIMARY_HEADER_LEN
<1>10. QED
  BY <1>9 DEF h

\* What the body completes is the oldest packet due, and the rest of the stream is the rest.
LEMMA BodyCompletesOldest ==
  ASSUME StreamOK, pc = "body", Len(uplink) >= Missing, honest
  PROVE  /\ due # <<>> /\ buf \o SubSeq(uplink, 1, Missing) = Head(due)
         /\ SubSeq(uplink, Missing + 1, Len(uplink)) \o transit = FlattenSeq(Tail(due))
<1> DEFINE n == Missing
           s == SubSeq(uplink, 1, n)
           r == SubSeq(uplink, n + 1, Len(uplink))
           q == buf \o uplink \o transit
<1>1. /\ uplink \in Seq(Octet) /\ transit \in Seq(Octet) /\ due \in Seq(Seq(Octet))
      /\ buf \in Seq(Octet) /\ Len(buf) = 6
  BY DEF StreamOK
<1>2. Declared(buf) \in Nat /\ n = Declared(buf) - 6 /\ n \in Nat
  <2>1. Declared(buf) \in Nat /\ Declared(buf) >= 7
    <3>1. Len(buf) >= 6
      BY <1>1
    <3>2. QED
      BY <1>1, <3>1, DeclaredLength
  <2>2. n = Declared(buf) - 6
    BY DEF Missing, CCSDS_PRIMARY_HEADER_LEN
  <2> HIDE DEF n
  <2>3. QED
    BY <2>1, <2>2
<1>3. s \in Seq(Octet) /\ Len(s) = n /\ r \in Seq(Octet) /\ uplink = s \o r
  <2>1. Len(uplink) \in Nat /\ Len(uplink) >= n
    BY <1>1, LenProperties
  <2> HIDE DEF n
  <2>2. n \in 0 .. Len(uplink)
    BY <1>2, <2>1
  <2>3. QED
    BY <1>1, <2>2, SplitSeq
<1> HIDE DEF n, s, r
<1>4. q = FlattenSeq(due)
  BY DEF StreamOK, InStep
<1>5. /\ uplink \o transit \in Seq(Octet) /\ q = buf \o (uplink \o transit)
      /\ q \in Seq(Octet) /\ q # <<>>
  <2>1. uplink \o transit \in Seq(Octet)
    BY <1>1, ConcatProperties
  <2>2. q = buf \o (uplink \o transit)
    BY <1>1, ConcatGroups, SMTT(60)
  <2> HIDE DEF q
  <2>3. q \in Seq(Octet) /\ Len(q) = Len(buf) + Len(uplink \o transit)
    BY <1>1, <2>1, <2>2, ConcatProperties
  <2>4. Len(uplink \o transit) \in Nat
    BY <2>1, LenProperties
  <2>5. Len(q) # 0
    BY <1>1, <2>3, <2>4
  <2>6. QED
    BY <2>1, <2>2, <2>3, <2>5, EmptySeq
<1>6. /\ q = (buf \o s) \o (r \o transit)
      /\ buf \o s \in Seq(Octet) /\ Len(buf \o s) = 6 + n /\ r \o transit \in Seq(Octet)
  <2>1. /\ buf \o s \in Seq(Octet) /\ Len(buf \o s) = Len(buf) + Len(s)
        /\ r \o transit \in Seq(Octet)
    BY <1>1, <1>3, ConcatProperties
  <2>2. uplink \o transit = s \o (r \o transit)
    BY <1>1, <1>3, ConcatGroups, SMTT(60)
  <2>3. buf \o (s \o (r \o transit)) = (buf \o s) \o (r \o transit)
    <3> DEFINE t == r \o transit
    <3>1. buf \in Seq(Octet) /\ s \in Seq(Octet) /\ t \in Seq(Octet)
      BY <1>1, <1>3, <2>1
    <3> HIDE DEF t
    <3>2. buf \o (s \o t) = (buf \o s) \o t
      BY <3>1, ConcatGroups, SMTT(60)
    <3>3. QED
      BY <3>2 DEF t
  <2> HIDE DEF q
  <2>4. QED
    BY <1>1, <1>3, <1>5, <2>1, <2>2, <2>3
<1> HIDE DEF q
<1>7. /\ due # <<>> /\ Head(due) \in Seq(Octet) /\ FlattenSeq(Tail(due)) \in Seq(Octet)
      /\ q = Head(due) \o FlattenSeq(Tail(due)) /\ Head(due) = due[1] /\ 1 \in 1 .. Len(due)
  BY <1>1, <1>4, <1>5, OldestPacketFirst
<1>8. Honest(Head(due))
  BY <1>7 DEF StreamOK
<1>9. Len(Head(due)) = 6 + n
  <2>1. Len(buf) >= 6
    BY <1>1
  <2>2. buf \o (uplink \o transit) = Head(due) \o FlattenSeq(Tail(due))
    BY <1>5, <1>7
  <2>3. Declared(buf) = Len(Head(due))
    BY <1>1, <1>5, <1>7, <1>8, <2>1, <2>2, HeaderOfPacket
  <2>4. QED
    BY <1>2, <2>3
<1>10. buf \o s = Head(due) /\ r \o transit = FlattenSeq(Tail(due))
  <2>1. (buf \o s) \o (r \o transit) = Head(due) \o FlattenSeq(Tail(due))
    BY <1>6, <1>7
  <2>2. Len(buf \o s) = Len(Head(due))
    BY <1>6, <1>9
  <2>3. QED
    BY <1>6, <1>7, <2>1, <2>2, SameCut
<1>11. QED
  BY <1>7, <1>10 DEF s, r, n

\* The parts of StreamOK, for a stream that has been taken apart.
LEMMA StreamParts ==
  ASSUME pc' \in {"accept", "drain", "select", "header", "body", "exit"},
         buf' \in Seq(Octet), uplink' \in Seq(Octet), transit' \in Seq(Octet),
         due' \in Seq(Seq(Octet)), honest' \in BOOLEAN,
         pc' # "body" => buf' = <<>>,
         pc' = "body" => Len(buf') = 6 /\ ~Malformed(buf'),
         honest' => \A i \in 1 .. Len(due') : Honest(due'[i]),
         honest' => buf' \o uplink' \o transit' = FlattenSeq(due')
  PROVE  StreamOK'
<1>1. InStep'
  BY DEF InStep
<1>2. (Malformed(buf))' = Malformed(buf')
  BY DEF Malformed, Declared
<1>3. (honest => \A i \in 1 .. Len(due) : Honest(due[i]))'
      <=> (honest' => \A i \in 1 .. Len(due') : Honest(due'[i]))
  BY DEF Honest
<1>4. QED
  BY <1>1, <1>2, <1>3 DEF StreamOK

\* Steps that leave the stream alone.
LEMMA StreamFrame ==
  ASSUME StreamOK, UNCHANGED stream_vars,
         \/ UNCHANGED pc
         \/ pc # "body" /\ pc' \in {"accept", "drain", "select", "header", "exit"}
  PROVE  StreamOK'
<1>1. UNCHANGED <<buf, uplink, transit, honest, due>>
  BY DEF stream_vars
<1>2. /\ buf' \in Seq(Octet) /\ uplink' \in Seq(Octet) /\ transit' \in Seq(Octet)
      /\ due' \in Seq(Seq(Octet)) /\ honest' \in BOOLEAN
      /\ pc' \in {"accept", "drain", "select", "header", "body", "exit"}
      /\ pc' # "body" => buf' = <<>>
      /\ pc' = "body" => Len(buf') = 6 /\ ~Malformed(buf')
  BY <1>1 DEF StreamOK
<1>3. honest' => \A i \in 1 .. Len(due') : Honest(due'[i])
  BY <1>1 DEF StreamOK
<1>4. honest' => buf' \o uplink' \o transit' = FlattenSeq(due')
  BY <1>1 DEF StreamOK, InStep
<1>5. QED
  BY <1>2, <1>3, <1>4, StreamParts

LEMMA HangUpStream == ASSUME HangUp PROVE StreamOK'
<1>1. /\ pc' = "accept" /\ buf' = <<>> /\ uplink' = <<>> /\ transit' = <<>>
      /\ honest' = TRUE /\ due' = <<>>
  BY DEF HangUp
<1>2. <<>> \in Seq(Octet) /\ <<>> \in Seq(Seq(Octet)) /\ Len(<<>>) = 0
  BY EmptySeq
<1>3. <<>> \o <<>> \o <<>> = FlattenSeq(<<>>)
  BY <1>2, FlattenEmpty, ConcatEmptySeq
<1>4. honest' => buf' \o uplink' \o transit' = FlattenSeq(due')
  BY <1>1, <1>3
<1>5. \A i \in 1 .. Len(due') : Honest(due'[i])
  BY <1>1, <1>2
<1>6. QED
  BY <1>1, <1>2, <1>4, <1>5, StreamParts

LEMMA InitStream == SimInit => StreamOK
<1> SUFFICES ASSUME SimInit PROVE StreamOK
  OBVIOUS
<1>1. <<>> \in Seq(Octet) /\ <<>> \in Seq(Seq(Octet)) /\ Len(<<>>) = 0
  BY EmptySeq
<1>2. <<>> \o <<>> \o <<>> = FlattenSeq(<<>>)
  BY <1>1, FlattenEmpty, ConcatEmptySeq
<1>3. InStep
  BY <1>2 DEF SimInit, InStep
<1>4. \A i \in 1 .. Len(due) : Honest(due[i])
  BY <1>1 DEF SimInit
<1>5. QED
  BY <1>1, <1>3, <1>4 DEF SimInit, StreamOK

\* What stays due once the oldest packet has been handed over.
LEMMA HandedOver ==
  ASSUME StreamOK, due' = IF due = <<>> THEN <<>> ELSE Tail(due), honest' = honest
  PROVE  /\ due' \in Seq(Seq(Octet))
         /\ honest' => \A i \in 1 .. Len(due') : Honest(due'[i])
<1>1. due \in Seq(Seq(Octet)) /\ (honest => \A i \in 1 .. Len(due) : Honest(due[i]))
  BY DEF StreamOK
<1>2. CASE due = <<>>
  <2>1. due' = <<>> /\ Len(<<>>) = 0 /\ <<>> \in Seq(Seq(Octet))
    BY <1>2, EmptySeq
  <2>2. due' \in Seq(Seq(Octet)) /\ Len(due') = 0
    BY <2>1
  <2>3. \A i \in 1 .. Len(due') : Honest(due'[i])
    BY <2>2
  <2>4. QED
    BY <2>2, <2>3
<1>3. CASE due # <<>>
  <2>1. /\ Tail(due) \in Seq(Seq(Octet)) /\ Len(Tail(due)) = Len(due) - 1 /\ Len(due) \in Nat
        /\ \A i \in 1 .. Len(Tail(due)) : Tail(due)[i] = due[i + 1]
    BY <1>1, <1>3, HeadTailProperties, LenProperties
  <2>2. ASSUME honest, NEW i \in 1 .. Len(Tail(due)) PROVE Honest(Tail(due)[i])
    <3>1. i + 1 \in 1 .. Len(due) /\ Tail(due)[i] = due[i + 1]
      BY <2>1
    <3>2. QED
      BY <1>1, <2>2, <3>1
  <2>3. due' = Tail(due)
    BY <1>3
  <2>4. due' \in Seq(Seq(Octet))
    BY <2>1, <2>3
  <2>5. honest' => \A i \in 1 .. Len(due') : Honest(due'[i])
    BY <2>2, <2>3, Zenon
  <2>6. QED
    BY <2>4, <2>5
<1>4. QED
  BY <1>2, <1>3

LEMMA ReadHeaderStream == ASSUME StreamOK, ReadHeader PROVE StreamOK'
<1> DEFINE h == SubSeq(uplink, 1, 6)
           r == SubSeq(uplink, 7, Len(uplink))
<1>1. /\ uplink \in Seq(Octet) /\ transit \in Seq(Octet) /\ buf = <<>> /\ honest \in BOOLEAN
      /\ pc = "header" /\ Len(uplink) >= 6 /\ UNCHANGED <<transit, honest>>
  BY DEF StreamOK, ReadHeader, CCSDS_PRIMARY_HEADER_LEN
<1>2. IF Malformed(h) THEN Process(h, 6)
      ELSE buf' = h /\ uplink' = r /\ pc' = "body" /\ UNCHANGED due
  BY DEF ReadHeader, CCSDS_PRIMARY_HEADER_LEN
<1>3. h \in Seq(Octet) /\ Len(h) = 6 /\ r \in Seq(Octet) /\ uplink = h \o r
  <2>1. 6 \in 0 .. Len(uplink) /\ 6 + 1 = 7
    BY <1>1, LenProperties
  <2>2. QED
    BY <1>1, <2>1, SplitSeq
<1>4. CASE Malformed(h)
  <2>1. ~honest
    BY <1>1, <1>4, HonestHeader
  <2>2. /\ pc' = "drain" /\ buf' = <<>> /\ uplink' = r
        /\ due' = IF due = <<>> THEN <<>> ELSE Tail(due)
    BY <1>2, <1>4 DEF Process
  <2>3. due' \in Seq(Seq(Octet)) /\ <<>> \in Seq(Octet)
    BY <1>1, <2>2, HandedOver, EmptySeq
  <2> HIDE DEF h, r
  <2>4. QED
    BY <1>1, <1>3, <2>1, <2>2, <2>3, StreamParts
<1>5. CASE ~Malformed(h)
  <2>1. buf' = h /\ uplink' = r /\ pc' = "body" /\ due' = due
    BY <1>2, <1>5
  <2> HIDE DEF h, r
  <2>2. honest' => buf' \o uplink' \o transit' = FlattenSeq(due')
    <3>1. honest => uplink \o transit = FlattenSeq(due)
      BY <1>1, ConcatEmptySeq DEF StreamOK, InStep
    <3>2. QED
      BY <1>1, <1>3, <2>1, <3>1
  <2>3. honest' => \A i \in 1 .. Len(due') : Honest(due'[i])
    BY <1>1, <2>1 DEF StreamOK
  <2>4. due' \in Seq(Seq(Octet))
    BY <2>1 DEF StreamOK
  <2>5. QED
    BY <1>1, <1>3, <1>5, <2>1, <2>2, <2>3, <2>4, StreamParts
<1>6. QED
  BY <1>4, <1>5

LEMMA ReadBodyStream == ASSUME StreamOK, ReadBody PROVE StreamOK'
<1> DEFINE r == SubSeq(uplink, Missing + 1, Len(uplink))
<1>1. /\ uplink \in Seq(Octet) /\ transit \in Seq(Octet) /\ buf \in Seq(Octet) /\ Len(buf) = 6
      /\ honest \in BOOLEAN
      /\ pc = "body" /\ Len(uplink) >= Missing /\ UNCHANGED <<transit, honest>>
  BY DEF StreamOK, ReadBody
<1>2. /\ pc' = "drain" /\ buf' = <<>> /\ uplink' = r
      /\ due' = IF due = <<>> THEN <<>> ELSE Tail(due)
  BY DEF ReadBody, Process
<1>3. r \in Seq(Octet)
  <2> DEFINE n == Missing
  <2>1. n \in Nat /\ n <= Len(uplink) /\ Len(uplink) \in Nat
    <3>1. Len(buf) >= 6
      BY <1>1
    <3>2. Declared(buf) \in Nat /\ Declared(buf) >= 7
      BY <1>1, <3>1, DeclaredLength
    <3>3. Missing = Declared(buf) - 6
      BY <1>1 DEF Missing, CCSDS_PRIMARY_HEADER_LEN
    <3>4. Len(uplink) \in Nat
      BY <1>1, LenProperties
    <3>5. QED
      BY <1>1, <3>2, <3>3, <3>4
  <2> HIDE DEF n
  <2>2. n \in 0 .. Len(uplink)
    BY <2>1
  <2>3. SubSeq(uplink, n + 1, Len(uplink)) \in Seq(Octet)
    BY <1>1, <2>2, SplitSeq
  <2>4. QED
    BY <2>3 DEF n
<1>4. ASSUME honest' PROVE buf' \o uplink' \o transit' = FlattenSeq(due')
  <2>1. due # <<>> /\ r \o transit = FlattenSeq(Tail(due))
    BY <1>1, <1>4, BodyCompletesOldest
  <2> HIDE DEF r
  <2>2. <<>> \o r = r
    BY <1>3, ConcatEmptySeq
  <2>3. QED
    BY <1>1, <1>2, <2>1, <2>2
<1> HIDE DEF r
<1>5. due' \in Seq(Seq(Octet)) /\ (honest' => \A i \in 1 .. Len(due') : Honest(due'[i]))
  BY <1>1, <1>2, HandedOver
<1>6. <<>> \in Seq(Octet)
  BY EmptySeq
<1>7. QED
  BY <1>1, <1>2, <1>3, <1>4, <1>5, <1>6, StreamParts

LEMMA SendStream == ASSUME StreamOK, NEW p \in Packets, Send(p) PROVE StreamOK'
<1>1. /\ uplink \in Seq(Octet) /\ transit \in Seq(Octet) /\ buf \in Seq(Octet)
      /\ due \in Seq(Seq(Octet)) /\ honest \in BOOLEAN /\ p \in Seq(Octet)
  BY DriverAssumption DEF StreamOK
<1>2. /\ honest' = (honest /\ Honest(p)) /\ transit' = transit \o p
      /\ due' = IF honest' THEN Append(due, p) ELSE <<>>
      /\ UNCHANGED <<pc, buf, uplink>>
  BY DEF Send
<1>3. transit' \in Seq(Octet)
  BY <1>1, <1>2, ConcatProperties
<1>4. CASE ~honest'
  <2>1. due' = <<>> /\ <<>> \in Seq(Seq(Octet)) /\ honest' = FALSE
    BY <1>2, <1>4, EmptySeq
  <2>2. /\ pc' \in {"accept", "drain", "select", "header", "body", "exit"}
        /\ buf' \in Seq(Octet) /\ uplink' \in Seq(Octet)
        /\ (pc' # "body" => buf' = <<>>)
        /\ (pc' = "body" => Len(buf') = 6 /\ ~Malformed(buf'))
    BY <1>2 DEF StreamOK
  <2>3. QED
    BY <1>3, <2>1, <2>2, StreamParts
<1>5. CASE honest'
  <2>1. honest /\ Honest(p) /\ due' = Append(due, p) /\ honest' = TRUE
    BY <1>2, <1>5
  <2>2. /\ Append(due, p) \in Seq(Seq(Octet)) /\ Len(Append(due, p)) = Len(due) + 1
        /\ \A i \in 1 .. Len(due) : Append(due, p)[i] = due[i]
        /\ Append(due, p)[Len(due) + 1] = p /\ Len(due) \in Nat
    BY <1>1, AppendProperties, LenProperties
  <2>3. \A i \in 1 .. Len(due') : Honest(due'[i])
    <3> SUFFICES ASSUME NEW i \in 1 .. Len(due) + 1 PROVE Honest(Append(due, p)[i])
      BY <2>1, <2>2
    <3>1. CASE i = Len(due) + 1
      BY <2>1, <2>2, <3>1
    <3>2. CASE i # Len(due) + 1
      <4>1. i \in 1 .. Len(due)
        BY <2>2, <3>2
      <4>2. QED
        BY <2>1, <2>2, <4>1 DEF StreamOK
    <3>3. QED
      BY <3>1, <3>2
  <2>4. buf' \o uplink' \o transit' = FlattenSeq(due')
    <3> DEFINE q == buf \o uplink
    <3>1. q \in Seq(Octet)
      BY <1>1, ConcatProperties
    <3>2. q \o transit = FlattenSeq(due)
      BY <2>1 DEF StreamOK, InStep
    <3>3. FlattenSeq(due') = FlattenSeq(due) \o p
      BY <1>1, <2>1, FlattenAppend
    <3>4. buf' \o uplink' = q /\ transit' = transit \o p
      BY <1>2
    <3> HIDE DEF q
    <3>5. (q \o transit) \o p = q \o (transit \o p)
      <4>1. q \in Seq(Octet) /\ transit \in Seq(Octet) /\ p \in Seq(Octet)
        BY <1>1, <3>1
      <4>2. QED
        BY <4>1, ConcatGroups, SMTT(60)
    <3>6. QED
      BY <3>2, <3>3, <3>4, <3>5
  <2>5. /\ pc' \in {"accept", "drain", "select", "header", "body", "exit"}
        /\ buf' \in Seq(Octet) /\ uplink' \in Seq(Octet)
        /\ (pc' # "body" => buf' = <<>>)
        /\ (pc' = "body" => Len(buf') = 6 /\ ~Malformed(buf'))
    BY <1>2 DEF StreamOK
  <2>6. due' \in Seq(Seq(Octet))
    BY <2>1, <2>2
  <2>7. QED
    BY <1>3, <2>1, <2>3, <2>4, <2>5, <2>6, StreamParts
<1>6. QED
  BY <1>4, <1>5

LEMMA ArriveStream == ASSUME StreamOK, NEW n \in SEGMENTS, Arrive(n) PROVE StreamOK'
<1> DEFINE k == Lesser(n, Len(transit))
           s == SubSeq(transit, 1, k)
           r == SubSeq(transit, k + 1, Len(transit))
<1>1. /\ uplink \in Seq(Octet) /\ transit \in Seq(Octet) /\ buf \in Seq(Octet)
      /\ Len(transit) \in Nat /\ n \in Nat
  BY DriverAssumption, LenProperties DEF StreamOK
<1>2. uplink' = uplink \o s /\ transit' = r /\ UNCHANGED <<pc, buf, honest, due>>
  BY DEF Arrive
<1>3. k \in 0 .. Len(transit)
  BY <1>1 DEF Lesser
<1> HIDE DEF k
<1>4. s \in Seq(Octet) /\ r \in Seq(Octet) /\ transit = s \o r
  BY <1>1, <1>3, SplitSeq
<1> HIDE DEF s, r
<1>5. uplink' \in Seq(Octet) /\ transit' \in Seq(Octet)
  BY <1>1, <1>2, <1>4, ConcatProperties
<1>6. buf' \o uplink' \o transit' = buf \o uplink \o transit
  <2> DEFINE q == buf \o uplink
  <2>1. buf \in Seq(Octet) /\ uplink \in Seq(Octet) /\ s \in Seq(Octet) /\ r \in Seq(Octet)
    BY <1>1, <1>4
  <2>2. q \in Seq(Octet)
    BY <1>1, ConcatProperties
  <2>3. buf \o (uplink \o s) = q \o s
    BY <2>1, ConcatGroups, SMTT(60)
  <2> HIDE DEF q
  <2>4. (q \o s) \o r = q \o (s \o r)
    BY <2>1, <2>2, ConcatGroups, SMTT(60)
  <2>5. buf' \o uplink' \o transit' = (q \o s) \o r
    BY <1>2, <2>3
  <2>6. QED
    BY <1>4, <2>4, <2>5 DEF q
<1>7. /\ honest' => buf' \o uplink' \o transit' = FlattenSeq(due')
      /\ honest' => \A i \in 1 .. Len(due') : Honest(due'[i])
  BY <1>2, <1>6 DEF StreamOK, InStep
<1>8. /\ pc' \in {"accept", "drain", "select", "header", "body", "exit"}
      /\ buf' \in Seq(Octet) /\ due' \in Seq(Seq(Octet)) /\ honest' \in BOOLEAN
      /\ (pc' # "body" => buf' = <<>>)
      /\ (pc' = "body" => Len(buf') = 6 /\ ~Malformed(buf'))
  BY <1>2 DEF StreamOK
<1>9. QED
  BY <1>5, <1>7, <1>8, StreamParts

LEMMA NextStream == StreamOK /\ [SimNext]_all_vars => StreamOK'
<1> SUFFICES ASSUME StreamOK, [SimNext]_all_vars PROVE StreamOK'
  OBVIOUS
<1>1. ASSUME Accept \/ Tick \/ SelectReadable \/ NothingToWrite \/ AcceptFails PROVE StreamOK'
  BY <1>1, StreamFrame DEF Accept, Tick, SelectReadable, NothingToWrite, AcceptFails
<1>2. ASSUME WriteOne PROVE StreamOK'
  BY <1>2, StreamFrame DEF WriteOne, AfterWrite
<1>3. ASSUME Connect \/ Close \/ ReadTelemetry PROVE StreamOK'
  BY <1>3, StreamFrame DEF Connect, Close, ReadTelemetry
<1>4. ASSUME EndOfStream \/ LinkError \/ WriteFails PROVE StreamOK'
  BY <1>4, HangUpStream DEF EndOfStream, LinkError, WriteFails
<1>5. ASSUME UNCHANGED all_vars PROVE StreamOK'
  BY <1>5, StreamFrame DEF all_vars, sim_vars, stream_vars
<1>6. QED
  BY <1>1, <1>2, <1>3, <1>4, <1>5, ReadHeaderStream, ReadBodyStream, SendStream, ArriveStream
  DEF SimNext, Driver, Ground, Exited

\* SWREQ-ROB-030 and SWREQ-ROB-040, for every set of packets, every buffer size and
\* every segmentation: while the ground declares true lengths, what receive_tc has not
\* read is exactly the packets it has not handed over, whole and in order.
THEOREM DriverStaysInStep == SimSpec => []InStep
<1>1. StreamOK => InStep
  BY DEF StreamOK
<1>2. QED
  BY <1>1, InitStream, NextStream, PTL DEF SimSpec

\* Each telecommand whose body receive_tc completes is the oldest one the ground sent
\* and the application has not seen, octet for octet.
THEOREM TelecommandsArriveAsSent ==
  SimSpec => [][ReadBody /\ honest => due # <<>> /\ buf \o SubSeq(uplink, 1, Missing) = Head(due)]_all_vars
<1>1. StreamOK => (ReadBody /\ honest => due # <<>> /\ buf \o SubSeq(uplink, 1, Missing) = Head(due))
  BY BodyCompletesOldest DEF ReadBody
<1>2. QED
  BY <1>1, InitStream, NextStream, PTL DEF SimSpec

-----------------------------------------------------------------------------
(* The application under the driver *)

\* What receive_tc hands over is made of octets.
LEMMA ProcessIsCall ==
  ASSUME NEW packet \in Seq(Octet), NEW n, Process(packet, n)
  PROVE  Call(ReceivableTc)
  BY ReceivedIsReceivable DEF Process, Call

LEMMA ReadIsCall ==
  ASSUME StreamOK, ReadHeader \/ ReadBody
  PROVE  [Call(ReceivableTc)]_vars
<1>1. uplink \in Seq(Octet) /\ buf \in Seq(Octet) /\ Len(uplink) \in Nat
  BY LenProperties DEF StreamOK
<1>2. ASSUME ReadHeader PROVE [Call(ReceivableTc)]_vars
  <2> DEFINE h == SubSeq(uplink, 1, 6)
  <2>1. 6 \in 0 .. Len(uplink)
    BY <1>1, <1>2 DEF ReadHeader, CCSDS_PRIMARY_HEADER_LEN
  <2>2. h \in Seq(Octet)
    BY <1>1, <2>1, SplitSeq
  <2>3. Process(h, 6) \/ UNCHANGED vars
    BY <1>2 DEF ReadHeader, CCSDS_PRIMARY_HEADER_LEN
  <2> HIDE DEF h
  <2>4. QED
    BY <2>2, <2>3, ProcessIsCall
<1>3. ASSUME ReadBody PROVE [Call(ReceivableTc)]_vars
  <2> DEFINE n == Missing
             s == SubSeq(uplink, 1, n)
  <2>1. pc = "body" /\ Len(uplink) >= n /\ Process(buf \o s, n)
    BY <1>3 DEF ReadBody
  <2>2. n \in 0 .. Len(uplink)
    <3>1. Len(buf) >= 6
      <4>1. Len(buf) = 6
        BY <2>1 DEF StreamOK
      <4>2. QED
        BY <4>1
    <3>2. Declared(buf) \in Nat /\ Declared(buf) >= 7
      BY <1>1, <3>1, DeclaredLength
    <3>3. n = Declared(buf) - 6
      BY <2>1 DEF Missing, CCSDS_PRIMARY_HEADER_LEN
    <3> HIDE DEF n
    <3>4. QED
      BY <1>1, <2>1, <3>2, <3>3
  <2> HIDE DEF n
  <2>3. s \in Seq(Octet)
    BY <1>1, <2>2, SplitSeq
  <2>4. buf \o s \in Seq(Octet)
    BY <1>1, <2>3, ConcatProperties
  <2>5. QED
    BY <2>1, <2>4, ProcessIsCall
<1>4. QED
  BY <1>2, <1>3

LEMMA DriverStep == StreamOK /\ [SimNext]_all_vars => [Call(ReceivableTc)]_vars
<1> SUFFICES ASSUME StreamOK, [SimNext]_all_vars PROVE [Call(ReceivableTc)]_vars
  OBVIOUS
<1>1. ASSUME Accept \/ Tick \/ WriteOne \/ WriteFails PROVE Call(ReceivableTc)
  BY <1>1 DEF Accept, Tick, WriteOne, WriteFails, Call
<1>2. ASSUME SelectReadable \/ NothingToWrite \/ AcceptFails \/ EndOfStream \/ LinkError
             \/ Connect \/ Close \/ ReadTelemetry
      PROVE  UNCHANGED vars
  BY <1>2 DEF SelectReadable, NothingToWrite, AcceptFails, EndOfStream, LinkError, Connect, Close,
              ReadTelemetry
<1>3. ASSUME NEW p \in Packets, Send(p) PROVE UNCHANGED vars
  BY <1>3 DEF Send
<1>4. ASSUME NEW n \in SEGMENTS, Arrive(n) PROVE UNCHANGED vars
  BY <1>4 DEF Arrive
<1>5. ASSUME UNCHANGED all_vars PROVE UNCHANGED vars
  BY <1>5 DEF all_vars
<1>6. QED
  BY <1>1, <1>2, <1>3, <1>4, <1>5, ReadIsCall DEF SimNext, Driver, Ground, Exited

\* The driver implements the environment the application is specified for: each of its
\* steps is one call of the application or none, and whatever octets it cuts out of the
\* stream, honest or not, make a telecommand the acceptance checks can be given.
THEOREM DriverImplementsApplication == SimSpec => OpenSpec
<1>1. SimInit => Init
  BY DEF SimInit
<1>2. QED
  BY <1>1, InitStream, NextStream, DriverStep, PTL DEF SimSpec, OpenSpec

\* So the SAFE mode interlock of src/obc_app.c survives any octet stream and any failure
\* of the connection.
THEOREM InterlockHoldsUnderDriver == SimSpec => []SafeHoldsHeaterOff
<1>1. IInv => SafeHoldsHeaterOff
  BY DEF IInv
<1>2. QED
  BY <1>1, DriverImplementsApplication, OpenInvariant, PTL

-----------------------------------------------------------------------------
(* The alarm *)

\* The thread leaves drain_downlink with an empty queue; a latched alarm is on its way
\* as long as the thread is in drain_downlink, and has been written afterwards.
Alarmed == \E i \in 1 .. Len(queue) : IsAlarm(queue[i])
AlarmOK ==
  /\ told \in BOOLEAN
  /\ pc \in {"select", "header", "body"} => queue = <<>> /\ (alarm_latched = PUS_TRUE => told)
  /\ pc = "drain" /\ alarm_latched = PUS_TRUE => told \/ Alarmed

LEMMA AcceptAlarm == ASSUME Accept PROVE AlarmOK'
<1>1. pc' = "drain" /\ told' = FALSE /\ alarm_latched' = PUS_FALSE
  BY DEF Accept, obc_init
<1>2. alarm_latched' # PUS_TRUE
  BY <1>1 DEF PUS_FALSE, PUS_TRUE
<1>3. told' \in BOOLEAN
  BY <1>1, Zenon
<1>4. QED
  BY <1>1, <1>2, <1>3, Zenon DEF AlarmOK

LEMMA TickAlarmOK == ASSUME IInv, AlarmOK, Tick PROVE AlarmOK'
<1>1. /\ pc = "select" /\ obc_tick /\ pc' = "drain"
      /\ told' = IF alarm_latched' = PUS_FALSE THEN FALSE
                 ELSE told \/ OBC_EVT_TEMP_ALARM \notin evt_enabled
  BY DEF Tick
<1>2. queue = <<>> /\ told \in BOOLEAN /\ (alarm_latched = PUS_TRUE => told)
  BY <1>1 DEF AlarmOK
<1>3. /\ alarm_latched \in Flag /\ DlTypeOK
      /\ alarm_latched' = NextLatch(Acquired)
  BY <1>1 DEF IInv, TypeOK, obc_tick, Acquired
<1>4. ASSUME alarm_latched' = PUS_TRUE, ~told' PROVE Alarmed'
  <2>1. told' = (told \/ OBC_EVT_TEMP_ALARM \notin evt_enabled)
    BY <1>1, <1>4 DEF PUS_FALSE, PUS_TRUE
  <2>2. ~told /\ OBC_EVT_TEMP_ALARM \in evt_enabled
    BY <1>4, <2>1
  <2>3. alarm_latched = PUS_FALSE
    BY <1>2, <1>3, <2>2 DEF Flag
  <2>4. TooHot(Acquired)
    BY <1>3, <1>4, <2>3 DEF NextLatch, PUS_FALSE, PUS_TRUE
  <2>5. RaisesAlarm
    BY <2>2, <2>3, <2>4 DEF RaisesAlarm
  <2>6. PICK pkts : Emit(pkts) /\ AlarmFirst(pkts, TRUE)
    BY <1>1, <2>5, TickAlarm
  <2>7. Len(queue) = 0 /\ Len(queue) < DEPTH
    BY <1>2, DepthAssumption, EmptySeq
  <2>8. Len(queue) + 1 \in 1 .. Len(queue') /\ IsAlarm(queue'[Len(queue) + 1])
    BY <1>3, <2>6, <2>7, QueuedAlarm
  <2>9. \E i \in 1 .. Len(queue') : IsAlarm(queue'[i])
    BY <2>8
  <2>10. QED
    BY <2>9 DEF Alarmed, IsAlarm
<1>5. told' \in BOOLEAN
  BY <1>1, <1>2
<1>6. QED
  BY <1>1, <1>4, <1>5 DEF AlarmOK

LEMMA WriteAlarm == ASSUME IInv, AlarmOK, WriteOne PROVE AlarmOK'
<1>1. /\ pc = "drain" /\ queue # <<>> /\ queue' = Tail(queue) /\ alarm_latched' = alarm_latched
      /\ pc' = IF Len(queue) > 1 THEN "drain" ELSE "select"
  BY DEF WriteOne, AfterWrite, DownlinkOne, tm_queue_pop, app_vars
<1>2. told' = (told \/ IsAlarm(Head(queue))) /\ told \in BOOLEAN
  BY DEF WriteOne, IsAlarm, AlarmOK
<1>3. queue \in Seq(TmPacket)
  BY DEF IInv, TypeOK, DlTypeOK
<1>4. /\ Len(queue) \in Nat \ {0} /\ Head(queue) = queue[1]
      /\ Tail(queue) \in Seq(TmPacket) /\ Len(Tail(queue)) = Len(queue) - 1
      /\ \A i \in 1 .. Len(Tail(queue)) : Tail(queue)[i] = queue[i + 1]
  BY <1>1, <1>3, HeadTailProperties, EmptySeq
<1>5. told' \in BOOLEAN
  BY <1>2
<1>6. ASSUME alarm_latched = PUS_TRUE, ~told'
      PROVE  \E i \in 1 .. Len(queue') : IsAlarm(queue'[i])
  <2>1. ~told /\ ~IsAlarm(queue[1])
    BY <1>2, <1>4, <1>6
  <2>2. PICK i \in 1 .. Len(queue) : IsAlarm(queue[i])
    BY <1>1, <1>6, <2>1 DEF AlarmOK, Alarmed
  <2>3. i # 1
    BY <2>1, <2>2
  <2>4. i - 1 \in 1 .. Len(Tail(queue)) /\ i - 1 + 1 = i
    BY <1>4, <2>3
  <2>5. IsAlarm(Tail(queue)[i - 1])
    BY <1>4, <2>2, <2>4
  <2>6. QED
    BY <1>1, <2>4, <2>5
<1>7. alarm_latched' = PUS_TRUE => told' \/ Alarmed'
  BY <1>1, <1>6 DEF Alarmed, IsAlarm
<1>8. CASE Len(queue) > 1
  BY <1>1, <1>5, <1>7, <1>8 DEF AlarmOK
<1>9. CASE ~(Len(queue) > 1)
  <2>1. Len(queue') = 0 /\ queue' = <<>>
    BY <1>1, <1>4, <1>9, EmptySeq
  <2>2. alarm_latched' = PUS_TRUE => told'
    <3>1. ~\E i \in 1 .. Len(queue') : IsAlarm(queue'[i])
      BY <2>1
    <3>2. QED
      BY <1>1, <1>6, <3>1, Zenon
  <2>3. pc' = "select"
    BY <1>1, <1>9
  <2>4. QED
    BY <1>5, <2>1, <2>2, <2>3 DEF AlarmOK
<1>10. QED
  BY <1>8, <1>9

LEMMA ReadAlarm == ASSUME AlarmOK, ReadHeader \/ ReadBody PROVE AlarmOK'
<1>1. pc \in {"header", "body"} /\ told' = told
  BY DEF ReadHeader, ReadBody
<1>2. \/ pc' = "drain" /\ \E raw : obc_process_tc(raw)
      \/ pc' = "body" /\ UNCHANGED vars
  BY DEF ReadHeader, ReadBody, Process
<1>3. CASE pc' = "drain" /\ \E raw : obc_process_tc(raw)
  <2>1. alarm_latched' = alarm_latched
    BY <1>3, TelecommandKeepsLatch
  <2>2. QED
    BY <1>1, <1>3, <2>1 DEF AlarmOK
<1>4. CASE pc' = "body" /\ UNCHANGED vars
  BY <1>1, <1>4 DEF AlarmOK, vars, dl_vars, app_vars
<1>5. QED
  BY <1>2, <1>3, <1>4

LEMMA NextAlarm == IInv /\ AlarmOK /\ [SimNext]_all_vars => AlarmOK'
<1> SUFFICES ASSUME IInv, AlarmOK, [SimNext]_all_vars PROVE AlarmOK'
  OBVIOUS
<1>1. ASSUME SelectReadable PROVE AlarmOK'
  BY <1>1 DEF SelectReadable, AlarmOK, vars, dl_vars, app_vars
<1>2. ASSUME NothingToWrite PROVE AlarmOK'
  <2>1. pc = "drain" /\ queue = <<>> /\ pc' = "select" /\ UNCHANGED <<queue, alarm_latched, told>>
    BY <1>2 DEF NothingToWrite, vars, dl_vars, app_vars
  <2>2. ~Alarmed
    BY <2>1, EmptySeq DEF Alarmed
  <2>3. QED
    BY <2>1, <2>2 DEF AlarmOK
<1>3. ASSUME HangUp PROVE AlarmOK'
  BY <1>3 DEF HangUp, AlarmOK
<1>4. ASSUME AcceptFails PROVE AlarmOK'
  BY <1>4 DEF AcceptFails, AlarmOK
<1>5. ASSUME UNCHANGED <<queue, alarm_latched, told, pc>> PROVE AlarmOK'
  BY <1>5 DEF AlarmOK, Alarmed, IsAlarm
<1>6. ASSUME Ground \/ UNCHANGED all_vars PROVE UNCHANGED <<queue, alarm_latched, told, pc>>
  BY <1>6 DEF Ground, Connect, Close, ReadTelemetry, Send, Arrive, all_vars, sim_vars, vars,
              dl_vars, app_vars
<1>7. EndOfStream \/ LinkError \/ WriteFails => HangUp
  BY DEF EndOfStream, LinkError, WriteFails
<1>8. QED
  BY <1>1, <1>2, <1>3, <1>4, <1>5, <1>6, <1>7, AcceptAlarm, TickAlarmOK, WriteAlarm, ReadAlarm
  DEF SimNext, Driver, Exited

LEMMA InitAlarm == SimInit => AlarmOK
  BY DEF SimInit, AlarmOK

\* SWREQ-APP-070 under the driver, for every queue depth: although the alarm is latched
\* whether or not its event found room, by the next select it has been written to the
\* ground, unless the ground had disabled the event.
THEOREM AlarmGetsThrough == SimSpec => []AlarmReachesGround
<1>1. AlarmOK => AlarmReachesGround
  BY DEF AlarmOK, AlarmReachesGround
<1>2. SimSpec => []IInv
  BY DriverImplementsApplication, OpenInvariant, PTL
<1>3. QED
  BY <1>1, <1>2, InitAlarm, NextAlarm, PTL DEF SimSpec
=============================================================================
