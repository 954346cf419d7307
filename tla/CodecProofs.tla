---------------------------- MODULE CodecProofs -----------------------------
(***************************************************************************)
(* The octets of src/ccsds.c, src/pus_tc.c and src/pus_tm.c: every header, *)
(* telecommand and telemetry packet is read back as it was written; the    *)
(* checksum of src/crc16.c is a remainder, and what noise it catches.      *)
(***************************************************************************)
EXTENDS NoisyLink, DataLemmas, FiniteSetTheorems

-----------------------------------------------------------------------------
(* Octets and words.  Both sets are kept folded: the backends enumerate an *)
(* interval whose bounds they can see.                                     *)

LEMMA WordMax == UINT16_MAX \in Int /\ UINT16_MAX <= 65535 /\ 65535 <= UINT16_MAX
  BY DEF UINT16_MAX

LEMMA WordRange ==
  ASSUME NEW x
  PROVE  x \in Word16 <=> x \in Int /\ 0 <= x /\ x <= 65535
  BY WordMax DEF Word16

LEMMA SeqCountMax == SEQ_COUNT_MASK \in Int /\ SEQ_COUNT_MASK <= 16383 /\ 16383 <= SEQ_COUNT_MASK
  BY DEF SEQ_COUNT_MASK

LEMMA SeqCountRange ==
  ASSUME NEW x
  PROVE  x \in SeqCount <=> x \in Int /\ 0 <= x /\ x <= 16383
  BY SeqCountMax DEF SeqCount

LEMMA ApidMax == APID_MASK \in Int /\ APID_MASK <= 2047 /\ 2047 <= APID_MASK
  BY DEF APID_MASK

LEMMA ApidRange ==
  ASSUME NEW x
  PROVE  x \in Apid <=> x \in Int /\ 0 <= x /\ x <= 2047
  BY ApidMax DEF Apid

LEMMA OctetRange ==
  ASSUME NEW x
  PROVE  x \in Octet <=> x \in Int /\ 0 <= x /\ x <= 255
  BY DEF Octet

-----------------------------------------------------------------------------
(* Numbers from their digits *)

\* v with one more digit, the n-th of width from the top.
WithDigit(v, bits, width, n) == 2 * v + (IF width - n \in bits THEN 1 ELSE 0)

IsHigh(f, bits, width, m) ==
  f = [n \in 0 .. m |-> IF n = 0 THEN 0 ELSE WithDigit(f[n - 1], bits, width, n)]

LEMMA HighExists == ASSUME NEW bits, NEW width PROVE \A n \in Nat : \E f : IsHigh(f, bits, width, n)
<1> DEFINE T == {n \in Nat : \E f : IsHigh(f, bits, width, n)}
<1>1. 0 \in T
  <2> DEFINE f == [i \in 0 .. 0 |-> 0]
  <2>1. \A i \in 0 .. 0 : i = 0
    OBVIOUS
  <2>2. IsHigh(f, bits, width, 0)
    BY <2>1 DEF IsHigh
  <2>3. QED
    BY <2>2
<1>2. ASSUME NEW n \in Nat, n \in T PROVE n + 1 \in T
  <2>1. PICK f : IsHigh(f, bits, width, n)
    BY <1>2
  <2> DEFINE last == WithDigit(f[n], bits, width, n + 1)
             h == [i \in 0 .. n + 1 |-> IF i <= n THEN f[i] ELSE last]
  <2>2. \A i \in 0 .. n : f[i] = IF i = 0 THEN 0 ELSE WithDigit(f[i - 1], bits, width, i)
    BY <2>1 DEF IsHigh
  <2>3. ASSUME NEW i \in 0 .. n + 1
        PROVE  h[i] = IF i = 0 THEN 0 ELSE WithDigit(h[i - 1], bits, width, i)
    <3>1. CASE i <= n
      <4>1. h[i] = f[i] /\ i \in 0 .. n /\ (i # 0 => h[i - 1] = f[i - 1])
        BY <3>1
      <4>2. QED
        BY <2>2, <4>1
    <3>2. CASE ~(i <= n)
      <4>1. i = n + 1 /\ i # 0 /\ h[i] = last /\ h[i - 1] = f[n]
        BY <3>2
      <4>2. QED
        BY <4>1
    <3>3. QED
      BY <3>1, <3>2
  <2>4. IsHigh(h, bits, width, n + 1)
    <3>1. h = [i \in 0 .. n + 1 |-> h[i]]
      OBVIOUS
    <3> HIDE DEF h
    <3>2. QED
      BY <2>3, <3>1 DEF IsHigh
  <2>5. QED
    BY <2>4
<1> HIDE DEF T
<1>3. \A n \in Nat : n \in T
  BY <1>1, <1>2, SetInduction
<1>4. QED
  BY <1>3 DEF T

High(bits, width) == CHOOSE f : IsHigh(f, bits, width, width)

LEMMA HighEquations ==
  ASSUME NEW bits, NEW width \in Nat
  PROVE  /\ High(bits, width)[0] = 0
         /\ \A n \in 1 .. width :
              High(bits, width)[n] = WithDigit(High(bits, width)[n - 1], bits, width, n)
         /\ Number(bits, width) = High(bits, width)[width]
<1>1. \E f : IsHigh(f, bits, width, width)
  BY HighExists
<1>2. IsHigh(High(bits, width), bits, width, width)
  BY <1>1 DEF High
<1>3. Number(bits, width) = High(bits, width)[width]
  BY DEF Number, High, IsHigh, WithDigit
<1>4. 0 \in 0 .. width /\ \A n \in 1 .. width : n \in 0 .. width /\ n # 0
  OBVIOUS
<1>5. QED
  BY <1>2, <1>3, <1>4 DEF IsHigh

\* The largest number of so many digits.
Ones == <<1, 3, 7, 15, 31, 63, 127, 255, 511, 1023, 2047, 4095, 8191, 16383, 32767, 65535>>

LEMMA OnesStep == \A n \in 1 .. 15 : Ones[n] \in Nat /\ Ones[n + 1] = 2 * Ones[n] + 1
  BY DEF Ones

LEMMA HighBound ==
  ASSUME NEW bits, NEW width \in 1 .. 16
  PROVE  \A n \in 1 .. width : High(bits, width)[n] \in 0 .. Ones[n]
<1> DEFINE H == High(bits, width)
           T == {n \in Nat : n + 1 \in 1 .. width => H[n + 1] \in 0 .. Ones[n + 1]}
<1>1. /\ H[0] = 0
      /\ \A n \in 1 .. width : H[n] = WithDigit(H[n - 1], bits, width, n)
  BY HighEquations
<1> HIDE DEF H
<1>2. 0 \in T
  <2>1. H[1] = WithDigit(H[0], bits, width, 1)
    BY <1>1, 1 \in 1 .. width, 1 - 1 = 0
  <2>2. H[1] \in 0 .. 1
    BY <1>1, <2>1 DEF WithDigit
  <2>3. Ones[1] = 1
    BY DEF Ones
  <2>4. QED
    BY <2>2, <2>3
<1>3. ASSUME NEW n \in Nat, n \in T PROVE n + 1 \in T
  <2>1. SUFFICES ASSUME n + 2 \in 1 .. width PROVE H[n + 2] \in 0 .. Ones[n + 2]
    BY (n + 1) + 1 = n + 2
  <2> DEFINE m == n + 1
             o == Ones[m]
             h == H[m]
  <2>2. m \in 1 .. 15 /\ m + 1 = n + 2 /\ m \in 1 .. width /\ (n + 2) - 1 = m
    BY <2>1
  <2>3. o \in Nat /\ Ones[n + 2] = 2 * o + 1
    BY <2>2, OnesStep
  <2>4. h \in 0 .. o
    BY <1>3, <2>2
  <2>5. H[n + 2] = WithDigit(h, bits, width, n + 2)
    BY <1>1, <2>1, <2>2
  <2> HIDE DEF h, o
  <2>6. H[n + 2] \in 0 .. 2 * o + 1
    BY <2>3, <2>4, <2>5 DEF WithDigit
  <2>7. QED
    BY <2>3, <2>6
<1> HIDE DEF T
<1>4. \A n \in Nat : n \in T
  BY <1>2, <1>3, SetInduction
<1>5. ASSUME NEW n \in 1 .. width PROVE H[n] \in 0 .. Ones[n]
  <2> DEFINE m == n - 1
  <2>1. m \in Nat /\ m + 1 = n
    OBVIOUS
  <2>2. m \in T
    BY <1>4, <2>1
  <2>3. QED
    BY <2>1, <2>2 DEF T
<1>6. QED
  BY <1>5 DEF H

LEMMA NumberOctet == ASSUME NEW bits PROVE Number(bits, 8) \in Octet
<1>1. High(bits, 8)[8] \in 0 .. Ones[8]
  BY HighBound, 8 \in 1 .. 16, 8 \in 1 .. 8
<1>2. Ones[8] = 255
  BY DEF Ones
<1>3. 8 \in Nat /\ 0 \in 0 .. 255
  OBVIOUS
<1>4. QED
  BY <1>1, <1>2, <1>3, HighEquations DEF Octet

LEMMA NumberWord == ASSUME NEW bits PROVE Number(bits, 16) \in Word16
<1> DEFINE o == Ones[16]
           h == High(bits, 16)[16]
<1>1. h \in 0 .. o
  BY HighBound, 16 \in 1 .. 16
<1>2. o \in Int /\ o <= 65535
  BY DEF Ones
<1>3. Number(bits, 16) = h
  BY HighEquations, 16 \in Nat
<1> HIDE DEF h, o
<1>4. h \in Word16 /\ 0 \in Word16
  BY <1>1, <1>2, WordRange
<1>5. QED
  BY <1>3, <1>4

\* The lowest digit of a word.
LEMMA NumberParity == ASSUME NEW bits PROVE Number(bits, 16) % 2 = IF 0 \in bits THEN 1 ELSE 0
<1> DEFINE h == High(bits, 16)[15]
<1>1. h \in Nat
  <2>1. h \in 0 .. Ones[15]
    BY HighBound, 16 \in 1 .. 16, 15 \in 1 .. 16
  <2>2. QED
    BY <2>1
<1>2. High(bits, 16)[16] = WithDigit(h, bits, 16, 16)
  BY HighEquations, 16 \in Nat, 16 \in 1 .. 16, 16 - 1 = 15
<1>3. Number(bits, 16) = High(bits, 16)[16]
  BY HighEquations, 16 \in Nat
<1> HIDE DEF h
<1>4. (2 * h) % 2 = 0 /\ (2 * h + 1) % 2 = 1 /\ 0 % 2 = 0
  BY <1>1
<1>5. QED
  BY <1>1, <1>2, <1>3, <1>4 DEF WithDigit

LEMMA WordNumber ==
  ASSUME NEW bits \in SUBSET (0 .. 15) PROVE Word(bits) = Number(bits, 16) /\ Word(bits) \in Word16
  BY NumberWord DEF Word

LEMMA XorNumber == ASSUME NEW a, NEW b PROVE Xor16(a, b) = Number(Differing(a, b), 16)
  BY WordNumber DEF Xor16, Differing

LEMMA XorWord == ASSUME NEW a, NEW b PROVE Xor16(a, b) \in Word16
  BY XorNumber, NumberWord

\* Inverting the lowest bit changes a number.
LEMMA XorOneDiffers == ASSUME NEW a \in Word16 PROVE Xor16(a, 1) # a
<1>1. (1 \div 2^0) % 2 = 1 /\ (a \div 2^0) % 2 = a % 2
  BY WordRange
<1>2. 0 \in Differing(a, 1) <=> a % 2 # 1
  BY <1>1 DEF Differing
<1>3. a % 2 \in 0 .. 1
  BY WordRange
<1>4. Xor16(a, 1) % 2 = IF 0 \in Differing(a, 1) THEN 1 ELSE 0
  BY NumberParity, XorNumber
<1>5. QED
  BY <1>2, <1>3, <1>4

-----------------------------------------------------------------------------
(* The checksum is a word *)

LEMMA ShiftWord == ASSUME NEW crc \in Word16 PROVE Shift(crc) \in Word16
<1> DEFINE d == crc * 2
           r == d % 65536
<1>1. d \in Int
  BY WordRange
<1> HIDE DEF d
<1>2. r \in Int /\ 0 <= r /\ r <= 65535
  BY <1>1
<1>3. r \in Word16
  BY <1>2, WordRange
<1>4. QED
  BY <1>3, XorWord DEF Shift, d

LEMMA ShiftsWord == ASSUME NEW crc \in Word16 PROVE EightShifts[crc] \in Word16
<1>1. ASSUME NEW c \in Word16 PROVE FourShifts(c) \in Word16
  <2>1. Shift(c) \in Word16
    BY ShiftWord
  <2>2. Shift(Shift(c)) \in Word16
    BY <2>1, ShiftWord
  <2>3. Shift(Shift(Shift(c))) \in Word16
    BY <2>2, ShiftWord
  <2>4. QED
    BY <2>3, ShiftWord DEF FourShifts
<1>2. FourShifts(FourShifts(crc)) \in Word16
  BY <1>1
<1>3. QED
  BY <1>2 DEF EightShifts

\* What is left after each step when g[i] is applied in step i, beginning with a.
IsSteps(f, a, g, m) == f = [i \in 0 .. m |-> IF i = 0 THEN a ELSE g[i][f[i - 1]]]

LEMMA StepsExist == ASSUME NEW a, NEW g PROVE \A n \in Nat : \E f : IsSteps(f, a, g, n)
<1> DEFINE T == {n \in Nat : \E f : IsSteps(f, a, g, n)}
<1>1. 0 \in T
  <2> DEFINE f == [i \in 0 .. 0 |-> a]
  <2>1. \A i \in 0 .. 0 : i = 0
    OBVIOUS
  <2>2. IsSteps(f, a, g, 0)
    BY <2>1 DEF IsSteps
  <2>3. QED
    BY <2>2
<1>2. ASSUME NEW n \in Nat, n \in T PROVE n + 1 \in T
  <2>1. PICK f : IsSteps(f, a, g, n)
    BY <1>2
  <2> DEFINE last == g[n + 1][f[n]]
             h == [i \in 0 .. n + 1 |-> IF i <= n THEN f[i] ELSE last]
  <2>2. \A i \in 0 .. n : f[i] = IF i = 0 THEN a ELSE g[i][f[i - 1]]
    BY <2>1 DEF IsSteps
  <2>3. ASSUME NEW i \in 0 .. n + 1
        PROVE  h[i] = IF i = 0 THEN a ELSE g[i][h[i - 1]]
    <3>1. CASE i <= n
      <4>1. h[i] = f[i] /\ i \in 0 .. n /\ (i # 0 => h[i - 1] = f[i - 1])
        BY <3>1
      <4>2. QED
        BY <2>2, <4>1
    <3>2. CASE ~(i <= n)
      <4>1. i = n + 1 /\ i # 0 /\ h[i] = last /\ h[i - 1] = f[n]
        BY <3>2
      <4>2. QED
        BY <4>1
    <3>3. QED
      BY <3>1, <3>2
  <2>4. IsSteps(h, a, g, n + 1)
    <3>1. h = [i \in 0 .. n + 1 |-> h[i]]
      OBVIOUS
    <3> HIDE DEF h
    <3>2. QED
      BY <2>3, <3>1 DEF IsSteps
  <2>5. QED
    BY <2>4
<1> HIDE DEF T
<1>3. \A n \in Nat : n \in T
  BY <1>1, <1>2, SetInduction
<1>4. QED
  BY <1>3 DEF T

LEMMA RegisterStep ==
  ASSUME NEW data, Len(data) \in Nat
  PROVE  /\ Registers(data)[0] = CRC16_SEED
         /\ \A i \in 1 .. Len(data) : Registers(data)[i] = Turn(data[i])[Registers(data)[i - 1]]
<1> DEFINE n == Len(data)
           g == [i \in 1 .. n |-> Turn(data[i])]
           Body(f) == f = [i \in 0 .. n |-> IF i = 0 THEN CRC16_SEED ELSE Turn(data[i])[f[i - 1]]]
           R == Registers(data)
<1>1. PICK f : IsSteps(f, CRC16_SEED, g, n)
  BY StepsExist
<1>2. \A i \in 0 .. n : i # 0 => i \in 1 .. n /\ g[i] = Turn(data[i])
  OBVIOUS
<1>3. R = CHOOSE h : Body(h)
  BY DEF Registers
<1>4. 0 \in 0 .. n /\ \A i \in 1 .. n : i \in 0 .. n /\ i # 0
  OBVIOUS
<1> HIDE DEF R, g, n
<1>5. Body(f)
  BY <1>1, <1>2 DEF IsSteps
<1>6. Body(R)
  BY <1>3, <1>5
<1>7. R[0] = CRC16_SEED /\ \A i \in 1 .. n : R[i] = Turn(data[i])[R[i - 1]]
  BY <1>4, <1>6
<1>8. QED
  BY <1>7 DEF R, n

LEMMA RegisterWord ==
  ASSUME NEW data, Len(data) \in Nat
  PROVE  \A i \in 0 .. Len(data) : Registers(data)[i] \in Word16
<1> DEFINE R == Registers(data)
           n == Len(data)
           T == {i \in Nat : i \in 0 .. n => R[i] \in Word16}
<1>1. R[0] = CRC16_SEED /\ \A i \in 1 .. n : R[i] = Turn(data[i])[R[i - 1]]
  BY RegisterStep
<1>2. n \in Nat
  OBVIOUS
<1> HIDE DEF R, n
<1>3. 0 \in T
  BY <1>1, WordRange DEF CRC16_SEED
<1>4. ASSUME NEW i \in Nat, i \in T PROVE i + 1 \in T
  <2>1. SUFFICES ASSUME i + 1 \in 0 .. n PROVE R[i + 1] \in Word16
    OBVIOUS
  <2>2. i \in 0 .. n /\ i + 1 \in 1 .. n /\ (i + 1) - 1 = i
    BY <1>2, <2>1
  <2>3. R[i] \in Word16 /\ R[i + 1] = Turn(data[i + 1])[R[i]]
    BY <1>1, <1>4, <2>2
  <2>4. Turn(data[i + 1])[R[i]] = EightShifts[Xor16(R[i], data[i + 1] * 256)]
    BY <2>3 DEF Turn
  <2>5. QED
    BY <2>3, <2>4, XorWord, ShiftsWord
<1> HIDE DEF T
<1>5. \A i \in Nat : i \in T
  BY <1>3, <1>4, SetInduction
<1>6. ASSUME NEW i \in 0 .. n PROVE R[i] \in Word16
  <2>1. i \in Nat
    BY <1>2
  <2>2. QED
    BY <1>5, <2>1 DEF T
<1>7. QED
  BY <1>6 DEF R, n

LEMMA CrcWord == ASSUME NEW data, Len(data) \in Nat PROVE crc16_ccitt(data) \in Word16
<1> DEFINE n == Len(data)
<1>1. n \in 0 .. n
  OBVIOUS
<1>2. QED
  BY <1>1, RegisterWord DEF crc16_ccitt

-----------------------------------------------------------------------------
(* The binary digits of a word.  Powers are evaluated for literals only,   *)
(* so a fact about digit k is proved digit by digit.                       *)

\* x >> k, kept folded.
Shifted(x, k) == x \div 2^k

LEMMA PowerStep ==
  ASSUME NEW k \in 0 .. 14 PROVE 2^(k + 1) = 2 * 2^k /\ 2^k \in Nat \ {0}
<1>1. CASE k = 0
  BY <1>1
<1>2. CASE k = 1
  BY <1>2
<1>3. CASE k = 2
  BY <1>3
<1>4. CASE k = 3
  BY <1>4
<1>5. CASE k = 4
  BY <1>5
<1>6. CASE k = 5
  BY <1>6
<1>7. CASE k = 6
  BY <1>7
<1>8. CASE k = 7
  BY <1>8
<1>9. CASE k = 8
  BY <1>9
<1>10. CASE k = 9
  BY <1>10
<1>11. CASE k = 10
  BY <1>11
<1>12. CASE k = 11
  BY <1>12
<1>13. CASE k = 12
  BY <1>13
<1>14. CASE k = 13
  BY <1>14
<1>15. CASE k = 14
  BY <1>15
<1>16. QED
  BY <1>1, <1>2, <1>3, <1>4, <1>5, <1>6, <1>7, <1>8, <1>9, <1>10, <1>11, <1>12, <1>13, <1>14, <1>15

LEMMA DoubleBit ==
  ASSUME NEW x \in Word16, NEW k \in 0 .. 14
  PROVE  Shifted((x * 2) % 65536, k + 1) % 2 = Shifted(x, k) % 2
<1>1. x \in Int /\ 0 <= x /\ x <= 65535
  BY WordRange
<1>2. CASE k = 0
  BY <1>2, <1>1 DEF Shifted
<1>3. CASE k = 1
  BY <1>3, <1>1 DEF Shifted
<1>4. CASE k = 2
  BY <1>4, <1>1 DEF Shifted
<1>5. CASE k = 3
  BY <1>5, <1>1 DEF Shifted
<1>6. CASE k = 4
  BY <1>6, <1>1 DEF Shifted
<1>7. CASE k = 5
  BY <1>7, <1>1 DEF Shifted
<1>8. CASE k = 6
  BY <1>8, <1>1 DEF Shifted
<1>9. CASE k = 7
  BY <1>9, <1>1 DEF Shifted
<1>10. CASE k = 8
  BY <1>10, <1>1 DEF Shifted
<1>11. CASE k = 9
  BY <1>11, <1>1 DEF Shifted
<1>12. CASE k = 10
  BY <1>12, <1>1 DEF Shifted
<1>13. CASE k = 11
  BY <1>13, <1>1 DEF Shifted
<1>14. CASE k = 12
  BY <1>14, <1>1 DEF Shifted
<1>15. CASE k = 13
  BY <1>15, <1>1 DEF Shifted
<1>16. CASE k = 14
  BY <1>16, <1>1 DEF Shifted
<1>17. QED
  BY <1>2, <1>3, <1>4, <1>5, <1>6, <1>7, <1>8, <1>9, <1>10, <1>11, <1>12, <1>13, <1>14, <1>15, <1>16

LEMMA HalfQuotient ==
  ASSUME NEW x \in Nat, NEW k \in 0 .. 14
  PROVE  (x \div 2^k) \div 2 = x \div 2^(k + 1)
<1>1. CASE k = 0
  BY <1>1
<1>2. CASE k = 1
  BY <1>2
<1>3. CASE k = 2
  BY <1>3
<1>4. CASE k = 3
  BY <1>4
<1>5. CASE k = 4
  BY <1>5
<1>6. CASE k = 5
  BY <1>6
<1>7. CASE k = 6
  BY <1>7
<1>8. CASE k = 7
  BY <1>8
<1>9. CASE k = 8
  BY <1>9
<1>10. CASE k = 9
  BY <1>10
<1>11. CASE k = 10
  BY <1>11
<1>12. CASE k = 11
  BY <1>12
<1>13. CASE k = 12
  BY <1>13
<1>14. CASE k = 13
  BY <1>14
<1>15. CASE k = 14
  BY <1>15
<1>16. QED
  BY <1>1, <1>2, <1>3, <1>4, <1>5, <1>6, <1>7, <1>8, <1>9, <1>10, <1>11, <1>12, <1>13, <1>14, <1>15

LEMMA OctetBit ==
  ASSUME NEW d \in Octet, NEW k \in 0 .. 15
  PROVE  ((d * 256) \div 2^k) % 2 = IF k < 8 THEN 0 ELSE (d \div 2^(k - 8)) % 2
<1>1. d \in Int /\ 0 <= d /\ d <= 255
  BY OctetRange
<1>2. CASE k = 0
  BY <1>2, <1>1
<1>3. CASE k = 1
  BY <1>3, <1>1
<1>4. CASE k = 2
  BY <1>4, <1>1
<1>5. CASE k = 3
  BY <1>5, <1>1
<1>6. CASE k = 4
  BY <1>6, <1>1
<1>7. CASE k = 5
  BY <1>7, <1>1
<1>8. CASE k = 6
  BY <1>8, <1>1
<1>9. CASE k = 7
  BY <1>9, <1>1
<1>10. CASE k = 8
  BY <1>10, <1>1
<1>11. CASE k = 9
  BY <1>11, <1>1
<1>12. CASE k = 10
  BY <1>12, <1>1
<1>13. CASE k = 11
  BY <1>13, <1>1
<1>14. CASE k = 12
  BY <1>14, <1>1
<1>15. CASE k = 13
  BY <1>15, <1>1
<1>16. CASE k = 14
  BY <1>16, <1>1
<1>17. CASE k = 15
  BY <1>17, <1>1
<1>18. QED
  BY <1>2, <1>3, <1>4, <1>5, <1>6, <1>7, <1>8, <1>9, <1>10, <1>11, <1>12, <1>13, <1>14, <1>15, <1>16, <1>17

LEMMA PolynomialBit ==
  ASSUME NEW k \in 0 .. 15 PROVE (POLYNOMIAL \div 2^k) % 2 = 1 <=> k \in {0, 5, 12}
<1>1. POLYNOMIAL = 4129
  BY DEF POLYNOMIAL
<1>2. CASE k = 0
  BY <1>2, <1>1
<1>3. CASE k = 1
  BY <1>3, <1>1
<1>4. CASE k = 2
  BY <1>4, <1>1
<1>5. CASE k = 3
  BY <1>5, <1>1
<1>6. CASE k = 4
  BY <1>6, <1>1
<1>7. CASE k = 5
  BY <1>7, <1>1
<1>8. CASE k = 6
  BY <1>8, <1>1
<1>9. CASE k = 7
  BY <1>9, <1>1
<1>10. CASE k = 8
  BY <1>10, <1>1
<1>11. CASE k = 9
  BY <1>11, <1>1
<1>12. CASE k = 10
  BY <1>12, <1>1
<1>13. CASE k = 11
  BY <1>13, <1>1
<1>14. CASE k = 12
  BY <1>14, <1>1
<1>15. CASE k = 13
  BY <1>15, <1>1
<1>16. CASE k = 14
  BY <1>16, <1>1
<1>17. CASE k = 15
  BY <1>17, <1>1
<1>18. QED
  BY <1>2, <1>3, <1>4, <1>5, <1>6, <1>7, <1>8, <1>9, <1>10, <1>11, <1>12, <1>13, <1>14, <1>15, <1>16, <1>17

LEMMA SeedBit == ASSUME NEW k \in 0 .. 15 PROVE (CRC16_SEED \div 2^k) % 2 = 1
<1>1. CRC16_SEED = 65535
  BY DEF CRC16_SEED
<1>2. CASE k = 0
  BY <1>2, <1>1
<1>3. CASE k = 1
  BY <1>3, <1>1
<1>4. CASE k = 2
  BY <1>4, <1>1
<1>5. CASE k = 3
  BY <1>5, <1>1
<1>6. CASE k = 4
  BY <1>6, <1>1
<1>7. CASE k = 5
  BY <1>7, <1>1
<1>8. CASE k = 6
  BY <1>8, <1>1
<1>9. CASE k = 7
  BY <1>9, <1>1
<1>10. CASE k = 8
  BY <1>10, <1>1
<1>11. CASE k = 9
  BY <1>11, <1>1
<1>12. CASE k = 10
  BY <1>12, <1>1
<1>13. CASE k = 11
  BY <1>13, <1>1
<1>14. CASE k = 12
  BY <1>14, <1>1
<1>15. CASE k = 13
  BY <1>15, <1>1
<1>16. CASE k = 14
  BY <1>16, <1>1
<1>17. CASE k = 15
  BY <1>17, <1>1
<1>18. QED
  BY <1>2, <1>3, <1>4, <1>5, <1>6, <1>7, <1>8, <1>9, <1>10, <1>11, <1>12, <1>13, <1>14, <1>15, <1>16, <1>17

LEMMA OnesBit == ASSUME NEW k \in 0 .. 7 PROVE (255 \div 2^k) % 2 = 1
<1>1. CASE k = 0
  BY <1>1
<1>2. CASE k = 1
  BY <1>2
<1>3. CASE k = 2
  BY <1>3
<1>4. CASE k = 3
  BY <1>4
<1>5. CASE k = 4
  BY <1>5
<1>6. CASE k = 5
  BY <1>6
<1>7. CASE k = 6
  BY <1>7
<1>8. CASE k = 7
  BY <1>8
<1>9. QED
  BY <1>1, <1>2, <1>3, <1>4, <1>5, <1>6, <1>7, <1>8

LEMMA BitRange ==
  ASSUME NEW x \in Nat, NEW k \in 0 .. 15 PROVE x \div 2^k \in Nat /\ (x \div 2^k) % 2 \in {0, 1}
<1> DEFINE p == 2^k
<1>1. p \in Nat \ {0}
  <2>1. 2^15 \in Nat \ {0}
    OBVIOUS
  <2>2. CASE k = 15
    BY <2>1, <2>2
  <2>3. CASE k \in 0 .. 14
    BY <2>3, PowerStep
  <2>4. QED
    BY <2>2, <2>3
<1> HIDE DEF p
<1> DEFINE q == x \div p
<1>2. q \in Nat
  BY <1>1
<1> HIDE DEF q
<1>3. q % 2 \in {0, 1}
  BY <1>2
<1>4. QED
  BY <1>2, <1>3 DEF q, p

LEMMA ShiftedRange ==
  ASSUME NEW x \in Nat, NEW k \in 0 .. 15
  PROVE  Shifted(x, k) \in Nat /\ Shifted(x, k) % 2 \in {0, 1}
  BY ONLY BitRange, x \in Nat, k \in 0 .. 15 DEF Shifted

LEMMA ShiftedOnce ==
  ASSUME NEW x \in Nat, NEW k \in 0 .. 14 PROVE Shifted(x, k + 1) = Shifted(x, k) \div 2
  BY ONLY HalfQuotient, x \in Nat, k \in 0 .. 14 DEF Shifted

LEMMA DigitShifted ==
  ASSUME NEW x, NEW k \in 0 .. 15 PROVE k \in Digits(x) <=> Shifted(x, k) % 2 = 1
  BY DEF Digits, Shifted

\* Every digit of a number made of digits.
LEMMA DigitOfNumber ==
  ASSUME NEW width \in 1 .. 16, NEW bits, NEW i \in 0 .. width - 1
  PROVE  Shifted(Number(bits, width), i) % 2 = 1 <=> i \in bits
<1> DEFINE H == High(bits, width)
           x == Number(bits, width)
           T == {k \in Nat : k \in 0 .. width - 1 => Shifted(x, k) = H[width - k]}
<1>1. x = H[width] /\ \A n \in 1 .. width : H[n] = WithDigit(H[n - 1], bits, width, n)
  BY HighEquations
<1>2. \A n \in 0 .. width : H[n] \in Nat
  <2>1. \A n \in 1 .. width : H[n] \in 0 .. Ones[n]
    BY HighBound
  <2>2. H[0] = 0
    BY HighEquations
  <2> HIDE DEF H
  <2>3. QED
    BY <2>1, <2>2
<1>3. x \in Nat
  BY <1>1, <1>2
<1> HIDE DEF H, x
<1>4. ASSUME NEW n \in 1 .. width
      PROVE  H[n] \div 2 = H[n - 1] /\ (H[n] % 2 = 1 <=> width - n \in bits)
  <2> DEFINE h == H[n - 1]
  <2>1. h \in Nat
    BY <1>2
  <2>2. H[n] = 2 * h + (IF width - n \in bits THEN 1 ELSE 0)
    BY <1>1 DEF WithDigit
  <2> HIDE DEF h
  <2>3. /\ (2 * h) \div 2 = h /\ (2 * h + 1) \div 2 = h
        /\ (2 * h) % 2 = 0 /\ (2 * h + 1) % 2 = 1
    BY <2>1
  <2>4. 2 * h + 0 = 2 * h
    BY <2>1
  <2>5. H[n] \div 2 = h /\ (H[n] % 2 = 1 <=> width - n \in bits)
    BY <2>2, <2>3, <2>4
  <2>6. QED
    BY <2>5 DEF h
<1>5. 0 \in T
  <2>1. Shifted(x, 0) = x
    BY <1>3 DEF Shifted
  <2>2. width - 0 = width
    OBVIOUS
  <2>3. QED
    BY <1>1, <2>1, <2>2
<1>6. ASSUME NEW k \in Nat, k \in T PROVE k + 1 \in T
  <2>1. SUFFICES ASSUME k + 1 \in 0 .. width - 1 PROVE Shifted(x, k + 1) = H[width - (k + 1)]
    OBVIOUS
  <2>2. /\ k \in 0 .. 14 /\ k \in 0 .. width - 1
        /\ width - k \in 1 .. width /\ (width - k) - 1 = width - (k + 1)
    BY <2>1
  <2>3. Shifted(x, k) = H[width - k]
    BY <1>6, <2>2
  <2>4. Shifted(x, k + 1) = Shifted(x, k) \div 2
    BY <1>3, <2>2, ShiftedOnce
  <2>5. H[width - k] \div 2 = H[width - (k + 1)]
    BY <1>4, <2>2
  <2>6. QED
    BY <2>3, <2>4, <2>5
<1> HIDE DEF T
<1>7. i \in Nat /\ i \in T
  BY <1>5, <1>6, SetInduction
<1>8. width - i \in 1 .. width /\ width - (width - i) = i
  OBVIOUS
<1>9. Shifted(x, i) = H[width - i]
  BY <1>7 DEF T
<1>10. H[width - i] % 2 = 1 <=> i \in bits
  BY <1>4, <1>8
<1>11. QED
  BY <1>9, <1>10 DEF x

\* The digits of a number made of digits below sixteen.
LEMMA DigitsOfNumber ==
  ASSUME NEW bits \in SUBSET (0 .. 15) PROVE Digits(Number(bits, 16)) = bits
<1> DEFINE x == Number(bits, 16)
<1>1. \A k \in 0 .. 15 : Shifted(x, k) % 2 = 1 <=> k \in bits
  BY DigitOfNumber, 16 \in 1 .. 16, 16 - 1 = 15
<1> HIDE DEF x
<1>2. Digits(x) \in SUBSET (0 .. 15) /\ \A k \in 0 .. 15 : k \in Digits(x) <=> k \in bits
  <2>1. Digits(x) \in SUBSET (0 .. 15)
    BY DEF Digits
  <2>2. QED
    BY <1>1, <2>1, DigitShifted
<1>3. QED
  BY <1>2 DEF x

\* And the number made of the digits of a word.
LEMMA NumberOfDigits == ASSUME NEW x \in Word16 PROVE Number(Digits(x), 16) = x
<1> DEFINE bits == Digits(x)
           H == High(bits, 16)
           T == {n \in Nat : n + 1 \in 1 .. 16 => H[n + 1] = Shifted(x, 16 - (n + 1))}
<1>1. /\ Number(bits, 16) = H[16] /\ H[0] = 0
      /\ \A n \in 1 .. 16 : H[n] = WithDigit(H[n - 1], bits, 16, n)
  BY HighEquations, 16 \in Nat
<1>2. x \in Nat
  BY WordRange
<1>3. \A k \in 0 .. 15 : k \in bits <=> Shifted(x, k) % 2 = 1
  BY DigitShifted
<1> HIDE DEF H, bits
<1>4. ASSUME NEW k \in 0 .. 15 PROVE Shifted(x, k) % 2 = IF k \in bits THEN 1 ELSE 0
  <2> DEFINE b == Shifted(x, k) % 2
  <2>1. b \in {0, 1}
    BY ONLY <1>2, ShiftedRange, k \in 0 .. 15
  <2>2. k \in bits <=> b = 1
    BY <1>3
  <2> HIDE DEF b
  <2>3. b = IF k \in bits THEN 1 ELSE 0
    BY <2>1, <2>2
  <2>4. QED
    BY <2>3 DEF b
<1>5. 0 \in T
  <2>1. 0 + 1 = 1 /\ 1 \in 1 .. 16 /\ 16 - 1 = 15 /\ 1 - 1 = 0 /\ 15 \in 0 .. 15 /\ 0 \in Nat
    OBVIOUS
  <2>2. H[1] = IF 15 \in bits THEN 1 ELSE 0
    BY <1>1, <2>1 DEF WithDigit
  <2>3. Shifted(x, 15) % 2 = Shifted(x, 15)
    BY WordRange DEF Shifted
  <2>4. Shifted(x, 15) % 2 = IF 15 \in bits THEN 1 ELSE 0
    BY <1>4, <2>1
  <2>5. QED
    BY <2>1, <2>2, <2>3, <2>4
<1>6. ASSUME NEW n \in Nat, n \in T PROVE n + 1 \in T
  <2> DEFINE m == n + 1
             k == 16 - (m + 1)
  <2>1. SUFFICES ASSUME m + 1 \in 1 .. 16 PROVE H[m + 1] = Shifted(x, k)
    BY DEF T
  <2>2. /\ m \in 1 .. 16 /\ (m + 1) - 1 = m /\ k \in 0 .. 14 /\ k \in 0 .. 15
        /\ k + 1 = 16 - m
    BY <2>1
  <2>3. H[m] = Shifted(x, k + 1)
    BY <1>6, <2>2
  <2>4. H[m + 1] = WithDigit(H[m], bits, 16, m + 1)
    BY <1>1, <2>1, <2>2
  <2> DEFINE q == Shifted(x, k)
             b == IF k \in bits THEN 1 ELSE 0
  <2> HIDE DEF k
  <2>5. q \in Nat /\ q \div 2 = H[m] /\ q % 2 = b
    <3>1. q \in Nat
      BY ONLY <1>2, <2>2, ShiftedRange
    <3>2. q \div 2 = H[m]
      BY <1>2, <2>2, <2>3, ShiftedOnce
    <3>3. q % 2 = b
      BY <1>4, <2>2
    <3>4. QED
      BY <3>1, <3>2, <3>3
  <2>6. H[m + 1] = 2 * H[m] + b
    BY <2>4 DEF WithDigit, k
  <2> HIDE DEF q, b
  <2>7. q = 2 * (q \div 2) + (q % 2)
    BY <2>5
  <2>8. H[m + 1] = q
    BY <2>5, <2>6, <2>7
  <2>9. QED
    BY <2>8 DEF q
<1> HIDE DEF T
<1>7. 15 \in T
  BY <1>5, <1>6, SetInduction
<1>8. H[16] = Shifted(x, 0)
  BY <1>7, 15 + 1 = 16, 16 - 16 = 0, 16 \in 1 .. 16 DEF T
<1>9. Shifted(x, 0) = x
  BY <1>2 DEF Shifted
<1>10. QED
  BY <1>1, <1>8, <1>9 DEF bits

LEMMA WordOfDigits == ASSUME NEW x \in Word16 PROVE Word(Digits(x)) = x
  BY NumberOfDigits, WordNumber, Digits(x) \in SUBSET (0 .. 15) DEF Digits

\* ^ adds the digits modulo 2.
LEMMA XorDigits ==
  ASSUME NEW a \in Nat, NEW b \in Nat, NEW k \in 0 .. 15
  PROVE  k \in Digits(Xor16(a, b)) <=> ~(k \in Digits(a) <=> k \in Digits(b))
<1>1. Digits(Xor16(a, b)) = Differing(a, b)
  <2> DEFINE d == Differing(a, b)
  <2>1. d \in SUBSET (0 .. 15)
    BY DEF Differing
  <2>2. Xor16(a, b) = Number(d, 16)
    BY XorNumber
  <2> HIDE DEF d
  <2>3. Digits(Xor16(a, b)) = d
    BY <2>1, <2>2, DigitsOfNumber
  <2>4. QED
    BY <2>3 DEF d
<1> DEFINE p == Shifted(a, k) % 2
           q == Shifted(b, k) % 2
<1>2. p \in {0, 1} /\ q \in {0, 1}
  BY ShiftedRange
<1>3. k \in Differing(a, b) <=> p # q
  BY DEF Differing, Shifted
<1>4. (k \in Digits(a) <=> p = 1) /\ (k \in Digits(b) <=> q = 1)
  BY DigitShifted
<1> HIDE DEF p, q
<1>5. (p # q) <=> ~((p = 1) <=> (q = 1))
  BY <1>2
<1>6. QED
  BY <1>1, <1>3, <1>4, <1>5

\* The digits of a word after one turn of the inner loop.
LEMMA DoubleDigits ==
  ASSUME NEW x \in Word16, NEW k \in 0 .. 15
  PROVE  k \in Digits((x * 2) % 65536) <=> k # 0 /\ k - 1 \in Digits(x)
<1> DEFINE y == (x * 2) % 65536
<1>1. x \in Nat
  BY WordRange
<1>2. y \in Nat
  BY <1>1
<1>3. CASE k = 0
  <2>1. Shifted(y, 0) % 2 = 0
    BY <1>1 DEF Shifted
  <2>2. QED
    BY <1>3, <2>1, DigitShifted
<1>4. CASE k # 0
  <2> DEFINE j == k - 1
  <2>1. j \in 0 .. 14 /\ j \in 0 .. 15 /\ j + 1 = k
    BY <1>4
  <2> HIDE DEF j
  <2>2. Shifted(y, j + 1) % 2 = Shifted(x, j) % 2
    BY <2>1, DoubleBit
  <2>3. k \in Digits(y) <=> Shifted(y, k) % 2 = 1
    BY DigitShifted
  <2>4. j \in Digits(x) <=> Shifted(x, j) % 2 = 1
    BY <2>1, DigitShifted
  <2>5. k \in Digits(y) <=> j \in Digits(x)
    BY <2>1, <2>2, <2>3, <2>4
  <2>6. QED
    BY <1>4, <2>5 DEF j
<1>5. QED
  BY <1>3, <1>4

LEMMA TopDigit == ASSUME NEW x \in Word16 PROVE x \div 32768 = 1 <=> 15 \in Digits(x)
<1>1. x \in Int /\ 0 <= x /\ x <= 65535
  BY WordRange
<1>2. Shifted(x, 15) = x \div 32768
  BY <1>1 DEF Shifted
<1>3. (x \div 32768) % 2 = 1 <=> x \div 32768 = 1
  BY <1>1
<1>4. QED
  BY <1>2, <1>3, DigitShifted, 15 \in 0 .. 15

LEMMA PolynomialDigits ==
  ASSUME NEW k \in 0 .. 15 PROVE k \in Digits(POLYNOMIAL) <=> k \in {0, 5, 12}
  BY PolynomialBit DEF Digits

LEMMA ShiftDigits ==
  ASSUME NEW crc \in Word16, NEW k \in 0 .. 15
  PROVE  k \in Digits(Shift(crc)) <=>
           ~((k # 0 /\ k - 1 \in Digits(crc)) <=> (15 \in Digits(crc) /\ k \in {0, 5, 12}))
<1> DEFINE y == (crc * 2) % 65536
<1>1. crc \in Nat
  BY WordRange
<1>2. y \in Nat /\ POLYNOMIAL \in Nat
  BY <1>1 DEF POLYNOMIAL
<1>3. k \in Digits(y) <=> k # 0 /\ k - 1 \in Digits(crc)
  BY DoubleDigits
<1>4. Shift(crc) = IF 15 \in Digits(crc) THEN Xor16(y, POLYNOMIAL) ELSE y
  BY TopDigit DEF Shift
<1> HIDE DEF y
<1>5. k \in Digits(Xor16(y, POLYNOMIAL)) <=> ~(k \in Digits(y) <=> k \in {0, 5, 12})
  BY ONLY <1>2, XorDigits, PolynomialDigits, k \in 0 .. 15
<1>6. CASE 15 \in Digits(crc)
  BY <1>3, <1>4, <1>5, <1>6
<1>7. CASE 15 \notin Digits(crc)
  BY <1>3, <1>4, <1>7
<1>8. QED
  BY <1>6, <1>7

LEMMA OctetDigits ==
  ASSUME NEW d \in Octet, NEW k \in 0 .. 15
  PROVE  k \in Digits(d * 256) <=> k >= 8 /\ (d \div 2^(k - 8)) % 2 = 1
<1> DEFINE b == (d \div 2^(k - 8)) % 2
           y == d * 256
<1>1. Shifted(y, k) % 2 = IF k < 8 THEN 0 ELSE b
  BY OctetBit DEF Shifted
<1>2. k \in Digits(y) <=> Shifted(y, k) % 2 = 1
  BY DigitShifted
<1> HIDE DEF b, y
<1>3. k \in Digits(y) <=> k >= 8 /\ b = 1
  BY <1>1, <1>2
<1>4. QED
  BY <1>3 DEF b, y

\* The digits of a word are those of its two octets.
LEMMA LowDigit ==
  ASSUME NEW a \in Nat, NEW b \in Nat, NEW k \in 0 .. 7
  PROVE  Shifted(a * 256 + b, k) % 2 = Shifted(b, k) % 2
<1>2. CASE k = 0
  BY <1>2 DEF Shifted
<1>3. CASE k = 1
  BY <1>3 DEF Shifted
<1>4. CASE k = 2
  BY <1>4 DEF Shifted
<1>5. CASE k = 3
  BY <1>5 DEF Shifted
<1>6. CASE k = 4
  BY <1>6 DEF Shifted
<1>7. CASE k = 5
  BY <1>7 DEF Shifted
<1>8. CASE k = 6
  <2> DEFINE q == b \div 64
  <2>1. q \in Nat /\ (a * 256 + b) \div 64 = 4 * a + q
    OBVIOUS
  <2> HIDE DEF q
  <2>2. (4 * a + q) % 2 = q % 2
    BY <2>1
  <2>3. 2^k = 64
    BY <1>8 DEF Shifted
  <2>4. QED
    BY <2>1, <2>2, <2>3 DEF q, Shifted
<1>9. CASE k = 7
  BY <1>9 DEF Shifted
<1>10. QED
  BY <1>2, <1>3, <1>4, <1>5, <1>6, <1>7, <1>8, <1>9

\* Digit e of the word w with octets a and b is digit k of a.
HighOf(w, e, a, b, k) == w = a * 256 + b /\ e = k + 8

LEMMA HighDigit ==
  ASSUME NEW a \in Nat, NEW b \in Octet, NEW k \in 0 .. 7, NEW w, NEW e, HighOf(w, e, a, b, k)
  PROVE  Shifted(w, e) % 2 = Shifted(a, k) % 2
<1>1. b \in Nat /\ b <= 255
  BY OctetRange
<1> w = a * 256 + b /\ e = k + 8
  BY DEF HighOf
<1>2. CASE k = 0
  BY <1>1, <1>2 DEF Shifted
<1>3. CASE k = 1
  BY <1>1, <1>3 DEF Shifted
<1>4. CASE k = 2
  BY <1>1, <1>4 DEF Shifted
<1>5. CASE k = 3
  BY <1>1, <1>5 DEF Shifted
<1>6. CASE k = 4
  BY <1>1, <1>6 DEF Shifted
<1>7. CASE k = 5
  BY <1>1, <1>7 DEF Shifted
<1>8. CASE k = 6
  BY <1>1, <1>8 DEF Shifted
<1>9. CASE k = 7
  BY <1>1, <1>9 DEF Shifted
<1>10. QED
  BY <1>2, <1>3, <1>4, <1>5, <1>6, <1>7, <1>8, <1>9

-----------------------------------------------------------------------------
(* Division by the generator.  The dividend left while a register is       *)
(* shifted is the register, times a power of x, plus the data to come.     *)

\* The register crc times x^m plus the polynomial rest.
Held(crc, m, rest) == {e \in Nat : ~(e - m \in Digits(crc) <=> e \in rest)}

LEMMA HeldRange ==
  ASSUME NEW crc, NEW n \in Nat, NEW m \in 0 .. n, NEW rest \in SUBSET (0 .. m + 15)
  PROVE  Held(crc, m, rest) \in SUBSET (0 .. 15 + n)
<1>1. ASSUME NEW e \in Held(crc, m, rest) PROVE e \in 0 .. 15 + n
  <2>1. e \in Nat /\ (e - m \in Digits(crc) \/ e \in rest)
    BY DEF Held
  <2>2. e - m \in Digits(crc) => e - m \in 0 .. 15
    BY DEF Digits
  <2>3. QED
    BY <2>1, <2>2
<1>2. QED
  BY <1>1

\* One step of the division is one turn of the inner loop.
LEMMA DivideStep ==
  ASSUME NEW crc \in Word16, NEW n \in Nat, NEW m \in 1 .. n,
         NEW rest \in SUBSET (0 .. m + 14)
  PROVE  Divided(m - 1, n)[Held(crc, m, rest)] = Held(Shift(crc), m - 1, rest)
<1> DEFINE p == Held(crc, m, rest)
           q == Held(Shift(crc), m - 1, rest)
           top == 15 \in Digits(crc)
           after == IF (m - 1) + 16 \in p THEN Plus(p, Generator(m - 1)) ELSE p
<1>1. p \in SUBSET (0 .. 15 + n)
  BY HeldRange
<1>2. Divided(m - 1, n)[p] = after
  BY <1>1 DEF Divided
<1>3. \A e : e \in p <=> e \in Nat /\ ~(e - m \in Digits(crc) <=> e \in rest)
  BY DEF Held
<1>4. \A e : e \in q <=> e \in Nat /\ ~(e - (m - 1) \in Digits(Shift(crc)) <=> e \in rest)
  BY DEF Held
<1>5. Digits(crc) \subseteq 0 .. 15 /\ Digits(Shift(crc)) \subseteq 0 .. 15
  BY DEF Digits
<1>6. \A e : e \in Generator(m - 1) <=> e \in {m + 15, m + 11, m + 4, m - 1}
  BY DEF Generator
<1> HIDE DEF p, q
<1>7. (m - 1) + 16 = m + 15 /\ (m + 15 \in p <=> top)
  <2>1. (m + 15) - m = 15 /\ m + 15 \in Nat /\ m + 15 \notin rest /\ (m - 1) + 16 = m + 15
    OBVIOUS
  <2>2. QED
    BY <1>3, <2>1
<1>8. ASSUME NEW e \in Nat PROVE e \in after <=> e \in q
  <2> DEFINE k == e - (m - 1)
             low == k # 0 /\ k - 1 \in Digits(crc)
  <2>1. k \in Int /\ e - m = k - 1
    OBVIOUS
  <2>2. e \in Generator(m - 1) <=> k \in {16, 12, 5, 0}
    BY <1>6
  <2>3. e \in after <=> ~(e \in p <=> (top /\ k \in {16, 12, 5, 0}))
    BY <1>7, <2>2 DEF Plus
  <2>4. (e \in p <=> ~(k - 1 \in Digits(crc) <=> e \in rest))
        /\ (e \in q <=> ~(k \in Digits(Shift(crc)) <=> e \in rest))
    BY <1>3, <1>4, <2>1
  <2>5. k = 16 => e \notin rest /\ k - 1 = 15
    OBVIOUS
  <2> HIDE DEF k, after
  <2>6. CASE k \in 0 .. 15
    <3>1. k \in Digits(Shift(crc)) <=> ~(low <=> (top /\ k \in {0, 5, 12}))
      BY <2>6, ShiftDigits
    <3>2. k = 0 => k - 1 \notin Digits(crc)
      BY <1>5
    <3>3. k \in {16, 12, 5, 0} <=> k \in {0, 5, 12}
      BY <2>6
    <3>4. low <=> k - 1 \in Digits(crc)
      BY <3>2
    <3> HIDE DEF top, low
    <3>5. QED
      BY <2>3, <2>4, <3>1, <3>3, <3>4
  <2>7. CASE k = 16
    <3>1. k \notin Digits(Shift(crc))
      BY <1>5, <2>7
    <3>2. QED
      BY <2>3, <2>4, <2>5, <2>7, <3>1
  <2>8. CASE k \notin 0 .. 16
    <3>1. k \notin Digits(Shift(crc)) /\ k - 1 \notin Digits(crc) /\ k \notin {16, 12, 5, 0}
      BY <1>5, <2>1, <2>8
    <3>2. QED
      BY <2>3, <2>4, <3>1
  <2>9. QED
    BY <2>1, <2>6, <2>7, <2>8
<1>9. p \subseteq Nat /\ q \subseteq Nat /\ Generator(m - 1) \subseteq Nat
  BY <1>3, <1>4, <1>6
<1>10. after \subseteq Nat
  BY <1>9 DEF Plus
<1> HIDE DEF after
<1>11. after = q
  BY <1>8, <1>9, <1>10
<1>12. QED
  BY <1>2, <1>11 DEF p, q

\* f lists what is left of p after each step of its division.
IsDivision(f, p, n) ==
  /\ f[0] = p /\ f[n] = Remainder(p, n)
  /\ \A j \in 1 .. n : f[j] = Divided(n - j, n)[f[j - 1]]

LEMMA DivisionExists == ASSUME NEW p, NEW n \in Nat PROVE \E f : IsDivision(f, p, n)
<1> DEFINE g == [j \in 1 .. n |-> Divided(n - j, n)]
           Body(f) == f = [j \in 0 .. n |-> IF j = 0 THEN p ELSE Divided(n - j, n)[f[j - 1]]]
           R == CHOOSE f : Body(f)
<1>1. PICK f : IsSteps(f, p, g, n)
  BY StepsExist
<1>2. \A j \in 0 .. n : j # 0 => j \in 1 .. n /\ g[j] = Divided(n - j, n)
  OBVIOUS
<1>3. Remainder(p, n) = R[n]
  BY DEF Remainder
<1>4. 0 \in 0 .. n /\ \A j \in 1 .. n : j \in 0 .. n /\ j # 0
  OBVIOUS
<1> HIDE DEF g
<1>5. Body(f)
  BY <1>1, <1>2 DEF IsSteps
<1>6. Body(R)
  BY <1>5
<1> HIDE DEF R
<1>7. R[0] = p /\ \A j \in 1 .. n : R[j] = Divided(n - j, n)[R[j - 1]]
  BY <1>4, <1>6
<1>8. IsDivision(R, p, n)
  BY <1>3, <1>7 DEF IsDivision
<1>9. QED
  BY <1>8

LEMMA OneStep ==
  ASSUME NEW f, NEW p, NEW n \in Nat, IsDivision(f, p, n),
         NEW crc \in Word16, NEW j \in 0 .. n - 1, NEW rest \in SUBSET (0 .. (n - j) + 14),
         f[j] = Held(crc, n - j, rest)
  PROVE  f[j + 1] = Held(Shift(crc), n - (j + 1), rest) /\ Shift(crc) \in Word16
<1> DEFINE m == n - j
<1>1. m \in 1 .. n /\ n - (j + 1) = m - 1 /\ j + 1 \in 1 .. n /\ (j + 1) - 1 = j
  OBVIOUS
<1>2. rest \in SUBSET (0 .. m + 14) /\ f[j] = Held(crc, m, rest)
  OBVIOUS
<1> HIDE DEF m
<1>3. f[j + 1] = Divided(m - 1, n)[f[j]]
  BY <1>1 DEF IsDivision
<1>4. Divided(m - 1, n)[Held(crc, m, rest)] = Held(Shift(crc), m - 1, rest)
  BY <1>1, <1>2, DivideStep
<1>5. QED
  BY <1>1, <1>2, <1>3, <1>4, ShiftWord

LEMMA FourSteps ==
  ASSUME NEW f, NEW p, NEW n \in Nat, IsDivision(f, p, n),
         NEW crc \in Word16, NEW j \in 0 .. n - 4, NEW rest \in SUBSET (0 .. (n - j) + 11),
         f[j] = Held(crc, n - j, rest)
  PROVE  f[j + 4] = Held(FourShifts(crc), n - (j + 4), rest) /\ FourShifts(crc) \in Word16
<1> DEFINE c1 == Shift(crc)
           c2 == Shift(c1)
           c3 == Shift(c2)
           c4 == Shift(c3)
           j1 == j + 1
           j2 == j1 + 1
           j3 == j2 + 1
<1>1. /\ j \in 0 .. n - 1 /\ j1 \in 0 .. n - 1 /\ j2 \in 0 .. n - 1 /\ j3 \in 0 .. n - 1
      /\ j3 + 1 = j + 4
  OBVIOUS
<1>2. /\ rest \in SUBSET (0 .. (n - j) + 14) /\ rest \in SUBSET (0 .. (n - j1) + 14)
      /\ rest \in SUBSET (0 .. (n - j2) + 14) /\ rest \in SUBSET (0 .. (n - j3) + 14)
  OBVIOUS
<1>3. FourShifts(crc) = c4
  BY DEF FourShifts
<1>4. f[j1] = Held(c1, n - j1, rest) /\ c1 \in Word16
  BY <1>1, <1>2, OneStep
<1> HIDE DEF c1, j1
<1>5. f[j2] = Held(c2, n - j2, rest) /\ c2 \in Word16
  BY <1>1, <1>2, <1>4, OneStep
<1> HIDE DEF c2, j2
<1>6. f[j3] = Held(c3, n - j3, rest) /\ c3 \in Word16
  BY <1>1, <1>2, <1>5, OneStep
<1> HIDE DEF c3, j3
<1>7. f[j3 + 1] = Held(c4, n - (j3 + 1), rest) /\ c4 \in Word16
  BY <1>1, <1>2, <1>6, OneStep
<1> HIDE DEF c4
<1>8. QED
  BY <1>1, <1>3, <1>7

\* Eight steps of the division are the inner loop, while the data to come is below
\* the register.
LEMMA InnerLoop ==
  ASSUME NEW f, NEW p, NEW n \in Nat, IsDivision(f, p, n),
         NEW crc \in Word16, NEW j \in 0 .. n - 8, NEW rest \in SUBSET (0 .. (n - j) + 7),
         f[j] = Held(crc, n - j, rest)
  PROVE  f[j + 8] = Held(EightShifts[crc], n - (j + 8), rest)
<1> DEFINE c == FourShifts(crc)
           i == j + 4
<1>1. /\ j \in 0 .. n - 4 /\ i \in 0 .. n - 4 /\ i + 4 = j + 8
      /\ rest \in SUBSET (0 .. (n - j) + 11) /\ rest \in SUBSET (0 .. (n - i) + 11)
  OBVIOUS
<1>2. f[i] = Held(c, n - i, rest) /\ c \in Word16
  BY <1>1, FourSteps
<1>3. EightShifts[crc] = FourShifts(c)
  BY DEF EightShifts
<1> HIDE DEF c, i
<1>4. f[i + 4] = Held(FourShifts(c), n - (i + 4), rest)
  BY <1>1, <1>2, FourSteps
<1>5. QED
  BY <1>1, <1>3, <1>4

\* The terms of rest are those of later and, above them, the eight of octet.
Heads(octet, m, rest, later) ==
  /\ later \in SUBSET (0 .. m + 7)
  /\ \A e \in Nat : e \in rest <=>
       e \in later \/ (e - m \in 8 .. 15 /\ (octet \div 2^((e - m) - 8)) % 2 = 1)

\* Those eight terms meet the upper half of the register.
LEMMA OctetEnters ==
  ASSUME NEW crc \in Word16, NEW octet \in Octet, NEW m \in Nat, NEW rest, NEW later,
         Heads(octet, m, rest, later)
  PROVE  Held(crc, m, rest) = Held(Xor16(crc, octet * 256), m, later)
<1> DEFINE w == octet * 256
           x == Xor16(crc, w)
<1>1. crc \in Nat /\ w \in Nat
  BY WordRange, OctetRange
<1>2. ASSUME NEW e \in Nat
      PROVE  ~(e - m \in Digits(crc) <=> e \in rest) <=> ~(e - m \in Digits(x) <=> e \in later)
  <2> DEFINE k == e - m
             bit == (octet \div 2^(k - 8)) % 2 = 1
  <2>1. k \in Int /\ (e \in later => k < 8)
    BY DEF Heads
  <2>2. e \in rest <=> e \in later \/ (k \in 8 .. 15 /\ bit)
    BY DEF Heads
  <2>3. \A i \in 0 .. 15 : i \in Digits(w) <=> i >= 8 /\ (octet \div 2^(i - 8)) % 2 = 1
    BY OctetDigits
  <2>4. Digits(x) \subseteq 0 .. 15 /\ Digits(crc) \subseteq 0 .. 15
    BY DEF Digits
  <2> HIDE DEF w
  <2>5. \A i \in 0 .. 15 : i \in Digits(x) <=> ~(i \in Digits(crc) <=> i \in Digits(w))
    BY <1>1, XorDigits
  <2> HIDE DEF x, k
  <2>6. CASE k \in 0 .. 15
    <3>1. k \in Digits(w) <=> k >= 8 /\ bit
      BY <2>3, <2>6
    <3>2. k \in Digits(x) <=> ~(k \in Digits(crc) <=> k \in Digits(w))
      BY <2>5, <2>6
    <3>3. k \in 8 .. 15 <=> k >= 8
      BY <2>6
    <3> HIDE DEF bit
    <3>4. ~(k \in Digits(crc) <=> e \in rest) <=> ~(k \in Digits(x) <=> e \in later)
      BY <2>1, <2>2, <3>1, <3>2, <3>3
    <3>5. QED
      BY <3>4 DEF k
  <2>7. CASE k \notin 0 .. 15
    <3>1. k \notin Digits(x) /\ k \notin Digits(crc) /\ k \notin 8 .. 15
      BY <2>1, <2>4, <2>7
    <3>2. e \in rest <=> e \in later
      BY <2>2, <3>1
    <3>3. QED
      BY <3>1, <3>2 DEF k
  <2>8. QED
    BY <2>6, <2>7
<1>3. QED
  BY <1>2 DEF Held

\* The terms of the data that the first i octets do not account for.
Later(data, i) == {e \in Polynomial(data, 16) : e < 16 + 8 * (Len(data) - i)}

LEMMA DataTerm ==
  ASSUME NEW data \in Seq(Octet), NEW e
  PROVE  e \in Polynomial(data, 16) <=>
           /\ e \in Nat /\ e >= 16 /\ e < 16 + 8 * Len(data)
           /\ (data[Len(data) - (e - 16) \div 8] \div 2^((e - 16) % 8)) % 2 = 1
<1> DEFINE P(k) == (data[Len(data) - k \div 8] \div 2^(k % 8)) % 2 = 1
<1>1. Len(data) \in Nat
  OBVIOUS
<1>2. e \in Polynomial(data, 16) <=> \E k \in 0 .. 8 * Len(data) - 1 : P(k) /\ e = 16 + k
  BY DEF Polynomial
<1> HIDE DEF P
<1>3. e \in Polynomial(data, 16) <=> e \in Nat /\ e >= 16 /\ e < 16 + 8 * Len(data) /\ P(e - 16)
  <2>1. ASSUME NEW k \in 0 .. 8 * Len(data) - 1, P(k), e = 16 + k
        PROVE  e \in Nat /\ e >= 16 /\ e < 16 + 8 * Len(data) /\ P(e - 16)
    <3>1. e - 16 = k
      BY <2>1
    <3>2. QED
      BY <1>1, <2>1, <3>1
  <2>2. ASSUME e \in Nat, e >= 16, e < 16 + 8 * Len(data), P(e - 16)
        PROVE  \E k \in 0 .. 8 * Len(data) - 1 : P(k) /\ e = 16 + k
    <3> DEFINE k == e - 16
    <3>1. k \in 0 .. 8 * Len(data) - 1 /\ e = 16 + k
      BY <1>1, <2>2
    <3>2. P(k)
      BY <2>2
    <3> HIDE DEF k
    <3>3. QED
      BY <3>1, <3>2
  <2>3. QED
    BY <1>2, <2>1, <2>2
<1>4. QED
  BY <1>3 DEF P

LEMMA NextOctet ==
  ASSUME NEW data \in Seq(Octet), NEW i \in 0 .. Len(data) - 1, NEW m, m = 8 * (Len(data) - i)
  PROVE  Heads(data[i + 1], m, Later(data, i), Later(data, i + 1))
<1> DEFINE L == Len(data)
           bit(e) == (data[L - (e - 16) \div 8] \div 2^((e - 16) % 8)) % 2 = 1
<1>1. L \in Nat
  OBVIOUS
<1>2. \A e : e \in Polynomial(data, 16) <=> e \in Nat /\ e >= 16 /\ e < 16 + 8 * L /\ bit(e)
  BY DataTerm
<1>3. /\ \A e : e \in Later(data, i) <=> e \in Polynomial(data, 16) /\ e < 16 + m
      /\ \A e : e \in Later(data, i + 1) <=> e \in Polynomial(data, 16) /\ e < 8 + m
  <2>1. 16 + 8 * (L - (i + 1)) = 8 + m
    BY <1>1
  <2>2. QED
    BY <2>1 DEF Later
<1>4. m \in Nat /\ m <= 8 * L
  BY <1>1
<1>5. ASSUME NEW e \in Nat, e - m \in 8 .. 15
      PROVE  bit(e) <=> (data[i + 1] \div 2^((e - m) - 8)) % 2 = 1
  <2> DEFINE k == e - 16
             b == (e - m) - 8
             r == L - i - 1
  <2>1. r \in Nat /\ b \in 0 .. 7 /\ k = 8 * r + b /\ L - r = i + 1
    BY <1>1, <1>5
  <2> HIDE DEF k, b, r
  <2>2. k \div 8 = r /\ k % 8 = b
    BY <2>1
  <2>3. QED
    BY <2>1, <2>2 DEF k, b
<1> HIDE DEF bit, L
<1>6. Later(data, i + 1) \in SUBSET (0 .. m + 7)
  BY <1>2, <1>3, <1>4
<1>7. ASSUME NEW e \in Nat
      PROVE  e \in Later(data, i) <=>
               \/ e \in Later(data, i + 1)
               \/ e - m \in 8 .. 15 /\ (data[i + 1] \div 2^((e - m) - 8)) % 2 = 1
  <2>1. CASE e - m \in 8 .. 15
    <3>1. e >= 8 + m /\ e < 16 + m
      BY <1>4, <2>1
    <3>2. e \notin Later(data, i + 1)
      BY <1>3, <1>4, <3>1
    <3>3. e >= 16 /\ e < 16 + 8 * L
      <4>1. m >= 8
        BY <1>1 DEF L
      <4>2. QED
        BY <1>1, <1>4, <3>1, <4>1
    <3>4. e \in Later(data, i) <=> bit(e)
      BY <1>2, <1>3, <3>1, <3>3
    <3>5. QED
      BY <1>5, <2>1, <3>2, <3>4
  <2>2. CASE e - m \notin 8 .. 15
    <3>1. e < 16 + m <=> e < 8 + m
      BY <1>4, <2>2
    <3>2. QED
      BY <1>3, <2>2, <3>1
  <2>3. QED
    BY <2>1, <2>2
<1>8. QED
  BY <1>6, <1>7 DEF Heads

\* The seed inverts the sixteen highest terms: the register before the first octet.
LEMMA SeedTerms ==
  ASSUME NEW n \in Nat, NEW e
  PROVE  e \in Polynomial(<<255, 255>>, n) <=> e \in Nat /\ e - n \in 0 .. 15
<1> DEFINE o == <<255, 255>>
           B(k) == (o[Len(o) - k \div 8] \div 2^(k % 8)) % 2 = 1
<1>1. Len(o) = 2 /\ o[1] = 255 /\ o[2] = 255
  OBVIOUS
<1>2. e \in Polynomial(o, n) <=> \E k \in 0 .. 8 * Len(o) - 1 : B(k) /\ e = n + k
  BY DEF Polynomial
<1> HIDE DEF o
<1>3. ASSUME NEW k \in 0 .. 15 PROVE B(k)
  <2> DEFINE r == k \div 8
             b == k % 8
  <2>1. (r = 0 \/ r = 1) /\ b \in 0 .. 7
    OBVIOUS
  <2> HIDE DEF r, b
  <2>2. o[Len(o) - r] = 255
    BY <1>1, <2>1
  <2>3. (255 \div 2^b) % 2 = 1
    BY ONLY <2>1, OnesBit
  <2>4. (o[Len(o) - r] \div 2^b) % 2 = 1
    BY ONLY <2>2, <2>3
  <2>5. QED
    BY <2>4 DEF r, b
<1> HIDE DEF B
<1>4. 8 * Len(o) - 1 = 15
  BY <1>1
<1>5. e \in Polynomial(o, n) <=> \E k \in 0 .. 15 : e = n + k
  BY <1>2, <1>3, <1>4
<1>6. (\E k \in 0 .. 15 : e = n + k) <=> e \in Nat /\ e - n \in 0 .. 15
  <2>1. ASSUME NEW k \in 0 .. 15, e = n + k PROVE e \in Nat /\ e - n \in 0 .. 15
    BY <2>1
  <2>2. ASSUME e \in Nat, e - n \in 0 .. 15 PROVE \E k \in 0 .. 15 : e = n + k
    <3> DEFINE k == e - n
    <3>1. e = n + k /\ k \in 0 .. 15
      BY <2>2
    <3> HIDE DEF k
    <3>2. QED
      BY <3>1
  <2>3. QED
    BY <2>1, <2>2
<1>7. QED
  BY <1>5, <1>6 DEF o

LEMMA Dividend ==
  ASSUME NEW data \in Seq(Octet), NEW n, n = 8 * Len(data)
  PROVE  Plus(Polynomial(data, 16), Polynomial(<<255, 255>>, n))
           = Held(CRC16_SEED, n, Later(data, 0))
<1> DEFINE P == Polynomial(data, 16)
           S == Polynomial(<<255, 255>>, n)
           later == Later(data, 0)
           seed == Digits(CRC16_SEED)
<1>1. n \in Nat /\ 8 * (Len(data) - 0) = n
  OBVIOUS
<1>2. \A e : e \in S <=> e \in Nat /\ e - n \in 0 .. 15
  BY <1>1, SeedTerms
<1>3. \A e : e \in P => e \in Nat /\ e < 16 + n
  BY DataTerm
<1>4. later = P
  BY <1>1, <1>3 DEF Later
<1>5. seed = 0 .. 15
  BY SeedBit DEF Digits
<1> HIDE DEF P, S, later, seed
<1>6. \A e : e \in Plus(P, S) <=> ~(e \in P <=> e \in S)
  BY DEF Plus
<1>7. \A e : e \in Plus(P, S) <=> e \in Nat /\ ~(e - n \in 0 .. 15 <=> e \in P)
  BY <1>2, <1>3, <1>6
<1>8. Plus(P, S) = {e \in Nat : ~(e - n \in seed <=> e \in later)}
  BY <1>4, <1>5, <1>7
<1>9. QED
  BY <1>8 DEF Held, P, S, later, seed

\* After i octets the division has come to the register and the data not yet read.
LEMMA DivisionFollows ==
  ASSUME NEW data \in Seq(Octet), NEW f, NEW p, NEW n, n = 8 * Len(data), IsDivision(f, p, n),
         p = Held(CRC16_SEED, n, Later(data, 0))
  PROVE  f[n] = Held(crc16_ccitt(data), 0, Later(data, Len(data)))
<1> DEFINE L == Len(data)
           R == Registers(data)
           T == {i \in Nat : i \in 0 .. L => f[8 * i] = Held(R[i], n - 8 * i, Later(data, i))}
<1>1. L \in Nat /\ n = 8 * L /\ n \in Nat
  OBVIOUS
<1>2. /\ R[0] = CRC16_SEED /\ \A i \in 1 .. L : R[i] = Turn(data[i])[R[i - 1]]
      /\ \A i \in 0 .. L : R[i] \in Word16
  BY <1>1, RegisterStep, RegisterWord
<1>3. \A i \in 1 .. L : data[i] \in Octet
  OBVIOUS
<1>4. R[L] = crc16_ccitt(data)
  BY DEF crc16_ccitt
<1>5. f[0] = p
  BY DEF IsDivision
<1>6. \A i \in 0 .. L - 1 : \A m : m = 8 * (L - i) =>
        Heads(data[i + 1], m, Later(data, i), Later(data, i + 1))
  BY NextOctet
<1> HIDE DEF L, R
<1>7. 0 \in T
  BY <1>1, <1>2, <1>5, 8 * 0 = 0, n - 0 = n
<1>8. ASSUME NEW i \in Nat, i \in T PROVE i + 1 \in T
  <2>1. SUFFICES ASSUME i + 1 \in 0 .. L
                 PROVE  f[8 * (i + 1)] = Held(R[i + 1], n - 8 * (i + 1), Later(data, i + 1))
    OBVIOUS
  <2> DEFINE j == 8 * i
             m == n - j
             crc == R[i]
             d == data[i + 1]
             x == Xor16(crc, d * 256)
             rest == Later(data, i)
             later == Later(data, i + 1)
  <2>2. i \in 0 .. L - 1 /\ i \in 0 .. L /\ i + 1 \in 1 .. L /\ (i + 1) - 1 = i
    BY <1>1, <2>1
  <2>3. /\ j \in 0 .. n - 8 /\ m \in Nat /\ m = 8 * (L - i)
        /\ j + 8 = 8 * (i + 1)
    BY <1>1, <2>2
  <2>4. crc \in Word16 /\ d \in Octet
    BY <1>2, <1>3, <2>2
  <2>5. f[j] = Held(crc, m, rest)
    BY <1>8, <2>2
  <2>6. Heads(d, m, rest, later) /\ later \in SUBSET (0 .. m + 7)
    BY <1>6, <2>2, <2>3 DEF Heads
  <2>7. R[i + 1] = Turn(d)[crc]
    BY <1>2, <2>2
  <2>8. m = n - j
    OBVIOUS
  <2> HIDE DEF crc, d, rest, later, m
  <2>9. Held(crc, m, rest) = Held(x, m, later)
    BY <2>3, <2>4, <2>6, OctetEnters
  <2>10. Turn(d)[crc] = EightShifts[x] /\ x \in Word16
    BY <2>4, XorWord DEF Turn
  <2> HIDE DEF x, j
  <2>11. later \in SUBSET (0 .. (n - j) + 7) /\ f[j] = Held(x, n - j, later)
    BY <2>5, <2>6, <2>8, <2>9
  <2>12. f[j + 8] = Held(EightShifts[x], n - (j + 8), later)
    <3>1. n \in Nat /\ j \in 0 .. n - 8 /\ x \in Word16
      BY ONLY <1>1, <2>3, <2>10
    <3>2. QED
      BY ONLY <2>11, <3>1, IsDivision(f, p, n), InnerLoop
  <2>13. QED
    BY <2>3, <2>7, <2>10, <2>12 DEF later
<1> HIDE DEF T
<1>9. L \in T
  BY <1>1, <1>7, <1>8, SetInduction
<1>10. f[8 * L] = Held(R[L], n - 8 * L, Later(data, L))
  BY <1>1, <1>9 DEF T
<1>11. QED
  BY <1>1, <1>4, <1>10 DEF L

\* The division that defines the checksum leaves the digits of the register.
LEMMA CrcDivided ==
  ASSUME NEW data \in Seq(Octet), NEW n, n = 8 * Len(data), NEW p,
         p = Plus(Polynomial(data, 16), Polynomial(<<255, 255>>, n)), NEW f, IsDivision(f, p, n)
  PROVE  f[n] = Digits(crc16_ccitt(data))
<1> DEFINE crc == crc16_ccitt(data)
           none == Later(data, Len(data))
<1>1. none = {}
  <2>1. 16 + 8 * (Len(data) - Len(data)) = 16
    OBVIOUS
  <2>2. \A e \in Polynomial(data, 16) : e \in Nat /\ e >= 16
    BY DataTerm
  <2>3. QED
    BY <2>1, <2>2 DEF Later
<1>2. p = Held(CRC16_SEED, n, Later(data, 0))
  BY Dividend
<1>3. f[n] = Held(crc, 0, none)
  BY <1>2, DivisionFollows
<1>4. Held(crc, 0, {}) = Digits(crc)
  <2>1. Digits(crc) \subseteq 0 .. 15
    BY DEF Digits
  <2>2. \A e \in Nat : e - 0 = e
    OBVIOUS
  <2>3. QED
    BY <2>1, <2>2 DEF Held
<1>5. QED
  BY <1>1, <1>3, <1>4

\* The register of crc16_ccitt is the remainder the standard defines.
LEMMA CrcByDivision == ASSUME NEW data \in Seq(Octet) PROVE crc16_ccitt(data) = CrcReference(data)
<1> DEFINE n == 8 * Len(data)
           p == Plus(Polynomial(data, 16), Polynomial(<<255, 255>>, n))
           crc == crc16_ccitt(data)
<1>1. n \in Nat
  OBVIOUS
<1>2. crc \in Word16
  BY CrcWord
<1>3. CrcReference(data) = Word(Remainder(p, n))
  BY DEF CrcReference
<1> HIDE DEF p
<1>4. PICK f : IsDivision(f, p, n)
  BY <1>1, DivisionExists
<1>5. f[n] = Digits(crc)
  BY <1>4, CrcDivided DEF p
<1>6. Remainder(p, n) = Digits(crc)
  BY <1>4, <1>5 DEF IsDivision
<1>7. Word(Digits(crc)) = crc
  BY <1>2, WordOfDigits
<1>8. QED
  BY <1>3, <1>6, <1>7 DEF crc

-----------------------------------------------------------------------------
(* Noise on a packet as a polynomial: its terms are the bits it inverts.  *)

\* The bit of weight x^e in a sequence of octets, of which the last has the lowest.
BitAt(octs, e) == Shifted(octs[Len(octs) - e \div 8], e % 8) % 2 = 1

LEMMA BitPlace ==
  ASSUME NEW L \in Nat, NEW e \in 0 .. 8 * L - 1
  PROVE  /\ e \div 8 \in Nat /\ e % 8 \in 0 .. 7 /\ e = 8 * (e \div 8) + (e % 8)
         /\ L - e \div 8 \in 1 .. L
<1> DEFINE q == e \div 8
           r == e % 8
<1>1. q \in Int /\ r \in 0 .. 7 /\ e = 8 * q + r
  OBVIOUS
<1> HIDE DEF q, r
<1>2. q \in Nat /\ L - q \in 1 .. L
  BY <1>1
<1>3. QED
  BY <1>1, <1>2 DEF q, r

\* The checksum's digits are the packet's lowest sixteen ...
LEMMA ChecksumBit ==
  ASSUME NEW octs \in Seq(Octet), 2 <= Len(octs), NEW e \in 0 .. 15
  PROVE  e \in Digits(pus_get_u16(octs, Len(octs) - 1)) <=> BitAt(octs, e)
<1> DEFINE L == Len(octs)
           a == octs[L - 1]
           b == octs[L]
           w == a * 256 + b
<1>1. L \in Nat /\ L - 1 \in 1 .. L /\ L \in 1 .. L /\ (L - 1) + 1 = L
  OBVIOUS
<1>2. a \in Nat /\ b \in Nat /\ b \in Octet
  BY <1>1, OctetRange
<1>3. pus_get_u16(octs, L - 1) = w
  BY <1>1 DEF pus_get_u16
<1>4. e \in Digits(w) <=> Shifted(w, e) % 2 = 1
  BY DigitShifted
<1>5. CASE e \in 0 .. 7
  <2>1. e \div 8 = 0 /\ e % 8 = e /\ L - 0 = L
    BY <1>1, <1>5
  <2>2. BitAt(octs, e) <=> Shifted(b, e) % 2 = 1
    BY ONLY <2>1 DEF BitAt
  <2> HIDE DEF a, b
  <2>3. Shifted(w, e) % 2 = Shifted(b, e) % 2
    BY ONLY <1>2, <1>5, LowDigit
  <2>4. QED
    BY ONLY <1>3, <1>4, <2>2, <2>3
<1>6. CASE e \in 8 .. 15
  <2>1. e \div 8 = 1 /\ e % 8 = e - 8
    BY <1>6
  <2>2. BitAt(octs, e) <=> Shifted(a, e - 8) % 2 = 1
    BY ONLY <2>1 DEF BitAt
  <2> HIDE DEF a, b
  <2> DEFINE j == e - 8
  <2>3. j \in 0 .. 7 /\ e = j + 8
    BY <1>6
  <2> HIDE DEF j
  <2>4. HighOf(w, e, a, b, j)
    BY ONLY <2>3 DEF HighOf
  <2> HIDE DEF w
  <2>5. Shifted(w, e) % 2 = Shifted(a, j) % 2
    BY ONLY <1>2, <2>3, <2>4, HighDigit
  <2>6. QED
    BY ONLY <1>3, <1>4, <2>2, <2>5 DEF j
<1>7. QED
  BY <1>5, <1>6

\* ... and the rest are the terms of the data it is computed from.
LEMMA DataBit ==
  ASSUME NEW octs \in Seq(Octet), 2 <= Len(octs), NEW data, data = SubSeq(octs, 1, Len(octs) - 2)
  PROVE  /\ data \in Seq(Octet) /\ Len(data) = Len(octs) - 2
         /\ \A e : e \in Polynomial(data, 16) <=> e \in 16 .. 8 * Len(octs) - 1 /\ BitAt(octs, e)
<1> DEFINE L == Len(octs)
<1>1. L \in Nat /\ octs \in [1 .. L -> Octet]
  OBVIOUS
<1>2. data \in Seq(Octet) /\ Len(data) = L - 2 /\ \A i \in 1 .. L - 2 : data[i] = octs[i]
  BY <1>1, SubSeqProperties
<1>3. ASSUME NEW e \in 16 .. 8 * L - 1
      PROVE  /\ Len(data) - (e - 16) \div 8 = L - e \div 8 /\ (e - 16) % 8 = e % 8
             /\ data[L - e \div 8] = octs[L - e \div 8]
  <2> DEFINE q == e \div 8
  <2>1. q \in Int /\ 2 <= q /\ q <= L - 1 /\ (e - 16) \div 8 = q - 2 /\ (e - 16) % 8 = e % 8
    BY <1>1
  <2> HIDE DEF q
  <2>2. Len(data) - (q - 2) = L - q /\ L - q \in 1 .. L - 2
    BY <1>1, <1>2, <2>1
  <2>3. QED
    BY <1>2, <2>1, <2>2 DEF q
<1>4. \A e : e \in Polynomial(data, 16) <=>
               /\ e \in Nat /\ e >= 16 /\ e < 16 + 8 * Len(data)
               /\ Shifted(data[Len(data) - (e - 16) \div 8], (e - 16) % 8) % 2 = 1
  BY ONLY <1>2, DataTerm DEF Shifted
<1>5. \A e : e \in 16 .. 8 * L - 1 <=> e \in Nat /\ e >= 16 /\ e < 16 + 8 * Len(data)
  BY <1>1, <1>2
<1>6. ASSUME NEW e
      PROVE  e \in Polynomial(data, 16) <=> e \in 16 .. 8 * L - 1 /\ BitAt(octs, e)
  <2>1. CASE e \in 16 .. 8 * L - 1
    <3> DEFINE i == L - e \div 8
               j == Len(data) - (e - 16) \div 8
               r == e % 8
               t == (e - 16) % 8
    <3>1. j = i /\ t = r /\ data[i] = octs[i]
      BY <1>3, <2>1
    <3>2. e \in Polynomial(data, 16) <=> Shifted(data[j], t) % 2 = 1
      BY ONLY <1>4, <1>5, <2>1
    <3>3. BitAt(octs, e) <=> Shifted(octs[i], r) % 2 = 1
      BY DEF BitAt
    <3> HIDE DEF i, j, r, t
    <3>4. QED
      BY ONLY <2>1, <3>1, <3>2, <3>3
  <2>2. CASE e \notin 16 .. 8 * L - 1
    BY ONLY <1>4, <1>5, <2>2
  <2>3. QED
    BY <2>1, <2>2
<1>7. QED
  BY <1>2, <1>6

\* Where two packets of one length differ.
Differ(octs, others, bits) ==
  /\ octs \in Seq(Octet) /\ others \in Seq(Octet) /\ Len(others) = Len(octs)
  /\ bits \in SUBSET (0 .. 8 * Len(octs) - 1)
  /\ \A e \in 0 .. 8 * Len(octs) - 1 : BitAt(others, e) <=> ~(BitAt(octs, e) <=> e \in bits)

\* Noise upon noise, while no bit is hit twice.
LEMMA DifferTwice ==
  ASSUME NEW a, NEW b, NEW c, NEW s, NEW t, Differ(a, b, s), Differ(b, c, t), s \cap t = {}
  PROVE  Differ(a, c, s \cup t)
<1>1. /\ a \in Seq(Octet) /\ c \in Seq(Octet) /\ Len(b) = Len(a) /\ Len(c) = Len(a)
      /\ s \in SUBSET (0 .. 8 * Len(a) - 1) /\ t \in SUBSET (0 .. 8 * Len(a) - 1)
  BY DEF Differ
<1>2. \A e \in 0 .. 8 * Len(a) - 1 : /\ BitAt(b, e) <=> ~(BitAt(a, e) <=> e \in s)
                                     /\ BitAt(c, e) <=> ~(BitAt(b, e) <=> e \in t)
  BY <1>1 DEF Differ
<1>3. \A e \in 0 .. 8 * Len(a) - 1 : BitAt(c, e) <=> ~(BitAt(a, e) <=> e \in s \cup t)
  BY <1>2
<1>4. QED
  BY <1>1, <1>3 DEF Differ

LEMMA DifferNowhere == ASSUME NEW a \in Seq(Octet) PROVE Differ(a, a, {})
  BY DEF Differ

\* One step of the division, term by term.
LEMMA DividedTerms ==
  ASSUME NEW n \in Nat, NEW k \in 0 .. n - 1, NEW p \in SUBSET (0 .. 15 + n),
         NEW q, q = Divided(k, n)[p]
  PROVE  /\ q \in SUBSET (0 .. 15 + n)
         /\ \A e : e \in q <=> ~(e \in p <=> (k + 16 \in p /\ e \in Generator(k)))
<1>1. q = IF k + 16 \in p THEN Plus(p, Generator(k)) ELSE p
  BY DEF Divided
<1>2. Generator(k) \in SUBSET (0 .. 15 + n)
  BY DEF Generator
<1>3. \A e : e \in q <=> ~(e \in p <=> (k + 16 \in p /\ e \in Generator(k)))
  BY ONLY <1>1 DEF Plus
<1>4. QED
  BY <1>2, <1>3

\* g is the sum of a, b and c.
IsSum(g, a, b, c) == \A e : e \in g <=> ~(e \in a <=> ~(e \in b <=> e \in c))

LEMMA SumDivided ==
  ASSUME NEW n \in Nat, NEW k \in 0 .. n - 1, NEW low \in SUBSET (0 .. 15),
         NEW a \in SUBSET (0 .. 15 + n), NEW b \in SUBSET (0 .. 15 + n),
         NEW g \in SUBSET (0 .. 15 + n), IsSum(g, a, b, low)
  PROVE  IsSum(Divided(k, n)[g], Divided(k, n)[a], Divided(k, n)[b], low)
<1> DEFINE G == Generator(k)
           top == k + 16
           da == Divided(k, n)[a]
           db == Divided(k, n)[b]
           dg == Divided(k, n)[g]
<1>1. /\ \A e : e \in da <=> ~(e \in a <=> (top \in a /\ e \in G))
      /\ \A e : e \in db <=> ~(e \in b <=> (top \in b /\ e \in G))
      /\ \A e : e \in dg <=> ~(e \in g <=> (top \in g /\ e \in G))
  BY ONLY DividedTerms, n \in Nat, k \in 0 .. n - 1, a \in SUBSET (0 .. 15 + n),
          b \in SUBSET (0 .. 15 + n), g \in SUBSET (0 .. 15 + n)
<1>2. top \notin low
  OBVIOUS
<1> HIDE DEF G, top, da, db, dg
<1>3. top \in g <=> ~(top \in a <=> top \in b)
  BY <1>2 DEF IsSum
<1>4. ASSUME NEW e PROVE e \in dg <=> ~(e \in da <=> ~(e \in db <=> e \in low))
  <2>1. e \in g <=> ~(e \in a <=> ~(e \in b <=> e \in low))
    BY DEF IsSum
  <2>2. CASE e \in G
    BY ONLY <1>1, <1>3, <2>1, <2>2
  <2>3. CASE e \notin G
    BY ONLY <1>1, <2>1, <2>3
  <2>4. QED
    BY <2>2, <2>3
<1>5. QED
  BY <1>4 DEF IsSum, da, db, dg

\* Every list of a division stays in the domain of its steps.
LEMMA DivisionTerms ==
  ASSUME NEW n \in Nat, NEW p \in SUBSET (0 .. 15 + n), NEW f, IsDivision(f, p, n)
  PROVE  \A j \in 0 .. n : f[j] \in SUBSET (0 .. 15 + n)
<1> DEFINE T == {j \in Nat : j \in 0 .. n => f[j] \in SUBSET (0 .. 15 + n)}
<1>1. 0 \in T
  BY DEF IsDivision
<1>2. ASSUME NEW j \in Nat, j \in T PROVE j + 1 \in T
  <2>1. SUFFICES ASSUME j + 1 \in 0 .. n PROVE f[j + 1] \in SUBSET (0 .. 15 + n)
    OBVIOUS
  <2> DEFINE k == n - (j + 1)
  <2>2. j \in 0 .. n /\ j + 1 \in 1 .. n /\ (j + 1) - 1 = j /\ k \in 0 .. n - 1
    BY <2>1
  <2>3. f[j] \in SUBSET (0 .. 15 + n) /\ f[j + 1] = Divided(k, n)[f[j]]
    BY <1>2, <2>2 DEF IsDivision
  <2> HIDE DEF k
  <2>4. QED
    BY ONLY <2>2, <2>3, n \in Nat, DividedTerms
<1> HIDE DEF T
<1>3. \A j \in Nat : j \in T
  BY <1>1, <1>2, SetInduction
<1>4. QED
  BY <1>3 DEF T

\* The division of a sum is the sum of the divisions.
LEMMA SumsDivide ==
  ASSUME NEW n \in Nat, NEW low \in SUBSET (0 .. 15),
         NEW p \in SUBSET (0 .. 15 + n), NEW q \in SUBSET (0 .. 15 + n),
         NEW m \in SUBSET (0 .. 15 + n), IsSum(m, p, q, low),
         NEW a, NEW b, NEW g, IsDivision(a, p, n), IsDivision(b, q, n), IsDivision(g, m, n)
  PROVE  IsSum(g[n], a[n], b[n], low)
<1> DEFINE T == {j \in Nat : j \in 0 .. n => IsSum(g[j], a[j], b[j], low)}
<1>1. \A j \in 0 .. n : /\ a[j] \in SUBSET (0 .. 15 + n) /\ b[j] \in SUBSET (0 .. 15 + n)
                        /\ g[j] \in SUBSET (0 .. 15 + n)
  BY DivisionTerms
<1>2. 0 \in T
  BY DEF IsDivision
<1>3. ASSUME NEW j \in Nat, j \in T PROVE j + 1 \in T
  <2>1. SUFFICES ASSUME j + 1 \in 0 .. n PROVE IsSum(g[j + 1], a[j + 1], b[j + 1], low)
    OBVIOUS
  <2> DEFINE k == n - (j + 1)
  <2>2. j \in 0 .. n /\ j + 1 \in 1 .. n /\ (j + 1) - 1 = j /\ k \in 0 .. n - 1
    BY <2>1
  <2>3. /\ a[j + 1] = Divided(k, n)[a[j]] /\ b[j + 1] = Divided(k, n)[b[j]]
        /\ g[j + 1] = Divided(k, n)[g[j]]
    BY <2>2 DEF IsDivision
  <2>4. IsSum(g[j], a[j], b[j], low)
    BY <1>3, <2>2
  <2> HIDE DEF k
  <2>5. IsSum(Divided(k, n)[g[j]], Divided(k, n)[a[j]], Divided(k, n)[b[j]], low)
    BY ONLY <1>1, <2>2, <2>4, n \in Nat, low \in SUBSET (0 .. 15), SumDivided
  <2>6. QED
    BY ONLY <2>3, <2>5
<1> HIDE DEF T
<1>4. n \in T
  BY <1>2, <1>3, SetInduction
<1>5. QED
  BY <1>4 DEF T

\* The checksum of a packet verifies.
Verifies(octs) == crc16_ccitt(SubSeq(octs, 1, Len(octs) - 2)) = pus_get_u16(octs, Len(octs) - 1)

LEMMA DigitsDecide ==
  ASSUME NEW a \in Word16, NEW b \in Word16
  PROVE  a = b <=> \A e \in 0 .. 15 : e \in Digits(a) <=> e \in Digits(b)
<1>1. Word(Digits(a)) = a /\ Word(Digits(b)) = b
  BY WordOfDigits
<1>2. Digits(a) \in SUBSET (0 .. 15) /\ Digits(b) \in SUBSET (0 .. 15)
  BY DEF Digits
<1>3. QED
  BY <1>1, <1>2

\* Noise on a sound packet goes unnoticed exactly when the generator divides it.
LEMMA NoiseDivided ==
  ASSUME NEW a, NEW b, NEW bits, Differ(a, b, bits), 2 <= Len(a), Verifies(a),
         NEW n, n = 8 * (Len(a) - 2)
  PROVE  Verifies(b) <=> Remainder(bits, n) = {}
<1> DEFINE da == SubSeq(a, 1, Len(a) - 2)
           db == SubSeq(b, 1, Len(b) - 2)
           wa == pus_get_u16(a, Len(a) - 1)
           wb == pus_get_u16(b, Len(b) - 1)
           seed == Polynomial(<<255, 255>>, n)
           p == Plus(Polynomial(da, 16), seed)
           q == Plus(Polynomial(db, 16), seed)
           low == {e \in bits : e < 16}
<1>1. /\ a \in Seq(Octet) /\ b \in Seq(Octet) /\ Len(b) = Len(a) /\ Len(a) \in Nat
      /\ bits \in SUBSET (0 .. 8 * Len(a) - 1)
      /\ \A e \in 0 .. 8 * Len(a) - 1 : BitAt(b, e) <=> ~(BitAt(a, e) <=> e \in bits)
  BY DEF Differ
<1>2. n \in Nat /\ 8 * Len(a) - 1 = 15 + n
  BY <1>1
<1>3. /\ da \in Seq(Octet) /\ Len(da) = Len(a) - 2
      /\ \A e : e \in Polynomial(da, 16) <=> e \in 16 .. 15 + n /\ BitAt(a, e)
  BY ONLY <1>1, <1>2, 2 <= Len(a), DataBit
<1>4. /\ db \in Seq(Octet) /\ Len(db) = Len(a) - 2
      /\ \A e : e \in Polynomial(db, 16) <=> e \in 16 .. 15 + n /\ BitAt(b, e)
  BY ONLY <1>1, <1>2, 2 <= Len(a), DataBit
<1>5. \A e \in 0 .. 15 : /\ e \in Digits(wa) <=> BitAt(a, e)
                         /\ e \in Digits(wb) <=> BitAt(b, e)
  BY ONLY <1>1, 2 <= Len(a), ChecksumBit
<1>6. wa \in Word16 /\ wb \in Word16
  <2>1. ASSUME NEW s \in Seq(Octet), 2 <= Len(s) PROVE pus_get_u16(s, Len(s) - 1) \in Word16
    <3>1. s[Len(s) - 1] \in Octet /\ s[(Len(s) - 1) + 1] \in Octet
      BY <2>1
    <3> DEFINE x == s[Len(s) - 1]
               y == s[(Len(s) - 1) + 1]
    <3>2. x \in Octet /\ y \in Octet
      BY <3>1
    <3> HIDE DEF x, y
    <3>3. x * 256 + y \in Word16
      BY <3>2, OctetRange, WordRange
    <3>4. QED
      BY <3>3 DEF pus_get_u16, x, y
  <2>2. QED
    BY <1>1, <2>1
<1>7. \A e : e \in seed <=> e \in Nat /\ e - n \in 0 .. 15
  BY ONLY <1>2, SeedTerms
<1> HIDE DEF da, db, wa, wb
<1>8. /\ p \in SUBSET (0 .. 15 + n) /\ q \in SUBSET (0 .. 15 + n)
      /\ bits \in SUBSET (0 .. 15 + n) /\ low \in SUBSET (0 .. 15)
  <2>1. Polynomial(da, 16) \in SUBSET (0 .. 15 + n) /\ Polynomial(db, 16) \in SUBSET (0 .. 15 + n)
    BY <1>2, <1>3, <1>4
  <2>2. p = Plus(Polynomial(da, 16), seed) /\ q = Plus(Polynomial(db, 16), seed)
    OBVIOUS
  <2>3. low \in SUBSET (0 .. 15) /\ bits \in SUBSET (0 .. 15 + n)
    <3>1. bits \in SUBSET (0 .. 15 + n)
      BY ONLY <1>1, <1>2
    <3>2. \A e \in low : e \in bits /\ e < 16
      OBVIOUS
    <3> HIDE DEF low, seed, p, q
    <3>3. ASSUME NEW e \in low PROVE e \in 0 .. 15
      <4>1. e \in 0 .. 15 + n /\ e < 16
        BY ONLY <3>1, <3>2, e \in low
      <4>2. n \in Nat
        BY ONLY <1>2
      <4>3. QED
        BY ONLY <4>1, <4>2
    <3>4. QED
      BY ONLY <3>1, <3>3
  <2> HIDE DEF seed, p, q, low
  <2>4. seed \in SUBSET (0 .. 15 + n)
    BY ONLY <1>2, <1>7
  <2>5. p \in SUBSET (0 .. 15 + n) /\ q \in SUBSET (0 .. 15 + n)
    BY ONLY <2>1, <2>2, <2>4 DEF Plus
  <2>6. QED
    BY <2>3, <2>5
<1>9. IsSum(bits, p, q, low)
  <2>1. ASSUME NEW e PROVE e \in bits <=> ~(e \in p <=> ~(e \in q <=> e \in low))
    <3>1. p = Plus(Polynomial(da, 16), seed) /\ q = Plus(Polynomial(db, 16), seed)
      OBVIOUS
    <3>2. e \in bits => e \in 0 .. 15 + n
      BY <1>8
    <3>3. e \in low <=> e \in bits /\ e < 16
      OBVIOUS
    <3> HIDE DEF seed, p, q, low
    <3>4. /\ e \in p <=> ~(e \in Polynomial(da, 16) <=> e \in seed)
          /\ e \in q <=> ~(e \in Polynomial(db, 16) <=> e \in seed)
      BY ONLY <3>1 DEF Plus
    <3>5. CASE e \in 16 .. 15 + n
      <4>1. e \notin low /\ (BitAt(b, e) <=> ~(BitAt(a, e) <=> e \in bits))
        BY <1>1, <1>2, <3>3, <3>5
      <4>2. QED
        BY ONLY <1>3, <1>4, <3>4, <3>5, <4>1
    <3>6. CASE e \notin 16 .. 15 + n
      <4>1. e \in bits <=> e \in low
        BY <1>2, <3>2, <3>3, <3>6
      <4>2. QED
        BY ONLY <1>3, <1>4, <3>4, <3>6, <4>1
    <3>7. QED
      BY <3>5, <3>6
  <2>2. QED
    BY <2>1 DEF IsSum
<1>10. PICK f : IsDivision(f, p, n)
  BY <1>2, DivisionExists
<1>11. PICK h : IsDivision(h, q, n)
  BY <1>2, DivisionExists
<1>12. PICK g : IsDivision(g, bits, n)
  BY <1>2, DivisionExists
<1>13. f[n] = Digits(crc16_ccitt(da)) /\ h[n] = Digits(crc16_ccitt(db))
  <2>1. n = 8 * Len(da) /\ n = 8 * Len(db)
    BY <1>3, <1>4
  <2>2. QED
    BY ONLY <1>3, <1>4, <1>10, <1>11, <2>1, CrcDivided
<1>14. g[n] = Remainder(bits, n)
  BY <1>12 DEF IsDivision
<1> HIDE DEF p, q
<1>15. IsSum(g[n], f[n], h[n], low)
  <2> HIDE DEF low
  <2>1. QED
    BY ONLY <1>2, <1>8, <1>9, <1>10, <1>11, <1>12, SumsDivide
<1> DEFINE ca == crc16_ccitt(da)
           cb == crc16_ccitt(db)
<1>16. ca \in Word16 /\ cb \in Word16
  BY <1>3, <1>4, CrcWord
<1>17. ca = wa
  BY DEF Verifies, da, wa
<1>18. Verifies(b) <=> cb = wb
  BY DEF Verifies, db, wb
<1>19. Digits(ca) \in SUBSET (0 .. 15) /\ Digits(cb) \in SUBSET (0 .. 15)
  BY DEF Digits
<1> HIDE DEF ca, cb
<1>20. cb = wb <=> \A e \in 0 .. 15 : e \in Digits(cb) <=> e \in Digits(wb)
  BY ONLY <1>6, <1>16, DigitsDecide
<1>21. \A e : e \in Remainder(bits, n) <=> ~(e \in Digits(ca) <=> ~(e \in Digits(cb) <=> e \in low))
  BY ONLY <1>13, <1>14, <1>15 DEF IsSum, ca, cb
<1>22. ASSUME NEW e \in 0 .. 15
       PROVE  e \in Remainder(bits, n) <=> ~(e \in Digits(cb) <=> e \in Digits(wb))
  <2>1. e \in low <=> e \in bits
    OBVIOUS
  <2>2. BitAt(b, e) <=> ~(BitAt(a, e) <=> e \in bits)
    BY <1>1, <1>2
  <2> HIDE DEF low
  <2>3. QED
    BY ONLY <1>5, <1>17, <1>21, <2>1, <2>2, e \in 0 .. 15
<1>23. \A e : e \in Remainder(bits, n) => e \in 0 .. 15
  BY ONLY <1>8, <1>19, <1>21
<1>24. QED
  BY ONLY <1>18, <1>20, <1>22, <1>23

\* A division by the generator leaves something of what spans at most sixteen exponents:
\* the generator spans seventeen.
LEMMA BurstRemains ==
  ASSUME NEW n \in Nat, NEW p \in SUBSET (0 .. 15 + n), p # {},
         NEW first \in Nat, p \subseteq first .. first + 15
  PROVE  Remainder(p, n) # {}
<1> DEFINE Short(q) == \E l \in Int : q \subseteq l .. l + 15
<1>1. PICK f : IsDivision(f, p, n)
  BY DivisionExists
<1> DEFINE T == {j \in Nat : j \in 0 .. n =>
                   f[j] # {} /\ f[j] \in SUBSET (0 .. 15 + (n - j)) /\ Short(f[j])}
<1>2. 0 \in T
  <2>1. f[0] = p /\ n - 0 = n
    BY <1>1 DEF IsDivision
  <2>2. Short(p)
    BY first \in Int
  <2> HIDE DEF Short
  <2>3. QED
    BY <2>1, <2>2
<1>3. ASSUME NEW j \in Nat, j \in T PROVE j + 1 \in T
  <2>1. SUFFICES ASSUME j + 1 \in 0 .. n
                 PROVE  /\ f[j + 1] # {} /\ f[j + 1] \in SUBSET (0 .. 15 + (n - (j + 1)))
                        /\ Short(f[j + 1])
    OBVIOUS
  <2> DEFINE k == n - (j + 1)
             d == f[j]
             r == f[j + 1]
  <2>2. j \in 0 .. n /\ j + 1 \in 1 .. n /\ (j + 1) - 1 = j /\ k \in 0 .. n - 1 /\ n - j = k + 1
    BY <2>1
  <2>3. d # {} /\ d \in SUBSET (0 .. 16 + k) /\ Short(d)
    <3>1. 15 + (n - j) = 16 + k
      BY <2>2
    <3> HIDE DEF Short, k
    <3>2. QED
      BY <1>3, <2>2, <3>1
  <2>4. r = Divided(k, n)[d]
    BY <1>1, <2>2 DEF IsDivision
  <2>5. d \in SUBSET (0 .. 15 + n)
    BY <2>2, <2>3
  <2> HIDE DEF k, d, r
  <2>6. \A e : e \in r <=> ~(e \in d <=> (k + 16 \in d /\ e \in Generator(k)))
    BY ONLY <2>2, <2>4, <2>5, n \in Nat, DividedTerms
  <2>7. r # {} /\ r \in SUBSET (0 .. 15 + k) /\ Short(r)
    <3>1. CASE k + 16 \notin d
      <4>1. r = d
        BY <2>6, <3>1
      <4>2. d \in SUBSET (0 .. 15 + k)
        BY <2>2, <2>3, <3>1
      <4> HIDE DEF Short
      <4>3. QED
        BY <2>3, <4>1, <4>2
    <3>2. CASE k + 16 \in d
      <4>1. PICK l \in Int : d \subseteq l .. l + 15
        BY <2>3
      <4>2. \A e \in d : e \in k + 1 .. k + 16
        BY <2>2, <2>3, <3>2, <4>1
      <4>3. \A e : e \in Generator(k) <=> e \in {k + 16, k + 12, k + 5, k}
        BY DEF Generator
      <4>4. k \in r
        BY <2>2, <2>6, <3>2, <4>2, <4>3
      <4>5. k + 16 \notin r
        BY <2>6, <3>2, <4>3
      <4>6. \A e \in r : e \in k .. k + 15
        BY <2>2, <2>6, <4>2, <4>3, <4>5
      <4>7. r \in SUBSET (0 .. 15 + k) /\ r \subseteq k .. k + 15 /\ k \in Int
        BY <2>2, <4>6
      <4>8. QED
        BY <4>4, <4>7
    <3>3. QED
      BY <3>1, <3>2
  <2> HIDE DEF Short
  <2>8. QED
    BY <2>7 DEF k, r
<1> HIDE DEF Short
<1>4. n \in T
  <2> HIDE DEF T
  <2>1. QED
    BY <1>2, <1>3, SetInduction
<1>5. f[n] # {}
  BY <1>4
<1>6. QED
  BY <1>1, <1>5 DEF IsDivision

\* It keeps the parity of the number of terms, the generator having four.
Odd(S) == Cardinality(S) % 2 = 1

LEMMA FourTerms ==
  ASSUME NEW k \in Nat PROVE IsFiniteSet(Generator(k)) /\ Cardinality(Generator(k)) = 4
<1> DEFINE a == {k + 16}
           b == {k + 16, k + 12}
           c == {k + 16, k + 12, k + 5}
<1>1. IsFiniteSet(a) /\ Cardinality(a) = 1
  BY FS_Singleton
<1>2. IsFiniteSet(b) /\ Cardinality(b) = 2
  <2>1. b = a \cup {k + 12} /\ k + 12 \notin a
    OBVIOUS
  <2> HIDE DEF a, b
  <2>2. QED
    BY <1>1, <2>1, FS_AddElement
<1>3. IsFiniteSet(c) /\ Cardinality(c) = 3
  <2>1. c = b \cup {k + 5} /\ k + 5 \notin b
    OBVIOUS
  <2> HIDE DEF b, c
  <2>2. QED
    BY <1>2, <2>1, FS_AddElement
<1>4. Generator(k) = c \cup {k} /\ k \notin c
  BY DEF Generator
<1> HIDE DEF c
<1>5. QED
  BY <1>3, <1>4, FS_AddElement

LEMMA PlusParity ==
  ASSUME NEW p, NEW q, IsFiniteSet(p), IsFiniteSet(q), ~Odd(q)
  PROVE  IsFiniteSet(Plus(p, q)) /\ (Odd(Plus(p, q)) <=> Odd(p))
<1> DEFINE both == p \cap q
           a == p \ q
           b == q \ p
           x == Cardinality(both)
           y == Cardinality(p)
           z == Cardinality(q)
           u == Cardinality(a)
           v == Cardinality(b)
           w == Cardinality(Plus(p, q))
<1>1. IsFiniteSet(both) /\ both = q \cap p
  BY FS_Intersection
<1>2. IsFiniteSet(a) /\ IsFiniteSet(b) /\ u = y - x /\ v = z - x
  BY <1>1, FS_Difference
<1>3. a \cap b = {} /\ Plus(p, q) = a \cup b
  BY DEF Plus
<1>4. IsFiniteSet(Plus(p, q)) /\ w = u + v - Cardinality(a \cap b)
  BY <1>2, <1>3, FS_Union
<1>5. Cardinality(a \cap b) = 0
  BY <1>3, FS_EmptySet
<1>6. x \in Nat /\ y \in Nat /\ z \in Nat
  BY <1>1, FS_CardinalityType
<1>7. z % 2 # 1
  BY DEF Odd
<1> HIDE DEF x, y, z, u, v, w, a, b
<1>8. w = (y + z) - 2 * x
  BY <1>2, <1>4, <1>5, <1>6
<1>9. w % 2 = 1 <=> y % 2 = 1
  BY <1>6, <1>7, <1>8
<1>10. QED
  BY <1>4, <1>9 DEF Odd, w, y

LEMMA OddRemains ==
  ASSUME NEW n \in Nat, NEW p \in SUBSET (0 .. 15 + n), Odd(p)
  PROVE  Remainder(p, n) # {}
<1>1. PICK f : IsDivision(f, p, n)
  BY DivisionExists
<1> DEFINE T == {j \in Nat : j \in 0 .. n => IsFiniteSet(f[j]) /\ Odd(f[j])}
<1>2. \A j \in 0 .. n : f[j] \in SUBSET (0 .. 15 + n)
  BY <1>1, DivisionTerms
<1>3. 0 \in T
  <2>1. f[0] = p
    BY <1>1 DEF IsDivision
  <2>2. IsFiniteSet(0 .. 15 + n)
    BY FS_Interval
  <2>3. IsFiniteSet(p)
    BY <2>2, FS_Subset
  <2>4. QED
    BY <2>1, <2>3
<1>4. ASSUME NEW j \in Nat, j \in T PROVE j + 1 \in T
  <2>1. SUFFICES ASSUME j + 1 \in 0 .. n PROVE IsFiniteSet(f[j + 1]) /\ Odd(f[j + 1])
    OBVIOUS
  <2> DEFINE k == n - (j + 1)
             d == f[j]
             r == f[j + 1]
  <2>2. j \in 0 .. n /\ j + 1 \in 1 .. n /\ (j + 1) - 1 = j /\ k \in 0 .. n - 1 /\ k \in Nat
    BY <2>1
  <2>3. IsFiniteSet(d) /\ Odd(d) /\ d \in SUBSET (0 .. 15 + n)
    BY <1>2, <1>4, <2>2
  <2>4. r = Divided(k, n)[d]
    BY <1>1, <2>2 DEF IsDivision
  <2>5. IsFiniteSet(Generator(k)) /\ ~Odd(Generator(k))
    <3>1. IsFiniteSet(Generator(k)) /\ Cardinality(Generator(k)) = 4
      BY <2>2, FourTerms
    <3>2. QED
      BY <3>1 DEF Odd
  <2> HIDE DEF k, d, r
  <2>6. r = IF k + 16 \in d THEN Plus(d, Generator(k)) ELSE d
    BY <2>3, <2>4 DEF Divided
  <2>7. IsFiniteSet(r) /\ Odd(r)
    BY ONLY <2>3, <2>5, <2>6, PlusParity
  <2>8. QED
    BY <2>7 DEF r
<1>5. n \in T
  <2> HIDE DEF T
  <2>1. QED
    BY <1>3, <1>4, SetInduction
<1>6. Odd(f[n])
  BY <1>5
<1>7. ~Odd({})
  <2>1. Cardinality({}) = 0
    BY FS_EmptySet
  <2>2. QED
    BY <2>1 DEF Odd
<1>8. QED
  BY <1>1, <1>6, <1>7 DEF IsDivision

-----------------------------------------------------------------------------
(* Words in a sequence of octets *)

\* The octets of a word, and the word of two octets.
LEMMA WordOctets ==
  ASSUME NEW w \in Word16
  PROVE  /\ (w \div 256) % 256 \in Octet /\ w % 256 \in Octet
         /\ ((w \div 256) % 256) * 256 + (w % 256) = w
         /\ pus_put_u16(w) = <<(w \div 256) % 256, w % 256>>
<1> DEFINE q == w \div 256
           r == w % 256
           p == q % 256
<1>1. w \in Int /\ 0 <= w /\ w <= 65535
  BY WordRange
<1>2. q \in Int /\ r \in Int /\ w = 256 * q + r /\ 0 <= r /\ r <= 255
  BY <1>1
<1>3. 0 <= q /\ q <= 255
  <2> HIDE DEF q, r
  <2>1. QED
    BY <1>1, <1>2
<1>4. p = q
  <2> HIDE DEF q
  <2>1. QED
    BY <1>2, <1>3
<1>5. p \in Octet /\ r \in Octet
  <2> HIDE DEF q, p, r
  <2>1. QED
    BY <1>2, <1>3, <1>4, OctetRange
<1>6. p * 256 + r = w
  <2> HIDE DEF q, p, r
  <2>1. QED
    BY <1>1, <1>2, <1>4
<1>7. QED
  BY <1>5, <1>6 DEF pus_put_u16

LEMMA OctetsWord ==
  ASSUME NEW h \in Octet, NEW l \in Octet, NEW w, w = h * 256 + l
  PROVE  /\ w \in Word16
         /\ pus_put_u16(w) = <<h, l>>
<1>1. h \in Int /\ 0 <= h /\ h <= 255 /\ l \in Int /\ 0 <= l /\ l <= 255
  BY OctetRange
<1>2. w \in Int /\ 0 <= w /\ w <= 65535
  BY <1>1
<1>3. w \div 256 = h /\ w % 256 = l
  BY <1>1
<1>4. h % 256 = h
  BY <1>1
<1>5. QED
  BY <1>2, <1>3, <1>4, WordRange DEF pus_put_u16

\* s is where t begins.
Begins(s, t) == /\ s \in Seq(Octet) /\ t \in Seq(Octet) /\ Len(s) \in Nat /\ Len(t) \in Nat
                /\ Len(s) <= Len(t) /\ \A i \in 1 .. Len(s) : t[i] = s[i]

LEMMA BeginsTrans == ASSUME NEW r, NEW s, NEW t, Begins(r, s), Begins(s, t) PROVE Begins(r, t)
<1>1. \A i \in 1 .. Len(r) : i \in 1 .. Len(s)
  BY DEF Begins
<1>2. QED
  BY <1>1 DEF Begins

LEMMA BeginsConcat ==
  ASSUME NEW s \in Seq(Octet), NEW t \in Seq(Octet)
  PROVE  /\ Begins(s, s \o t) /\ Len(s \o t) = Len(s) + Len(t)
         /\ SubSeq(s \o t, 1, Len(s)) = s
<1> DEFINE u == s \o t
           v == SubSeq(u, 1, Len(s))
<1>1. Len(s) \in Nat /\ Len(t) \in Nat
  BY LenProperties
<1>2. /\ u \in Seq(Octet) /\ Len(u) = Len(s) + Len(t)
      /\ \A i \in 1 .. Len(s) + Len(t) : u[i] = IF i <= Len(s) THEN s[i] ELSE t[i - Len(s)]
  BY ConcatProperties
<1> HIDE DEF u
<1>3. \A i \in 1 .. Len(s) : u[i] = s[i]
  BY <1>1, <1>2
<1>4. v \in Seq(Octet) /\ Len(v) = Len(s) /\ \A i \in 1 .. Len(s) : v[i] = u[i]
  BY <1>1, <1>2, SplitSeq, Len(s) \in 0 .. Len(u)
<1>5. v = s
  <2> HIDE DEF v
  <2>1. \A i \in 1 .. Len(v) : v[i] = s[i]
    BY <1>3, <1>4
  <2>2. QED
    BY <1>4, <2>1, SeqEqual
<1>6. QED
  BY <1>1, <1>2, <1>3, <1>5 DEF Begins, u

\* What follows the beginning.
LEMMA ConcatRest ==
  ASSUME NEW s \in Seq(Octet), NEW t \in Seq(Octet), NEW i \in 1 .. Len(t)
  PROVE  (s \o t)[Len(s) + i] = t[i]
<1>1. Len(s) \in Nat /\ Len(t) \in Nat
  BY LenProperties
<1> DEFINE j == Len(s) + i
<1>2. j \in 1 .. Len(s) + Len(t) /\ ~(j <= Len(s)) /\ j - Len(s) = i
  BY <1>1
<1> HIDE DEF j
<1>3. (s \o t)[j] = IF j <= Len(s) THEN s[j] ELSE t[j - Len(s)]
  BY <1>2, ConcatProperties
<1>4. QED
  BY <1>2, <1>3 DEF j

LEMMA GetKept ==
  ASSUME NEW s, NEW t, Begins(s, t), NEW i \in Nat, 1 <= i, i + 1 <= Len(s)
  PROVE  pus_get_u16(t, i) = pus_get_u16(s, i)
<1>1. i \in 1 .. Len(s) /\ i + 1 \in 1 .. Len(s)
  BY DEF Begins
<1>2. t[i] = s[i] /\ t[i + 1] = s[i + 1]
  BY <1>1 DEF Begins
<1>3. QED
  BY <1>2 DEF pus_get_u16

\* A word at the end.
LEMMA AppendWord ==
  ASSUME NEW s \in Seq(Octet), NEW w \in Word16, NEW n, n = Len(s)
  PROVE  /\ Begins(s, s \o pus_put_u16(w))
         /\ Len(s \o pus_put_u16(w)) = n + 2
         /\ pus_get_u16(s \o pus_put_u16(w), n + 1) = w
         /\ SubSeq(s \o pus_put_u16(w), 1, n) = s
<1> DEFINE h == (w \div 256) % 256
           l == w % 256
           t == <<h, l>>
<1>1. h \in Octet /\ l \in Octet /\ h * 256 + l = w /\ pus_put_u16(w) = t
  BY WordOctets
<1> HIDE DEF h, l
<1>2. t \in Seq(Octet) /\ Len(t) = 2 /\ t[1] = h /\ t[2] = l /\ 1 \in 1 .. 2 /\ 2 \in 1 .. 2
  BY <1>1
<1>3. n \in Nat
  BY LenProperties
<1> HIDE DEF t
<1>4. (s \o t)[n + 1] = h /\ (s \o t)[n + 2] = l
  <2>1. (s \o t)[Len(s) + 1] = t[1]
    BY <1>2, ConcatRest
  <2>2. (s \o t)[Len(s) + 2] = t[2]
    BY <1>2, ConcatRest
  <2>3. QED
    BY <1>2, <2>1, <2>2
<1>5. (n + 1) + 1 = n + 2
  BY <1>3
<1>6. pus_get_u16(s \o t, n + 1) = w
  BY <1>1, <1>4, <1>5 DEF pus_get_u16
<1>7. Begins(s, s \o t) /\ Len(s \o t) = n + 2 /\ SubSeq(s \o t, 1, n) = s
  BY <1>2, BeginsConcat
<1>8. QED
  BY <1>1, <1>6, <1>7

\* Two octets are a sequence of octets that holds their word.
LEMMA FirstWord ==
  ASSUME NEW w \in Word16
  PROVE  /\ pus_put_u16(w) \in Seq(Octet) /\ Len(pus_put_u16(w)) = 2
         /\ pus_get_u16(pus_put_u16(w), 1) = w
<1> DEFINE h == (w \div 256) % 256
           l == w % 256
           t == <<h, l>>
<1>1. h \in Octet /\ l \in Octet /\ h * 256 + l = w /\ pus_put_u16(w) = t
  BY WordOctets
<1> HIDE DEF h, l
<1>2. t \in Seq(Octet) /\ Len(t) = 2 /\ t[1] = h /\ t[2] = l
  BY <1>1
<1>3. 1 + 1 = 2
  OBVIOUS
<1> HIDE DEF t
<1>4. QED
  BY <1>1, <1>2, <1>3 DEF pus_get_u16

-----------------------------------------------------------------------------
(* The primary header *)

\* The bit fields of the two words of a header, taken apart ...
SplitAndJoined(w, v, t, f, a, x) ==
  /\ v = (w \div 8192) % 8 /\ t = (w \div 4096) % 2 /\ f = (w \div 2048) % 2 /\ a = w % 2048
  /\ x = (v % 8) * 8192 + (t % 2) * 4096 + (f % 2) * 2048 + (a % 2048)

LEMMA FirstFields ==
  ASSUME NEW w \in Word16, NEW v, NEW t, NEW f, NEW a, NEW x, SplitAndJoined(w, v, t, f, a, x)
  PROVE  v \in 0 .. 7 /\ t \in 0 .. 1 /\ f \in 0 .. 1 /\ a \in Apid /\ x = w
<1> USE DEF SplitAndJoined
<1>1. w \in Int /\ 0 <= w /\ w <= 65535
  BY WordRange
<1>2. v * 8192 + t * 4096 + f * 2048 + a = w
  BY <1>1
<1>3. v \in 0 .. 7 /\ t \in 0 .. 1 /\ f \in 0 .. 1
  BY <1>1
<1>4. a \in Int /\ 0 <= a /\ a <= 2047
  BY <1>1
<1>5. a % 2048 = a /\ a \in Apid
  BY ONLY <1>4, ApidRange
<1>6. v % 8 = v /\ t % 2 = t /\ f % 2 = f
  BY ONLY <1>3
<1>7. x = w
  BY <1>2, <1>5, <1>6
<1>8. QED
  BY ONLY <1>3, <1>5, <1>7

LEMMA SecondFields ==
  ASSUME NEW w \in Word16, NEW f, NEW c, NEW y, f = (w \div 16384) % 4, c = w % 16384,
         y = (f % 4) * 16384 + (c % 16384)
  PROVE  f \in 0 .. 3 /\ c \in SeqCount /\ y = w
<1>1. w \in Int /\ 0 <= w /\ w <= 65535
  BY WordRange
<1>2. f * 16384 + c = w
  BY <1>1
<1>3. f \in 0 .. 3
  BY <1>1
<1>4. c \in SeqCount
  <2>1. c \in Int /\ 0 <= c /\ c <= 16383
    BY <1>1
  <2>2. QED
    BY ONLY <2>1, SeqCountRange
<1>5. f % 4 = f
  BY ONLY <1>3
<1>6. c % 16384 = c
  <2>1. c \in Int /\ 0 <= c /\ c < 16384
    BY <1>1
  <2>2. QED
    BY ONLY <2>1
<1>7. y = w
  BY <1>2, <1>5, <1>6
<1>8. QED
  BY ONLY <1>3, <1>4, <1>7

\* ... and put together.
JoinsFirst(w, v, t, f, a) == w = v * 8192 + t * 4096 + f * 2048 + a
JoinsSecond(w, f, c) == w = f * 16384 + c

LEMMA FirstWordOf ==
  ASSUME NEW v \in 0 .. 7, NEW t \in 0 .. 1, NEW f \in 0 .. 1, NEW a \in Apid,
         NEW w, JoinsFirst(w, v, t, f, a)
  PROVE  /\ w \in Word16
         /\ (w \div 8192) % 8 = v /\ (w \div 4096) % 2 = t /\ (w \div 2048) % 2 = f /\ w % 2048 = a
<1>1. /\ v \in Int /\ 0 <= v /\ v <= 7 /\ t \in Int /\ 0 <= t /\ t <= 1
      /\ f \in Int /\ 0 <= f /\ f <= 1 /\ a \in Int /\ 0 <= a /\ a <= 2047
  BY ApidRange
<1> w = v * 8192 + t * 4096 + f * 2048 + a
  BY DEF JoinsFirst
<1>2. w \in Int /\ 0 <= w /\ w <= 65535
  BY ONLY <1>1, w = v * 8192 + t * 4096 + f * 2048 + a
<1>3. w \in Word16
  BY <1>2, WordRange
<1>4. (w \div 8192) % 8 = v /\ (w \div 4096) % 2 = t /\ (w \div 2048) % 2 = f /\ w % 2048 = a
  BY ONLY <1>1, w = v * 8192 + t * 4096 + f * 2048 + a
<1>5. QED
  BY <1>3, <1>4

LEMMA SecondWordOf ==
  ASSUME NEW f \in 0 .. 3, NEW c \in SeqCount, NEW w, JoinsSecond(w, f, c)
  PROVE  w \in Word16 /\ (w \div 16384) % 4 = f /\ w % 16384 = c
<1>1. f \in Int /\ 0 <= f /\ f <= 3 /\ c \in Int /\ 0 <= c /\ c <= 16383
  BY SeqCountRange
<1> w = f * 16384 + c
  BY DEF JoinsSecond
<1>2. w \in Int /\ 0 <= w /\ w <= 65535
  BY ONLY <1>1, w = f * 16384 + c
<1>3. w \in Word16
  BY <1>2, WordRange
<1>4. (w \div 16384) % 4 = f /\ w % 16384 = c
  BY ONLY <1>1, w = f * 16384 + c
<1>5. QED
  BY <1>3, <1>4

\* The first six octets are three words.
LEMMA SixOctets ==
  ASSUME NEW buf \in Seq(Octet), 6 <= Len(buf)
  PROVE  /\ pus_get_u16(buf, 1) \in Word16 /\ pus_get_u16(buf, 3) \in Word16
         /\ pus_get_u16(buf, 5) \in Word16
         /\ pus_put_u16(pus_get_u16(buf, 1)) \o pus_put_u16(pus_get_u16(buf, 3))
              \o pus_put_u16(pus_get_u16(buf, 5)) = SubSeq(buf, 1, 6)
<1> DEFINE a == <<buf[1], buf[2]>>
           b == <<buf[3], buf[4]>>
           c == <<buf[5], buf[6]>>
           p == SubSeq(buf, 1, 6)
           q == (a \o b) \o c
<1>1. Len(buf) \in Nat
  BY LenProperties
<1>2. \A i \in 1 .. 6 : i \in 1 .. Len(buf)
  BY <1>1
<1>3. \A i \in 1 .. 6 : buf[i] \in Octet
  BY <1>2, ElementOfSeq
<1>4. /\ buf[1] \in Octet /\ buf[2] \in Octet /\ buf[3] \in Octet
      /\ buf[4] \in Octet /\ buf[5] \in Octet /\ buf[6] \in Octet
  BY <1>3
<1>5. /\ pus_get_u16(buf, 1) = buf[1] * 256 + buf[2]
      /\ pus_get_u16(buf, 3) = buf[3] * 256 + buf[4]
      /\ pus_get_u16(buf, 5) = buf[5] * 256 + buf[6]
  BY 1 + 1 = 2, 3 + 1 = 4, 5 + 1 = 6 DEF pus_get_u16
<1>6. pus_get_u16(buf, 1) \in Word16 /\ pus_put_u16(pus_get_u16(buf, 1)) = a
  BY <1>4, <1>5, OctetsWord
<1>7. pus_get_u16(buf, 3) \in Word16 /\ pus_put_u16(pus_get_u16(buf, 3)) = b
  BY <1>4, <1>5, OctetsWord
<1>8. pus_get_u16(buf, 5) \in Word16 /\ pus_put_u16(pus_get_u16(buf, 5)) = c
  BY <1>4, <1>5, OctetsWord
<1>9. /\ a \in Seq(Octet) /\ Len(a) = 2 /\ a[1] = buf[1] /\ a[2] = buf[2]
      /\ b \in Seq(Octet) /\ Len(b) = 2 /\ b[1] = buf[3] /\ b[2] = buf[4]
      /\ c \in Seq(Octet) /\ Len(c) = 2 /\ c[1] = buf[5] /\ c[2] = buf[6]
  BY <1>4
<1>10. /\ p \in Seq(Octet) /\ Len(p) = 6 /\ \A i \in 1 .. 6 : p[i] = buf[i]
  BY <1>1, SplitSeq, 6 \in 0 .. Len(buf)
<1>11. q \in Seq(Octet) /\ Len(q) = 6 /\ \A i \in 1 .. 6 : q[i] = buf[i]
  <2> DEFINE d == a \o b
             e == d \o c
  <2> HIDE DEF a, b, c, p
  <2>1. /\ Begins(a, d) /\ Len(d) = 4 /\ d[3] = b[1] /\ d[4] = b[2]
    <3>1. Begins(a, d) /\ Len(d) = Len(a) + Len(b)
      BY <1>9, BeginsConcat
    <3>2. d[Len(a) + 1] = b[1]
      BY <1>9, ConcatRest, 1 \in 1 .. 2
    <3>3. d[Len(a) + 2] = b[2]
      BY <1>9, ConcatRest, 2 \in 1 .. 2
    <3> HIDE DEF d
    <3>4. QED
      BY <1>9, <3>1, <3>2, <3>3
  <2>2. d \in Seq(Octet) /\ d[1] = a[1] /\ d[2] = a[2]
    BY <1>9, <2>1, 1 \in 1 .. 2, 2 \in 1 .. 2 DEF Begins
  <2> HIDE DEF d
  <2>3. /\ Begins(d, e) /\ Len(e) = 6 /\ e[5] = c[1] /\ e[6] = c[2]
    <3>1. Begins(d, e) /\ Len(e) = Len(d) + Len(c)
      BY <1>9, <2>2, BeginsConcat
    <3>2. e[Len(d) + 1] = c[1]
      BY <1>9, <2>2, ConcatRest, 1 \in 1 .. 2
    <3>3. e[Len(d) + 2] = c[2]
      BY <1>9, <2>2, ConcatRest, 2 \in 1 .. 2
    <3> HIDE DEF e
    <3>4. QED
      BY <1>9, <2>1, <3>1, <3>2, <3>3
  <2>4. e \in Seq(Octet) /\ e[1] = d[1] /\ e[2] = d[2] /\ e[3] = d[3] /\ e[4] = d[4]
    BY <2>1, <2>3, 1 \in 1 .. 4, 2 \in 1 .. 4, 3 \in 1 .. 4, 4 \in 1 .. 4 DEF Begins
  <2> HIDE DEF e
  <2>5. ASSUME NEW i \in 1 .. 6 PROVE e[i] = buf[i]
    <3>1. i = 1 \/ i = 2 \/ i = 3 \/ i = 4 \/ i = 5 \/ i = 6
      OBVIOUS
    <3>2. QED
      BY ONLY <1>9, <2>1, <2>2, <2>3, <2>4, <3>1
  <2>6. QED
    BY <2>3, <2>4, <2>5 DEF d, e
<1>12. p = q
  <2> HIDE DEF p, q
  <2>1. \A i \in 1 .. Len(p) : p[i] = q[i]
    BY <1>10, <1>11
  <2>2. QED
    BY <1>10, <1>11, <2>1, SeqEqual
<1>13. QED
  BY <1>6, <1>7, <1>8, <1>12

LEMMA HeaderKept ==
  ASSUME NEW buf \in Seq(Octet), 6 <= Len(buf), NEW hdr, hdr = ccsds_unpack_primary(buf)
  PROVE  /\ hdr \in ccsds_primary_header_t
         /\ ccsds_pack_primary(hdr, CCSDS_PRIMARY_HEADER_LEN)
              = [status |-> PUS_OK, octets |-> SubSeq(buf, 1, CCSDS_PRIMARY_HEADER_LEN)]
<1> DEFINE u == pus_get_u16(buf, 1)
           w == pus_get_u16(buf, 3)
           n == pus_get_u16(buf, 5)
           v == hdr.version
           t == hdr.packet_type
           f == hdr.sec_hdr_flag
           a == hdr.apid
           g == hdr.seq_flags
           c == hdr.seq_count
           x == (v % 8) * 8192 + (t % 2) * 4096 + (f % 2) * 2048 + (a % 2048)
           y == (g % 4) * 16384 + (c % 16384)
<1>1. /\ v = (u \div 8192) % 8 /\ t = (u \div 4096) % 2 /\ f = (u \div 2048) % 2 /\ a = u % 2048
      /\ g = (w \div 16384) % 4 /\ c = w % 16384 /\ hdr.data_length = n
  BY DEF ccsds_unpack_primary, ApidOf
<1>2. hdr = [version |-> v, packet_type |-> t, sec_hdr_flag |-> f, apid |-> a,
             seq_flags |-> g, seq_count |-> c, data_length |-> n]
  BY DEF ccsds_unpack_primary, ApidOf
<1>3. /\ u \in Word16 /\ w \in Word16 /\ n \in Word16
      /\ (pus_put_u16(u) \o pus_put_u16(w)) \o pus_put_u16(n) = SubSeq(buf, 1, 6)
  BY SixOctets
<1>4. ~(CCSDS_PRIMARY_HEADER_LEN < CCSDS_PRIMARY_HEADER_LEN) /\ CCSDS_PRIMARY_HEADER_LEN = 6
  BY DEF CCSDS_PRIMARY_HEADER_LEN
<1>5. ccsds_pack_primary(hdr, CCSDS_PRIMARY_HEADER_LEN)
        = [status |-> PUS_OK,
           octets |-> (pus_put_u16(x) \o pus_put_u16(y)) \o pus_put_u16(hdr.data_length)]
  BY <1>4 DEF ccsds_pack_primary
<1> HIDE DEF u, w, n, v, t, f, a, g, c
<1>6. v \in 0 .. 7 /\ t \in 0 .. 1 /\ f \in 0 .. 1 /\ a \in Apid /\ x = u
  <2>1. SplitAndJoined(u, v, t, f, a, x)
    BY <1>1 DEF SplitAndJoined
  <2> HIDE DEF x
  <2>2. QED
    BY ONLY <1>3, <2>1, FirstFields
<1>7. g \in 0 .. 3 /\ c \in SeqCount /\ y = w
  <2>1. y = (g % 4) * 16384 + (c % 16384)
    OBVIOUS
  <2>2. g = (w \div 16384) % 4 /\ c = w % 16384
    BY ONLY <1>1
  <2>3. w \in Word16
    BY ONLY <1>3
  <2> HIDE DEF y
  <2>4. QED
    BY ONLY <2>1, <2>2, <2>3, SecondFields
<1> HIDE DEF x, y
<1>8. hdr \in ccsds_primary_header_t
  BY <1>2, <1>3, <1>6, <1>7 DEF ccsds_primary_header_t
<1>9. hdr.data_length = n /\ x = u /\ y = w
  BY <1>1, <1>6, <1>7
<1>10. (pus_put_u16(x) \o pus_put_u16(y)) \o pus_put_u16(hdr.data_length)
         = SubSeq(buf, 1, CCSDS_PRIMARY_HEADER_LEN)
  BY ONLY <1>3, <1>4, <1>9
<1>11. QED
  BY ONLY <1>5, <1>8, <1>10

-----------------------------------------------------------------------------
(* Packets: a header, fields, data and a checksum, one after another *)

AreWords(h, u, v, w) == h = (pus_put_u16(u) \o pus_put_u16(v)) \o pus_put_u16(w)
AreAfter(t, s, a, b, c) == t = s \o <<a, b, c>>
IsPacket(u, s, d, w) == u = (s \o d) \o pus_put_u16(w)

LEMMA ThreeWords ==
  ASSUME NEW u \in Word16, NEW v \in Word16, NEW w \in Word16,
         NEW h, AreWords(h, u, v, w)
  PROVE  /\ h \in Seq(Octet) /\ Len(h) = 6
         /\ pus_get_u16(h, 1) = u /\ pus_get_u16(h, 3) = v /\ pus_get_u16(h, 5) = w
<1> DEFINE a == pus_put_u16(u)
           b == a \o pus_put_u16(v)
<1>1. a \in Seq(Octet) /\ Len(a) = 2 /\ pus_get_u16(a, 1) = u
  BY FirstWord
<1> HIDE DEF a
<1>2. Begins(a, b) /\ Len(b) = 4 /\ pus_get_u16(b, 3) = v
  <2>1. Begins(a, b) /\ Len(b) = 2 + 2 /\ pus_get_u16(b, 2 + 1) = v
    BY <1>1, AppendWord
  <2>2. 2 + 2 = 4 /\ 2 + 1 = 3
    OBVIOUS
  <2>3. QED
    BY <2>1, <2>2
<1>3. b \in Seq(Octet)
  BY <1>2 DEF Begins
<1> HIDE DEF b
<1>4. h = b \o pus_put_u16(w)
  BY DEF a, b, AreWords
<1>5. Begins(b, h) /\ Len(h) = 6 /\ pus_get_u16(h, 5) = w
  <2>1. /\ Begins(b, b \o pus_put_u16(w)) /\ Len(b \o pus_put_u16(w)) = 4 + 2
        /\ pus_get_u16(b \o pus_put_u16(w), 4 + 1) = w
    BY ONLY <1>2, <1>3, AppendWord, w \in Word16
  <2>2. 4 + 2 = 6 /\ 4 + 1 = 5
    OBVIOUS
  <2>3. QED
    BY ONLY <1>4, <2>1, <2>2
<1>6. pus_get_u16(b, 1) = u
  BY <1>1, <1>2, GetKept, 1 \in Nat, 1 <= 1, 1 + 1 <= 2
<1>7. pus_get_u16(h, 1) = u
  BY <1>2, <1>5, <1>6, GetKept, 1 \in Nat, 1 <= 1, 1 + 1 <= 4
<1>8. pus_get_u16(h, 3) = v
  BY <1>2, <1>5, GetKept, 3 \in Nat, 1 <= 3, 3 + 1 <= 4
<1>9. QED
  BY <1>5, <1>7, <1>8 DEF Begins

LEMMA AppendThree ==
  ASSUME NEW s \in Seq(Octet), NEW a \in Octet, NEW b \in Octet, NEW c \in Octet,
         NEW t, AreAfter(t, s, a, b, c)
  PROVE  /\ Begins(s, t) /\ Len(t) = Len(s) + 3
         /\ t[Len(s) + 1] = a /\ t[Len(s) + 2] = b /\ t[Len(s) + 3] = c
<1> DEFINE r == <<a, b, c>>
<1>1. /\ r \in Seq(Octet) /\ Len(r) = 3 /\ r[1] = a /\ r[2] = b /\ r[3] = c
      /\ 1 \in 1 .. 3 /\ 2 \in 1 .. 3 /\ 3 \in 1 .. 3
  OBVIOUS
<1>2. t = s \o r
  BY DEF AreAfter
<1> HIDE DEF r
<1>3. Begins(s, t) /\ Len(t) = Len(s) + 3
  BY <1>1, <1>2, BeginsConcat
<1>4. t[Len(s) + 1] = r[1]
  BY <1>1, <1>2, ConcatRest
<1>5. t[Len(s) + 2] = r[2]
  BY <1>1, <1>2, ConcatRest
<1>6. t[Len(s) + 3] = r[3]
  BY <1>1, <1>2, ConcatRest
<1>7. QED
  BY <1>1, <1>3, <1>4, <1>5, <1>6

\* The data and the checksum of a packet.
LEMMA DataAndChecksum ==
  ASSUME NEW s \in Seq(Octet), NEW d \in Seq(Octet), NEW w \in Word16,
         NEW u, IsPacket(u, s, d, w)
  PROVE  /\ Begins(s, u) /\ Len(u) = Len(s) + Len(d) + 2
         /\ SubSeq(u, 1, Len(u) - 2) = s \o d
         /\ SubSeq(u, Len(s) + 1, Len(u) - 2) = d
         /\ \A i \in 1 .. Len(d) : u[Len(s) + i] = d[i]
         /\ pus_get_u16(u, Len(u) - 1) = w
<1> DEFINE b == s \o d
           n == Len(u)
           k == Len(s)
           m == Len(d)
           e == SubSeq(u, k + 1, n - 2)
<1>1. k \in Nat /\ m \in Nat
  BY LenProperties
<1>2. b \in Seq(Octet) /\ Len(b) = k + m /\ Begins(s, b)
  BY BeginsConcat, ConcatProperties
<1>3. \A i \in 1 .. m : b[k + i] = d[i]
  BY ConcatRest
<1>4. u = b \o pus_put_u16(w)
  BY DEF IsPacket
<1> HIDE DEF b
<1>5. /\ Begins(b, u) /\ n = (k + m) + 2 /\ pus_get_u16(u, (k + m) + 1) = w
      /\ SubSeq(u, 1, k + m) = b
  BY <1>2, <1>4, AppendWord
<1>6. Begins(s, u)
  BY <1>2, <1>5, BeginsTrans
<1>7. ASSUME NEW i \in 1 .. m PROVE u[k + i] = d[i]
  <2>1. k + i \in 1 .. k + m
    BY <1>1
  <2>2. u[k + i] = b[k + i]
    BY <1>2, <1>5, <2>1 DEF Begins
  <2>3. QED
    BY <1>3, <2>2
<1>8. n - 2 = k + m /\ n - 1 = (k + m) + 1 /\ n = k + m + 2
  BY <1>1, <1>5
<1>9. e = d
  <2>1. \A i \in k + 1 .. n - 2 : u[i] \in Octet
    <3>1. ASSUME NEW i \in k + 1 .. n - 2 PROVE i \in 1 .. Len(u)
      BY <1>1, <1>8
    <3>2. u \in Seq(Octet)
      BY <1>5 DEF Begins
    <3>3. QED
      BY <3>1, <3>2, ElementOfSeq
  <2>2. k + 1 \in Int /\ n - 2 \in Int
    BY <1>1, <1>8
  <2>3. /\ e \in Seq(Octet)
        /\ Len(e) = IF k + 1 <= n - 2 THEN (n - 2) - (k + 1) + 1 ELSE 0
        /\ \A i \in 1 .. (n - 2) - (k + 1) + 1 : e[i] = u[(k + 1) + i - 1]
    BY <2>1, <2>2, SubSeqProperties
  <2> HIDE DEF e, k, m
  <2>4. Len(e) = m
    BY <1>1, <1>8, <2>3
  <2>5. ASSUME NEW i \in 1 .. m PROVE e[i] = d[i]
    <3>1. i \in 1 .. (n - 2) - (k + 1) + 1 /\ (k + 1) + i - 1 = k + i
      BY <1>1, <1>8
    <3>2. e[i] = u[k + i]
      BY <2>3, <3>1
    <3>3. QED
      BY <1>7, <3>2
  <2>6. QED
    BY <2>3, <2>4, <2>5, SeqEqual DEF m
<1>10. SubSeq(u, 1, n - 2) = s \o d /\ pus_get_u16(u, n - 1) = w
  BY <1>5, <1>8 DEF b
<1>11. QED
  BY <1>6, <1>7, <1>8, <1>9, <1>10

-----------------------------------------------------------------------------
(* Telecommands *)

\* raw holds tc, part by part ...
HoldsTc(raw, tc) ==
  /\ raw \in Seq(Octet) /\ Len(raw) = PUS_TC_MIN_LEN + Len(tc.app_data)
  /\ pus_get_u16(raw, 1) = tc.version * 8192 + tc.packet_type * 4096
                           + tc.sec_hdr_flag * 2048 + tc.apid
  /\ pus_get_u16(raw, 5) = tc.total - 7
  /\ raw[7] = tc.pus_version * 16 + tc.ack_flags
  /\ raw[8] = tc.service_type /\ raw[9] = tc.service_subtype
  /\ SubSeq(raw, 12, Len(raw) - 2) = tc.app_data
  /\ (crc16_ccitt(SubSeq(raw, 1, Len(raw) - 2)) = pus_get_u16(raw, Len(raw) - 1)) <=> tc.crc_ok

\* ... as build_tc wrote it.
LEMMA BuiltTc ==
  ASSUME NEW tc \in SentTc, NEW seq \in SeqCount, NEW raw, raw = build_tc(tc, seq)
  PROVE  HoldsTc(raw, tc)
<1> DEFINE ver == tc.version
           ptype == tc.packet_type
           flag == tc.sec_hdr_flag
           ap == tc.apid
           pv == tc.pus_version
           ack == tc.ack_flags
           u == ver * 8192 + ptype * 4096 + flag * 2048 + ap
           v == 3 * 16384 + seq
           w == tc.total - 7
           x == pv * 16 + ack
           y == tc.service_type
           z == tc.service_subtype
           h == (pus_put_u16(u) \o pus_put_u16(v)) \o pus_put_u16(w)
           fields == h \o <<x, y, z>>
           front == fields \o pus_put_u16(SOURCE_ID)
           data == tc.app_data
           crc == crc16_ccitt(front \o data)
           check == IF tc.crc_ok THEN crc ELSE Xor16(crc, 1)
           size == Len(raw)
<1>1. /\ ver \in 0 .. 7 /\ ptype \in 0 .. 1 /\ flag \in 0 .. 1
      /\ ap \in Apid /\ w \in Word16 /\ pv \in 0 .. 15 /\ ack \in 0 .. 15
      /\ y \in Octet /\ z \in Octet /\ data \in Seq(Octet) /\ tc.crc_ok \in BOOLEAN
  BY DEF SentTc, RawTc
<1>2. IsPacket(raw, front, data, check)
  BY DEF build_tc, IsPacket
<1> HIDE DEF ver, ptype, flag, ap, pv, ack
<1>3. u \in Word16
  <2>1. JoinsFirst(u, ver, ptype, flag, ap)
    BY DEF JoinsFirst
  <2> HIDE DEF u
  <2>2. QED
    BY ONLY <1>1, <2>1, FirstWordOf
<1>4. v \in Word16
  <2>1. seq \in Int /\ 0 <= seq /\ seq <= 16383
    BY SeqCountRange
  <2>2. v \in Int /\ 0 <= v /\ v <= 65535
    BY <2>1
  <2>3. QED
    BY ONLY <2>2, WordRange
<1>5. x \in Octet
  <2>1. x \in Int /\ 0 <= x /\ x <= 255
    BY <1>1
  <2>2. QED
    BY ONLY <2>1, OctetRange
<1>6. SOURCE_ID \in Word16
  BY WordRange DEF SOURCE_ID
<1> HIDE DEF u, v, w, x, y, z, data
<1>7. /\ h \in Seq(Octet) /\ Len(h) = 6
      /\ pus_get_u16(h, 1) = u /\ pus_get_u16(h, 3) = v /\ pus_get_u16(h, 5) = w
  <2>1. AreWords(h, u, v, w)
    BY DEF AreWords
  <2> HIDE DEF h
  <2>2. QED
    BY ONLY <1>1, <1>3, <1>4, <2>1, ThreeWords
<1> HIDE DEF h
<1>8. Begins(h, fields) /\ Len(fields) = 9 /\ fields[7] = x /\ fields[8] = y /\ fields[9] = z
  <2>1. Begins(h, fields) /\ Len(fields) = 6 + 3 /\ fields[6 + 1] = x /\ fields[6 + 2] = y /\ fields[6 + 3] = z
    <3>1. AreAfter(fields, h, x, y, z)
      BY DEF AreAfter
    <3> HIDE DEF fields
    <3>2. h \in Seq(Octet) /\ y \in Octet /\ z \in Octet
      BY <1>1, <1>7
    <3>3. /\ Begins(h, fields) /\ Len(fields) = Len(h) + 3 /\ fields[Len(h) + 1] = x /\ fields[Len(h) + 2] = y
          /\ fields[Len(h) + 3] = z
      BY ONLY <1>5, <3>1, <3>2, AppendThree
    <3>4. QED
      BY ONLY <1>7, <3>3
  <2>2. 6 + 1 = 7 /\ 6 + 2 = 8 /\ 6 + 3 = 9
    OBVIOUS
  <2>3. QED
    BY ONLY <2>1, <2>2
<1>9. fields \in Seq(Octet)
  BY <1>8 DEF Begins
<1> HIDE DEF fields
<1>10. Begins(fields, front) /\ Len(front) = 11
  <2>1. Begins(fields, front) /\ Len(front) = 9 + 2
    BY <1>6, <1>8, <1>9, AppendWord
  <2>2. QED
    BY <2>1
<1>11. front \in Seq(Octet)
  BY <1>10 DEF Begins
<1> HIDE DEF front
<1>12. crc \in Word16
  <2>1. Len(front \o data) \in Nat
    BY <1>1, <1>11, ConcatProperties, LenProperties
  <2>2. QED
    BY <2>1, CrcWord
<1>13. check \in Word16 /\ (crc = check <=> tc.crc_ok)
  BY <1>1, <1>12, XorWord, XorOneDiffers
<1> HIDE DEF crc, check
<1>14. /\ Begins(front, raw) /\ size = Len(front) + Len(data) + 2
       /\ SubSeq(raw, 1, size - 2) = front \o data
       /\ SubSeq(raw, Len(front) + 1, size - 2) = data
       /\ pus_get_u16(raw, size - 1) = check
  <2>1. data \in Seq(Octet) /\ check \in Word16
    BY <1>1, <1>13
  <2>2. /\ Begins(front, raw) /\ Len(raw) = Len(front) + Len(data) + 2
        /\ SubSeq(raw, 1, Len(raw) - 2) = front \o data
        /\ SubSeq(raw, Len(front) + 1, Len(raw) - 2) = data
        /\ pus_get_u16(raw, Len(raw) - 1) = check
    BY ONLY <1>2, <1>11, <2>1, DataAndChecksum
  <2>3. QED
    BY ONLY <2>2
<1> HIDE DEF size
<1>15. Begins(h, raw) /\ Begins(fields, raw)
  BY <1>8, <1>10, <1>14, BeginsTrans
<1>16. pus_get_u16(raw, 1) = u
  BY <1>7, <1>15, GetKept, 1 \in Nat, 1 <= 1, 1 + 1 <= 6
<1>18. pus_get_u16(raw, 5) = w
  BY <1>7, <1>15, GetKept, 5 \in Nat, 1 <= 5, 5 + 1 <= 6
<1>19. raw[7] = x /\ raw[8] = y /\ raw[9] = z
  BY <1>8, <1>15, 7 \in 1 .. 9, 8 \in 1 .. 9, 9 \in 1 .. 9 DEF Begins
<1>20. SubSeq(raw, 12, size - 2) = data /\ size = PUS_TC_MIN_LEN + Len(data)
  <2>1. Len(front) + 1 = 12
    BY <1>10
  <2>2. Len(data) \in Nat
    BY <1>1, LenProperties
  <2>3. PUS_TC_MIN_LEN = 13
    BY DEF PUS_TC_MIN_LEN, CCSDS_PRIMARY_HEADER_LEN, PUS_TC_SEC_HEADER_LEN, CCSDS_CRC_LEN
  <2>4. size = 13 + Len(data)
    BY ONLY <1>10, <1>14, <2>2
  <2>5. QED
    BY ONLY <1>14, <2>1, <2>3, <2>4
<1>21. (crc16_ccitt(SubSeq(raw, 1, size - 2)) = pus_get_u16(raw, size - 1)) <=> tc.crc_ok
  BY <1>13, <1>14 DEF crc
<1>22. raw \in Seq(Octet)
  BY <1>14 DEF Begins
<1>23. QED
  BY <1>16, <1>18, <1>19, <1>20, <1>21, <1>22
     DEF HoldsTc, size, u, w, x, y, z, data, ver, ptype, flag, ap, pv, ack

\* The first two words are the first four octets.
LEMMA FourOctets ==
  ASSUME NEW buf \in Seq(Octet), 6 <= Len(buf)
  PROVE  pus_put_u16(pus_get_u16(buf, 1)) \o pus_put_u16(pus_get_u16(buf, 3)) = SubSeq(buf, 1, 4)
<1> DEFINE v == pus_put_u16(pus_get_u16(buf, 1)) \o pus_put_u16(pus_get_u16(buf, 3))
           w == pus_put_u16(pus_get_u16(buf, 5))
           p == SubSeq(buf, 1, 4)
           q == SubSeq(buf, 1, 6)
<1>1. Len(buf) \in Nat
  BY LenProperties
<1>2. /\ pus_get_u16(buf, 1) \in Word16 /\ pus_get_u16(buf, 3) \in Word16
      /\ pus_get_u16(buf, 5) \in Word16 /\ v \o w = q
  BY SixOctets
<1>3. w \in Seq(Octet) /\ v \in Seq(Octet) /\ Len(v) = 4
  <2> DEFINE a == pus_put_u16(pus_get_u16(buf, 1))
             b == pus_put_u16(pus_get_u16(buf, 3))
  <2>1. a \in Seq(Octet) /\ Len(a) = 2 /\ b \in Seq(Octet) /\ Len(b) = 2 /\ w \in Seq(Octet)
    BY <1>2, FirstWord
  <2>2. v = a \o b
    OBVIOUS
  <2> HIDE DEF a, b, v, w
  <2>3. Begins(a, a \o b) /\ Len(a \o b) = Len(a) + Len(b)
    BY ONLY <2>1, BeginsConcat
  <2>4. a \o b \in Seq(Octet)
    BY ONLY <2>3 DEF Begins
  <2>5. QED
    BY ONLY <2>1, <2>2, <2>3, <2>4
<1>4. /\ p \in Seq(Octet) /\ Len(p) = 4 /\ \A i \in 1 .. 4 : p[i] = buf[i]
  BY <1>1, SplitSeq, 4 \in 0 .. Len(buf)
<1>5. /\ q \in Seq(Octet) /\ Len(q) = 6 /\ \A i \in 1 .. 6 : q[i] = buf[i]
  BY <1>1, SplitSeq, 6 \in 0 .. Len(buf)
<1> HIDE DEF p, q, v, w
<1>6. Begins(v, q)
  BY <1>2, <1>3, BeginsConcat
<1>7. \A i \in 1 .. 4 : v[i] = p[i]
  <2>1. \A i \in 1 .. 4 : v[i] = q[i]
    BY <1>3, <1>6 DEF Begins
  <2>2. \A i \in 1 .. 4 : i \in 1 .. 6
    OBVIOUS
  <2>3. QED
    BY <1>4, <1>5, <2>1, <2>2
<1>8. v = p
  BY <1>3, <1>4, <1>7, SeqEqual
<1>9. QED
  BY <1>8 DEF v, p

LEMMA SameTruth == ASSUME NEW p \in BOOLEAN, NEW q \in BOOLEAN, p <=> q PROVE p = q
  OBVIOUS

\* ReceivedTc reads back what build_tc wrote.
LEMMA DecodedTc ==
  ASSUME NEW tc \in SentTc, NEW seq \in SeqCount, NEW raw, raw = build_tc(tc, seq),
         NEW got, got = ReceivedTc(raw)
  PROVE  /\ got = [tc EXCEPT !.request_id = got.request_id]
         /\ pus_put_u16(got.request_id[1]) \o pus_put_u16(got.request_id[2]) = SubSeq(raw, 1, 4)
<1> DEFINE size == Len(raw)
           u == pus_get_u16(raw, 1)
           v == pus_get_u16(raw, 3)
           w == pus_get_u16(raw, 5)
           ver == tc.version
           ptype == tc.packet_type
           flag == tc.sec_hdr_flag
           ap == tc.apid
           pv == tc.pus_version
           ack == tc.ack_flags
           total == tc.total
           x == raw[7]
           ok == crc16_ccitt(SubSeq(raw, 1, size - 2)) = pus_get_u16(raw, size - 1)
<1>1. /\ raw \in Seq(Octet) /\ size = PUS_TC_MIN_LEN + Len(tc.app_data)
      /\ u = ver * 8192 + ptype * 4096 + flag * 2048 + ap
      /\ w = total - 7
      /\ x = pv * 16 + ack
      /\ raw[8] = tc.service_type /\ raw[9] = tc.service_subtype
      /\ SubSeq(raw, 12, size - 2) = tc.app_data
      /\ ok <=> tc.crc_ok
  <2>1. HoldsTc(raw, tc)
    BY BuiltTc
  <2>2. QED
    BY ONLY <2>1 DEF HoldsTc
<1>2. /\ tc \in RawTc /\ tc.len = PUS_TC_MIN_LEN + Len(tc.app_data) /\ total \in Nat
      /\ ver \in 0 .. 7 /\ ptype \in 0 .. 1 /\ flag \in 0 .. 1 /\ ap \in Apid
      /\ pv \in 0 .. 15 /\ ack \in 0 .. 15 /\ tc.crc_ok \in BOOLEAN /\ Len(tc.app_data) \in Nat
  BY LenProperties DEF SentTc, RawTc
<1>3. PUS_TC_MIN_LEN = 13 /\ CCSDS_CRC_LEN = 2 /\ CCSDS_PRIMARY_HEADER_LEN = 6
  BY DEF PUS_TC_MIN_LEN, CCSDS_PRIMARY_HEADER_LEN, PUS_TC_SEC_HEADER_LEN, CCSDS_CRC_LEN
<1>4. size >= PUS_TC_MIN_LEN /\ 6 <= size
  BY ONLY <1>1, <1>2, <1>3
<1>5. Padded(raw) = raw
  BY <1>4 DEF Padded
<1>6. got = [len             |-> size,
             total           |-> 6 + w + 1,
             crc_ok          |-> ok,
             version         |-> (u \div 8192) % 8,
             packet_type     |-> (u \div 4096) % 2,
             sec_hdr_flag    |-> (u \div 2048) % 2,
             apid            |-> u % 2048,
             pus_version     |-> x \div 16,
             ack_flags       |-> x % 16,
             service_type    |-> raw[8],
             service_subtype |-> raw[9],
             request_id      |-> <<u, v>>,
             app_data        |-> SubSeq(raw, 12, size - 2)]
  BY <1>3, <1>5 DEF ReceivedTc, AckFlags, ccsds_unpack_primary, ApidOf, ccsds_total_length
<1>10. ok = tc.crc_ok
  <2>1. ok \in BOOLEAN
    OBVIOUS
  <2> HIDE DEF ok
  <2>2. tc.crc_ok \in BOOLEAN /\ (ok <=> tc.crc_ok)
    BY ONLY <1>1, <1>2
  <2>3. QED
    BY ONLY <2>1, <2>2, SameTruth
<1> HIDE DEF size, u, v, w, ver, ptype, flag, ap, pv, ack, total, x, ok
<1>7. (u \div 8192) % 8 = ver /\ (u \div 4096) % 2 = ptype /\ (u \div 2048) % 2 = flag /\ u % 2048 = ap
  <2>1. JoinsFirst(u, ver, ptype, flag, ap)
    BY <1>1 DEF JoinsFirst
  <2>2. QED
    BY ONLY <1>2, <2>1, FirstWordOf
<1>8. x \div 16 = pv /\ x % 16 = ack
  <2>1. x = pv * 16 + ack
    BY ONLY <1>1
  <2>2. pv \in Int /\ 0 <= pv /\ pv <= 15 /\ ack \in Int /\ 0 <= ack /\ ack <= 15
    BY ONLY <1>2
  <2>3. QED
    BY ONLY <2>1, <2>2
<1>9. 6 + w + 1 = total /\ size = tc.len
  BY ONLY <1>1, <1>2
<1>11. got = [len |-> tc.len, total |-> tc.total, crc_ok |-> tc.crc_ok, version |-> tc.version,
              packet_type |-> tc.packet_type, sec_hdr_flag |-> tc.sec_hdr_flag, apid |-> tc.apid,
              pus_version |-> tc.pus_version, ack_flags |-> tc.ack_flags,
              service_type |-> tc.service_type, service_subtype |-> tc.service_subtype,
              request_id |-> <<u, v>>, app_data |-> tc.app_data]
  <2>1. /\ raw[8] = tc.service_type /\ raw[9] = tc.service_subtype
        /\ SubSeq(raw, 12, size - 2) = tc.app_data
    BY ONLY <1>1
  <2> DEFINE a == (u \div 8192) % 8
             b == (u \div 4096) % 2
             c == (u \div 2048) % 2
             d == u % 2048
             e == x \div 16
             f == x % 16
             g == 6 + w + 1
             h == SubSeq(raw, 12, size - 2)
  <2>2. got = [len |-> size, total |-> g, crc_ok |-> ok, version |-> a, packet_type |-> b,
               sec_hdr_flag |-> c, apid |-> d, pus_version |-> e, ack_flags |-> f,
               service_type |-> raw[8], service_subtype |-> raw[9],
               request_id |-> <<u, v>>, app_data |-> h]
    BY ONLY <1>6
  <2>3. /\ a = tc.version /\ b = tc.packet_type /\ c = tc.sec_hdr_flag /\ d = tc.apid
        /\ e = tc.pus_version /\ f = tc.ack_flags /\ g = tc.total /\ h = tc.app_data
    BY ONLY <1>7, <1>8, <1>9, <2>1 DEF ver, ptype, flag, ap, pv, ack, total
  <2> HIDE DEF a, b, c, d, e, f, g, h
  <2>4. QED
    BY ONLY <1>9, <1>10, <2>1, <2>2, <2>3
<1>12. got.request_id = <<u, v>>
  BY ONLY <1>11
<1>13. got = [tc EXCEPT !.request_id = got.request_id]
  BY ONLY <1>2, <1>11, <1>12 DEF RawTc
<1>14. pus_put_u16(u) \o pus_put_u16(v) = SubSeq(raw, 1, 4)
  <2>1. raw \in Seq(Octet) /\ 6 <= Len(raw)
    BY ONLY <1>1, <1>4 DEF size
  <2>2. QED
    BY ONLY <2>1, FourOctets DEF u, v
<1>15. QED
  BY <1>12, <1>13, <1>14

-----------------------------------------------------------------------------
(* Fields of one, two or four octets *)

LEMMA LongOctets ==
  ASSUME NEW v \in Word32, NEW a, NEW b, NEW c, NEW d,
         a = (v \div 16777216) % 256, b = (v \div 65536) % 256, c = (v \div 256) % 256, d = v % 256
  PROVE  /\ a \in Octet /\ b \in Octet /\ c \in Octet /\ d \in Octet
         /\ ((a * 256 + b) * 256 + c) * 256 + d = v
<1> DEFINE q == v \div 65536
           r == v % 65536
<1>1. v \in Nat /\ q \in Int /\ 0 <= q /\ q <= 65535
  BY WordRange DEF Word32
<1>2. r \in Int /\ 0 <= r /\ r <= 65535 /\ v = 65536 * q + r
  BY <1>1
<1>3. v \div 16777216 = q \div 256
  BY <1>1
<1>4. (v \div 256) % 256 = r \div 256 /\ v % 256 = r % 256
  BY <1>1, <1>2
<1> HIDE DEF q, r
<1>5. a * 256 + b = q /\ c * 256 + d = r
  BY <1>1, <1>2, <1>3, <1>4 DEF q
<1>6. /\ a \in Int /\ 0 <= a /\ a <= 255 /\ b \in Int /\ 0 <= b /\ b <= 255
      /\ c \in Int /\ 0 <= c /\ c <= 255 /\ d \in Int /\ 0 <= d /\ d <= 255
  BY <1>1
<1>7. ((a * 256 + b) * 256 + c) * 256 + d = v
  BY ONLY <1>1, <1>2, <1>5, <1>6
<1>8. QED
  BY <1>6, <1>7, OctetRange

Get(width, d, i) == CASE width = 1 -> d[i]
                      [] width = 2 -> pus_get_u16(d, i)
                      [] width = 4 -> pus_get_u32(d, i)
Fits(width, v) == \/ width = 1 /\ v \in Octet
                  \/ width = 2 /\ v \in Word16
                  \/ width = 4 /\ v \in Word32

LEMMA PutField ==
  ASSUME NEW width, NEW v, Fits(width, v)
  PROVE  /\ width \in {1, 2, 4} /\ Put(width, v) \in Seq(Octet) /\ Len(Put(width, v)) = width
         /\ Get(width, Put(width, v), 1) = v
<1>1. CASE width = 1 /\ v \in Octet
  BY <1>1 DEF Put, Get
<1>2. CASE width = 2 /\ v \in Word16
  <2>1. Put(width, v) = pus_put_u16(v) /\ \A d : Get(width, d, 1) = pus_get_u16(d, 1)
    BY ONLY <1>2 DEF Put, Get
  <2>2. QED
    BY <1>2, <2>1, FirstWord
<1>3. CASE width = 4 /\ v \in Word32
  <2> DEFINE a == (v \div 16777216) % 256
             b == (v \div 65536) % 256
             c == (v \div 256) % 256
             d == v % 256
             t == <<a, b, c, d>>
  <2>1. Put(width, v) = t /\ Get(width, t, 1) = pus_get_u32(t, 1)
    BY <1>3 DEF Put, Get, pus_put_u32
  <2>2. /\ a \in Octet /\ b \in Octet /\ c \in Octet /\ d \in Octet
        /\ ((a * 256 + b) * 256 + c) * 256 + d = v
    BY <1>3, LongOctets
  <2> HIDE DEF a, b, c, d
  <2>3. t \in Seq(Octet) /\ Len(t) = 4 /\ t[1] = a /\ t[2] = b /\ t[3] = c /\ t[4] = d
    BY <2>2
  <2>4. pus_get_u32(t, 1) = v
    BY <2>2, <2>3, 1 + 1 = 2, 1 + 2 = 3, 1 + 3 = 4 DEF pus_get_u32
  <2> HIDE DEF t
  <2>5. QED
    BY ONLY <1>3, <2>1, <2>3, <2>4
<1>4. QED
  BY <1>1, <1>2, <1>3 DEF Fits

\* t holds d after its first k elements.
Holds(t, k, d) == k \in Nat /\ d \in Seq(Octet) /\ \A i \in 1 .. Len(d) : t[k + i] = d[i]

LEMMA GetHeld ==
  ASSUME NEW t, NEW k, NEW d, Holds(t, k, d), NEW width \in {1, 2, 4}, NEW i \in Nat,
         1 <= i, i + width <= Len(d) + 1
  PROVE  Get(width, t, k + i) = Get(width, d, i)
<1>1. k \in Nat /\ Len(d) \in Nat /\ i \in 1 .. Len(d) /\ t[k + i] = d[i]
  BY LenProperties DEF Holds
<1>2. CASE width = 1
  BY <1>1, <1>2 DEF Get
<1>3. ASSUME NEW j \in 1 .. 3, i + j <= Len(d) PROVE t[(k + i) + j] = d[i + j]
  <2>1. i + j \in 1 .. Len(d) /\ (k + i) + j = k + (i + j)
    BY <1>1, <1>3
  <2>2. QED
    BY ONLY <2>1, Holds(t, k, d) DEF Holds
<1>4. CASE width = 2
  <2>1. t[(k + i) + 1] = d[i + 1]
    BY <1>1, <1>3, <1>4
  <2>2. QED
    BY ONLY <1>1, <1>4, <2>1 DEF Get, pus_get_u16
<1>5. CASE width = 4
  <2>1. t[(k + i) + 1] = d[i + 1] /\ t[(k + i) + 2] = d[i + 2] /\ t[(k + i) + 3] = d[i + 3]
    BY <1>1, <1>3, <1>5
  <2>2. QED
    BY ONLY <1>1, <1>5, <2>1 DEF Get, pus_get_u32
<1>6. QED
  BY <1>2, <1>4, <1>5

LEMMA GetBegun ==
  ASSUME NEW s, NEW t, Begins(s, t), NEW width \in {1, 2, 4}, NEW i \in Nat,
         1 <= i, i + width <= Len(s) + 1
  PROVE  Get(width, t, i) = Get(width, s, i)
<1>1. Len(s) \in Nat /\ Holds(t, 0, s)
  BY LenProperties DEF Begins, Holds
<1>2. Get(width, t, 0 + i) = Get(width, s, i)
  BY <1>1, GetHeld
<1>3. QED
  BY <1>2, 0 + i = i

\* A field at the end.
Adds(t, s, width, v) == t = s \o Put(width, v)

LEMMA AppendField ==
  ASSUME NEW s \in Seq(Octet), NEW width, NEW v, Fits(width, v), NEW t, Adds(t, s, width, v)
  PROVE  /\ t \in Seq(Octet) /\ Begins(s, t) /\ Len(t) = Len(s) + width
         /\ Get(width, t, Len(s) + 1) = v
<1> DEFINE d == Put(width, v)
<1>1. /\ width \in {1, 2, 4} /\ d \in Seq(Octet) /\ Len(d) = width /\ Get(width, d, 1) = v
  BY PutField
<1>2. t = s \o d
  BY DEF Adds
<1> HIDE DEF d
<1>3. Begins(s, t) /\ Len(t) = Len(s) + Len(d)
  BY <1>1, <1>2, BeginsConcat
<1>4. Holds(t, Len(s), d)
  BY <1>1, <1>2, ConcatRest, LenProperties DEF Holds
<1>5. Get(width, t, Len(s) + 1) = Get(width, d, 1)
  BY <1>1, <1>4, GetHeld, 1 \in Nat, 1 <= 1, 1 + width <= width + 1
<1>6. QED
  BY <1>1, <1>3, <1>5 DEF Begins

\* ss is m fields of widths ws and values vs, each starting after off[i - 1] octets.
AreFields(ss, ws, vs, off, m) ==
  /\ ss = [i \in 1 .. m |-> Put(ws[i], vs[i])]
  /\ \A i \in 1 .. m : Fits(ws[i], vs[i])
  /\ off \in [0 .. m -> Nat] /\ off[0] = 0
  /\ \A i \in 1 .. m : off[i] = off[i - 1] + ws[i]

\* d is the first n of them, one after another.
ReadsAs(d, ws, vs, off, n) ==
  /\ d \in Seq(Octet) /\ Len(d) = off[n]
  /\ \A i \in 1 .. n : off[i] <= off[n] /\ Get(ws[i], d, off[i - 1] + 1) = vs[i]

LEMMA FieldsFlattened ==
  ASSUME NEW m \in Nat, m # 0, NEW ss, NEW ws, NEW vs, NEW off, AreFields(ss, ws, vs, off, m)
  PROVE  ReadsAs(FlattenSeq(ss), ws, vs, off, m)
<1> DEFINE T == {n \in Nat : n \in 1 .. m => ReadsAs(Flat(ss)[n], ws, vs, off, n)}
<1>1. /\ Len(ss) = m /\ \A i \in 1 .. m : ss[i] = Put(ws[i], vs[i]) /\ Fits(ws[i], vs[i])
      /\ \A i \in 0 .. m : off[i] \in Nat
      /\ off[0] = 0 /\ \A i \in 1 .. m : off[i] = off[i - 1] + ws[i]
  BY DEF AreFields
<1>2. \A i \in 1 .. m : ws[i] \in {1, 2, 4}
  BY <1>1, PutField
<1>3. 0 \in T
  OBVIOUS
<1>4. ASSUME NEW n \in Nat, n \in T PROVE n + 1 \in T
  <2> SUFFICES ASSUME NEW j, j = n + 1, j \in 1 .. m PROVE ReadsAs(Flat(ss)[j], ws, vs, off, j)
    OBVIOUS
  <2> DEFINE t == Flat(ss)[j]
             x == ws[j]
             y == vs[j]
  <2>1. ss[j] = Put(x, y) /\ Fits(x, y) /\ j - 1 = n /\ off[j] = off[n] + x /\ x \in {1, 2, 4}
    BY <1>1, <1>2
  <2>2. off[j] \in Nat /\ off[n] \in Nat
    BY <1>1
  <2>3. CASE n = 0
    <3>1. t = Put(x, y)
      BY <1>1, <2>1, <2>3, FlatFirst
    <3>2. t \in Seq(Octet) /\ Len(t) = x /\ Get(x, t, 1) = y
      BY <2>1, <3>1, PutField
    <3>3. j = 1 /\ off[j] = x /\ off[j - 1] + 1 = 1
      BY <1>1, <2>1, <2>2, <2>3
    <3> HIDE DEF t
    <3>4. ASSUME NEW i \in 1 .. j PROVE off[i] <= off[j] /\ Get(ws[i], t, off[i - 1] + 1) = vs[i]
      <4>1. i = j
        BY <3>3
      <4>2. QED
        BY <2>2, <3>2, <3>3, <4>1
    <3>5. QED
      BY <3>2, <3>3, <3>4 DEF ReadsAs, t
  <2>4. CASE n # 0
    <3> DEFINE d == Flat(ss)[n]
    <3>1. n \in 1 .. m
      BY <2>4
    <3>2. ReadsAs(d, ws, vs, off, n)
      BY <1>4, <3>1
    <3>3. t = d \o ss[j]
      <4>1. Flat(ss)[j] = IF j = 1 THEN ss[j] ELSE Flat(ss)[j - 1] \o ss[j]
        BY <1>1, FlatEquations
      <4>2. j # 1
        BY <2>1, <2>4
      <4>3. QED
        BY ONLY <2>1, <4>1, <4>2
    <3>4. Adds(t, d, x, y)
      BY <2>1, <3>3 DEF Adds
    <3> HIDE DEF t, d
    <3>5. d \in Seq(Octet) /\ Len(d) = off[n]
      BY <3>2 DEF ReadsAs
    <3>6. t \in Seq(Octet) /\ Begins(d, t) /\ Len(t) = Len(d) + x /\ Get(x, t, Len(d) + 1) = y
      <4> HIDE DEF x, y
      <4>1. Fits(x, y) /\ d \in Seq(Octet)
        BY <2>1, <3>5
      <4>2. QED
        BY ONLY <3>4, <4>1, AppendField
    <3>7. ASSUME NEW i \in 1 .. j PROVE off[i] <= off[j] /\ Get(ws[i], t, off[i - 1] + 1) = vs[i]
      <4>1. CASE i = j
        BY <2>1, <2>2, <3>5, <3>6, <4>1
      <4>2. CASE i # j
        <5> DEFINE k == off[i - 1] + 1
                   z == ws[i]
        <5>1. i \in 1 .. n /\ i \in 1 .. m
          BY <4>2
        <5>2. off[i] <= off[n] /\ Get(z, d, k) = vs[i]
          BY <3>2, <5>1 DEF ReadsAs
        <5>3. off[i] \in Nat /\ off[i - 1] \in Nat /\ off[i] = off[i - 1] + z /\ z \in {1, 2, 4}
          BY <1>1, <1>2, <5>1
        <5>4. k \in Nat /\ 1 <= k /\ k + z <= Len(d) + 1
          <6> DEFINE a == off[i - 1]
                     b == off[i]
                     c == off[n]
          <6>1. a \in Nat /\ b \in Nat /\ c \in Nat /\ b = a + z /\ b <= c /\ Len(d) = c
            BY ONLY <2>2, <3>5, <5>2, <5>3
          <6>2. z \in Int /\ k = a + 1
            BY ONLY <5>3
          <6> HIDE DEF a, b, c, k, z
          <6>3. QED
            BY ONLY <6>1, <6>2
        <5> HIDE DEF k, z
        <5>5. Get(z, t, k) = Get(z, d, k)
          BY ONLY <3>6, <5>3, <5>4, GetBegun
        <5>6. off[i] <= off[j]
          BY <2>1, <2>2, <5>2, <5>3
        <5>7. QED
          BY <5>2, <5>5, <5>6 DEF k, z
      <4>3. QED
        BY <4>1, <4>2
    <3>8. Len(t) = off[j]
      BY <2>1, <3>5, <3>6
    <3>9. QED
      BY <3>6, <3>7, <3>8 DEF ReadsAs, t
  <2>5. QED
    BY <2>3, <2>4
<1> HIDE DEF T
<1>5. \A n \in Nat : n \in T
  BY <1>3, <1>4, SetInduction
<1>6. ReadsAs(Flat(ss)[m], ws, vs, off, m)
  BY <1>5, m \in 1 .. m DEF T
<1>7. FlattenSeq(ss) = Flat(ss)[m]
  BY <1>1, FlatEquations
<1>8. QED
  BY <1>6, <1>7

-----------------------------------------------------------------------------
(* Telemetry *)

\* raw holds packet p of source data d stamped with time, part by part ...
HoldsTm(raw, p, time, d) ==
  /\ raw \in Seq(Octet) /\ Len(raw) = 21 + Len(d)
  /\ pus_get_u16(raw, 1) = 2060
  /\ pus_get_u16(raw, 3) = 3 * 16384 + p.seq_count
  /\ pus_get_u16(raw, 5) = Len(raw) - 7
  /\ raw[7] = 32 /\ raw[8] = p.service /\ raw[9] = p.subtype
  /\ pus_get_u16(raw, 10) = p.msg_counter /\ pus_get_u16(raw, 12) = PUS_TM_DESTINATION_ID
  /\ pus_get_u32(raw, 14) = time.coarse /\ pus_get_u16(raw, 18) = time.fine
  /\ Holds(raw, 19, d)
  /\ crc16_ccitt(SubSeq(raw, 1, Len(raw) - 2)) = pus_get_u16(raw, Len(raw) - 1)

\* The primary header of a packet of total octets.
LEMMA PrimaryWords ==
  ASSUME NEW p, p.seq_count \in SeqCount, NEW total \in Int, 7 <= total, total <= 256,
         NEW h, h = ccsds_pack_primary(Primary(p, total), PUS_MAX_PACKET_SIZE).octets
  PROVE  AreWords(h, 2060, 3 * 16384 + p.seq_count, total - 7)
<1> DEFINE c == p.seq_count
           y == ((3 % 4) * 16384) + ((c % 16384) % 16384)
<1>1. ~(PUS_MAX_PACKET_SIZE < CCSDS_PRIMARY_HEADER_LEN)
  BY DEF PUS_MAX_PACKET_SIZE, CCSDS_PRIMARY_HEADER_LEN
<1>2. Primary(p, total) = [version |-> 0, packet_type |-> 0, sec_hdr_flag |-> 1, apid |-> 12,
                           seq_flags |-> 3, seq_count |-> c % 16384, data_length |-> total - 6 - 1]
  BY DEF Primary, CCSDS_TYPE_TM, PUS_TM_APID, CCSDS_SEQ_FLAG_UNSEGMENTED, DataLength,
         CCSDS_PRIMARY_HEADER_LEN
<1>3. (0 % 8) * 8192 + (0 % 2) * 4096 + (1 % 2) * 2048 + (12 % 2048) = 2060
  OBVIOUS
<1>4. y = 3 * 16384 + c
  <2> HIDE DEF c
  <2>1. c \in Int /\ 0 <= c /\ c <= 16383
    BY SeqCountRange DEF c
  <2>2. QED
    BY ONLY <2>1
<1>5. total - 6 - 1 = total - 7
  OBVIOUS
<1>6. h = (pus_put_u16((0 % 8) * 8192 + (0 % 2) * 4096 + (1 % 2) * 2048 + (12 % 2048))
           \o pus_put_u16(y)) \o pus_put_u16(total - 6 - 1)
  <2> HIDE DEF c
  <2>1. QED
    BY <1>1, <1>2 DEF ccsds_pack_primary
<1> HIDE DEF y
<1>7. QED
  BY ONLY <1>3, <1>4, <1>5, <1>6 DEF AreWords, c

\* ... as pus_tm_build wrote it.
LEMMA BuiltTm ==
  ASSUME NEW p, p.seq_count \in SeqCount, p.msg_counter \in Word16, p.service \in Octet,
         p.subtype \in Octet, NEW time, time.coarse \in Word32, time.fine \in Word16,
         NEW d \in Seq(Octet), d = SourceData(p), Len(d) <= 20,
         NEW raw, raw = pus_tm_build(p, time, PUS_MAX_PACKET_SIZE).octets
  PROVE  HoldsTm(raw, p, time, d)
<1> DEFINE total == 21 + Len(d)
           u == 3 * 16384 + p.seq_count
           w == total - 7
           serv == p.service
           sub == p.subtype
           mc == p.msg_counter
           co == time.coarse
           fi == time.fine
           h == ccsds_pack_primary(Primary(p, total), PUS_MAX_PACKET_SIZE).octets
           s1 == h \o <<32, serv, sub>>
           s2 == s1 \o pus_put_u16(mc)
           s3 == s2 \o pus_put_u16(PUS_TM_DESTINATION_ID)
           s4 == s3 \o pus_put_u32(co)
           s5 == s4 \o pus_put_u16(fi)
           crc == crc16_ccitt(s5 \o d)
<1>1. /\ mc \in Word16 /\ serv \in Octet /\ sub \in Octet /\ co \in Word32 /\ fi \in Word16
      /\ Len(d) \in Nat /\ total \in Int /\ 7 <= total /\ total <= 256
  BY LenProperties
<1>2. IsPacket(raw, s5, d, crc)
  <2>1. PUS_TM_MIN_LEN + Len(d) = total
    BY DEF PUS_TM_MIN_LEN, CCSDS_PRIMARY_HEADER_LEN, PUS_TM_SEC_HEADER_LEN, CCSDS_CRC_LEN
  <2>2. ~(total > PUS_MAX_PACKET_SIZE)
    BY <1>1 DEF PUS_MAX_PACKET_SIZE
  <2>3. PUS_VERSION_C * 16 + PUS_TM_TIME_REF_STATUS = 32
    BY DEF PUS_VERSION_C, PUS_TM_TIME_REF_STATUS
  <2> HIDE DEF total
  <2>4. QED
    BY <2>1, <2>2, <2>3 DEF pus_tm_build, IsPacket
<1>3. u \in Word16
  <2>1. p.seq_count \in Int /\ 0 <= p.seq_count /\ p.seq_count <= 16383
    BY SeqCountRange
  <2>2. u \in Int /\ 0 <= u /\ u <= 65535
    BY <2>1
  <2>3. QED
    BY ONLY <2>2, WordRange
<1>4. w \in Word16 /\ 2060 \in Word16 /\ PUS_TM_DESTINATION_ID \in Word16
  <2>1. w \in Int /\ 0 <= w /\ w <= 65535 /\ 2060 \in Int /\ 0 <= 2060 /\ 2060 <= 65535
    BY <1>1
  <2> HIDE DEF w
  <2>2. PUS_TM_DESTINATION_ID \in Int /\ 0 <= PUS_TM_DESTINATION_ID /\ PUS_TM_DESTINATION_ID <= 65535
    BY DEF PUS_TM_DESTINATION_ID
  <2>3. QED
    BY ONLY <2>1, <2>2, WordRange
<1>5. AreWords(h, 2060, u, w)
  BY <1>1, PrimaryWords
<1> HIDE DEF h, total, u, w, serv, sub, mc, co, fi
<1>6. /\ h \in Seq(Octet) /\ Len(h) = 6
      /\ pus_get_u16(h, 1) = 2060 /\ pus_get_u16(h, 3) = u /\ pus_get_u16(h, 5) = w
  <2> DEFINE k == 2060
  <2>1. AreWords(h, k, u, w) /\ k \in Word16
    BY ONLY <1>4, <1>5
  <2> HIDE DEF k
  <2>2. h \in Seq(Octet) /\ Len(h) = 6 /\ pus_get_u16(h, 1) = k /\ pus_get_u16(h, 3) = u
        /\ pus_get_u16(h, 5) = w
    BY ONLY <1>3, <1>4, <2>1, ThreeWords
  <2>3. QED
    BY ONLY <2>2 DEF k
<1>7. /\ s1 \in Seq(Octet) /\ Begins(h, s1) /\ Len(s1) = 9
      /\ s1[7] = 32 /\ s1[8] = serv /\ s1[9] = sub
  <2> DEFINE k == 32
  <2>1. AreAfter(s1, h, k, serv, sub)
    BY DEF AreAfter
  <2>2. h \in Seq(Octet) /\ k \in Octet
    BY <1>6 DEF Octet
  <2> HIDE DEF s1, k
  <2>3. /\ Begins(h, s1) /\ Len(s1) = Len(h) + 3 /\ s1[Len(h) + 1] = k /\ s1[Len(h) + 2] = serv
        /\ s1[Len(h) + 3] = sub
    BY ONLY <1>1, <2>1, <2>2, AppendThree
  <2>4. QED
    BY ONLY <1>6, <2>3 DEF Begins, k
<1> HIDE DEF s1
<1>8. s2 \in Seq(Octet) /\ Begins(s1, s2) /\ Len(s2) = 11 /\ Get(2, s2, 10) = mc
  <2> DEFINE k == 2
  <2>1. Adds(s2, s1, k, mc) /\ Fits(k, mc)
    BY <1>1 DEF Adds, Put, Fits
  <2>2. s1 \in Seq(Octet)
    BY <1>7
  <2> HIDE DEF s2, k
  <2>3. /\ s2 \in Seq(Octet) /\ Begins(s1, s2) /\ Len(s2) = Len(s1) + k
        /\ Get(k, s2, Len(s1) + 1) = mc
    BY ONLY <2>1, <2>2, AppendField
  <2>4. QED
    BY ONLY <1>7, <2>3 DEF k
<1> HIDE DEF s2
<1>9. /\ s3 \in Seq(Octet) /\ Begins(s2, s3) /\ Len(s3) = 13
      /\ Get(2, s3, 12) = PUS_TM_DESTINATION_ID
  <2> DEFINE k == 2
  <2>1. Adds(s3, s2, k, PUS_TM_DESTINATION_ID) /\ Fits(k, PUS_TM_DESTINATION_ID)
    BY <1>4 DEF Adds, Put, Fits
  <2>2. s2 \in Seq(Octet)
    BY <1>8
  <2> HIDE DEF s3, k
  <2>3. /\ s3 \in Seq(Octet) /\ Begins(s2, s3) /\ Len(s3) = Len(s2) + k
        /\ Get(k, s3, Len(s2) + 1) = PUS_TM_DESTINATION_ID
    BY ONLY <2>1, <2>2, AppendField
  <2>4. QED
    BY ONLY <1>8, <2>3 DEF k
<1> HIDE DEF s3
<1>10. s4 \in Seq(Octet) /\ Begins(s3, s4) /\ Len(s4) = 17 /\ Get(4, s4, 14) = co
  <2> DEFINE k == 4
  <2>1. Adds(s4, s3, k, co) /\ Fits(k, co)
    BY <1>1 DEF Adds, Put, Fits
  <2>2. s3 \in Seq(Octet)
    BY <1>9
  <2> HIDE DEF s4, k
  <2>3. /\ s4 \in Seq(Octet) /\ Begins(s3, s4) /\ Len(s4) = Len(s3) + k
        /\ Get(k, s4, Len(s3) + 1) = co
    BY ONLY <2>1, <2>2, AppendField
  <2>4. QED
    BY ONLY <1>9, <2>3 DEF k
<1> HIDE DEF s4
<1>11. s5 \in Seq(Octet) /\ Begins(s4, s5) /\ Len(s5) = 19 /\ Get(2, s5, 18) = fi
  <2> DEFINE k == 2
  <2>1. Adds(s5, s4, k, fi) /\ Fits(k, fi)
    BY <1>1 DEF Adds, Put, Fits
  <2>2. s4 \in Seq(Octet)
    BY <1>10
  <2> HIDE DEF s5, k
  <2>3. /\ s5 \in Seq(Octet) /\ Begins(s4, s5) /\ Len(s5) = Len(s4) + k
        /\ Get(k, s5, Len(s4) + 1) = fi
    BY ONLY <2>1, <2>2, AppendField
  <2>4. QED
    BY ONLY <1>10, <2>3 DEF k
<1> HIDE DEF s5
<1>12. crc \in Word16
  <2>1. Len(s5 \o d) \in Nat
    BY <1>11, ConcatProperties, LenProperties
  <2>2. QED
    BY <2>1, CrcWord
<1>13. /\ Begins(s5, raw) /\ Len(raw) = Len(s5) + Len(d) + 2
       /\ SubSeq(raw, 1, Len(raw) - 2) = s5 \o d
       /\ \A i \in 1 .. Len(d) : raw[Len(s5) + i] = d[i]
       /\ pus_get_u16(raw, Len(raw) - 1) = crc
  <2> HIDE DEF crc
  <2>1. s5 \in Seq(Octet)
    BY <1>11
  <2>2. QED
    BY ONLY <1>2, <1>12, <2>1, d \in Seq(Octet), DataAndChecksum
<1>14. raw \in Seq(Octet) /\ Len(raw) = total /\ Holds(raw, 19, d)
  <2>1. Len(raw) = 19 + Len(d) + 2 /\ \A i \in 1 .. Len(d) : raw[19 + i] = d[i]
    BY ONLY <1>11, <1>13
  <2>2. QED
    BY <1>1, <1>13, <2>1 DEF Begins, Holds, total
<1>15. Begins(s4, raw) /\ Begins(s3, raw) /\ Begins(s2, raw) /\ Begins(s1, raw) /\ Begins(h, raw)
  BY ONLY <1>7, <1>8, <1>9, <1>10, <1>11, <1>13, BeginsTrans
<1>16. pus_get_u16(raw, 1) = 2060 /\ pus_get_u16(raw, 3) = u /\ pus_get_u16(raw, 5) = w
  <2>0. Begins(h, raw) /\ Len(h) = 6
    BY ONLY <1>6, <1>15
  <2>1. pus_get_u16(raw, 1) = 2060
    <3>1. pus_get_u16(raw, 1) = pus_get_u16(h, 1)
      BY ONLY <2>0, GetKept, 1 \in Nat, 1 <= 1, 1 + 1 <= 6
    <3>2. QED
      BY ONLY <1>6, <3>1
  <2>2. pus_get_u16(raw, 3) = u
    <3>1. pus_get_u16(raw, 3) = pus_get_u16(h, 3)
      BY ONLY <2>0, GetKept, 3 \in Nat, 1 <= 3, 3 + 1 <= 6
    <3>2. QED
      BY ONLY <1>6, <3>1
  <2>3. pus_get_u16(raw, 5) = w
    <3>1. pus_get_u16(raw, 5) = pus_get_u16(h, 5)
      BY ONLY <2>0, GetKept, 5 \in Nat, 1 <= 5, 5 + 1 <= 6
    <3>2. QED
      BY ONLY <1>6, <3>1
  <2>4. QED
    BY ONLY <2>1, <2>2, <2>3
<1>17. raw[7] = 32 /\ raw[8] = serv /\ raw[9] = sub
  BY ONLY <1>7, <1>15, 7 \in 1 .. 9, 8 \in 1 .. 9, 9 \in 1 .. 9 DEF Begins
<1>18. Get(2, raw, 10) = mc
  BY ONLY <1>8, <1>15, GetBegun, 2 \in {1, 2, 4}, 10 \in Nat, 1 <= 10, 10 + 2 <= 11 + 1
<1>19. Get(2, raw, 12) = PUS_TM_DESTINATION_ID
  BY ONLY <1>9, <1>15, GetBegun, 2 \in {1, 2, 4}, 12 \in Nat, 1 <= 12, 12 + 2 <= 13 + 1
<1>20. Get(4, raw, 14) = co
  BY ONLY <1>10, <1>15, GetBegun, 4 \in {1, 2, 4}, 14 \in Nat, 1 <= 14, 14 + 4 <= 17 + 1
<1>21. Get(2, raw, 18) = fi
  BY ONLY <1>11, <1>13, GetBegun, 2 \in {1, 2, 4}, 18 \in Nat, 1 <= 18, 18 + 2 <= 19 + 1
<1>22. /\ pus_get_u16(raw, 10) = mc /\ pus_get_u16(raw, 12) = PUS_TM_DESTINATION_ID
       /\ pus_get_u32(raw, 14) = co /\ pus_get_u16(raw, 18) = fi
  BY ONLY <1>18, <1>19, <1>20, <1>21 DEF Get
<1>23. crc16_ccitt(SubSeq(raw, 1, Len(raw) - 2)) = pus_get_u16(raw, Len(raw) - 1)
  BY ONLY <1>13
<1>24. pus_get_u16(raw, 3) = 3 * 16384 + p.seq_count /\ pus_get_u16(raw, 5) = Len(raw) - 7
  BY ONLY <1>14, <1>16 DEF u, w
<1>25. QED
  BY ONLY <1>14, <1>16, <1>17, <1>22, <1>23, <1>24 DEF HoldsTm, serv, sub, mc, co, fi, total

\* The source data of p are m fields, the i-th after off[i - 1] octets.
HasFields(p, off, m) ==
  /\ m \in Nat /\ m # 0 /\ DOMAIN p.data = 1 .. m
  /\ \A i \in 1 .. m : Fits(FieldWidths(p)[i], p.data[i])
  /\ off \in [0 .. m -> Nat] /\ off[0] = 0
  /\ \A i \in 1 .. m : off[i] = off[i - 1] + FieldWidths(p)[i]

LEMMA SourceRead ==
  ASSUME NEW p, NEW off, NEW m, HasFields(p, off, m)
  PROVE  ReadsAs(SourceData(p), FieldWidths(p), p.data, off, m)
<1> DEFINE ss == [i \in DOMAIN p.data |-> Put(FieldWidths(p)[i], p.data[i])]
<1>1. AreFields(ss, FieldWidths(p), p.data, off, m) /\ m \in Nat /\ m # 0
  BY DEF AreFields, HasFields
<1>2. SourceData(p) = FlattenSeq(ss)
  BY DEF SourceData
<1> HIDE DEF ss
<1>3. QED
  BY <1>1, <1>2, FieldsFlattened

\* Each field is found in the packet.
LEMMA SourceHeld ==
  ASSUME NEW p, NEW off, NEW m, HasFields(p, off, m), NEW raw, Holds(raw, 19, SourceData(p)),
         NEW i \in 1 .. m
  PROVE  Get(FieldWidths(p)[i], raw, 20 + off[i - 1]) = p.data[i]
<1> DEFINE d == SourceData(p)
           x == FieldWidths(p)[i]
           a == off[i - 1]
           b == off[i]
           c == off[m]
           k == a + 1
<1>1. ReadsAs(d, FieldWidths(p), p.data, off, m)
  BY SourceRead
<1>2. /\ m \in Nat /\ Fits(x, p.data[i]) /\ a \in Nat /\ b \in Nat /\ c \in Nat /\ b = a + x
  BY DEF HasFields
<1>3. Len(d) = c /\ b <= c /\ Get(x, d, k) = p.data[i]
  BY <1>1 DEF ReadsAs
<1>4. x \in {1, 2, 4}
  BY <1>2, PutField
<1> HIDE DEF d, x, a, b, c
<1>5. k \in Nat /\ 1 <= k /\ k + x <= Len(d) + 1 /\ 19 + k = 20 + a
  <2>1. x \in Int
    BY ONLY <1>4
  <2>2. QED
    BY ONLY <1>2, <1>3, <2>1
<1>6. Get(x, raw, 19 + k) = Get(x, d, k)
  <2>1. Holds(raw, 19, d)
    BY DEF d
  <2> HIDE DEF k
  <2> DEFINE j == 19
  <2>2. Holds(raw, j, d)
    BY ONLY <2>1
  <2> HIDE DEF j
  <2>3. Get(x, raw, j + k) = Get(x, d, k)
    BY ONLY <1>4, <1>5, <2>2, GetHeld
  <2>4. QED
    BY ONLY <2>3 DEF j
<1>7. Get(x, raw, 20 + a) = p.data[i]
  BY ONLY <1>3, <1>5, <1>6
<1>8. QED
  BY ONLY <1>7 DEF x, a

LEMMA SignedAndBack ==
  ASSUME NEW d, NEW i, pus_get_u16(d, i) \in Word16
  PROVE  U16(pus_get_i16(d, i)) = pus_get_u16(d, i)
<1> DEFINE u == pus_get_u16(d, i)
<1>1. u \in Int /\ 0 <= u /\ u <= 65535
  BY WordRange
<1>2. pus_get_i16(d, i) = IF u < 32768 THEN u ELSE u - 65536
  BY DEF pus_get_i16
<1> HIDE DEF u
<1>3. u % 65536 = u /\ (u - 65536) % 65536 = u
  BY ONLY <1>1
<1>4. QED
  BY <1>2, <1>3 DEF U16, u

\* The layouts of source data: words only, and the two housekeeping structures.
WordOffsets(m) == [i \in 0 .. m |-> 2 * i]
EssentialOffsets == [i \in 0 .. 5 |-> <<0, 1, 2, 6, 8, 9>>[i + 1]]
StatisticsOffsets == [i \in 0 .. 6 |-> <<0, 1, 3, 5, 7, 8, 10>>[i + 1]]

LEMMA WordsFields ==
  ASSUME NEW p, NEW m \in 1 .. 3, DOMAIN p.data = 1 .. m,
         \A i \in 1 .. m : FieldWidths(p)[i] = 2 /\ p.data[i] \in Word16
  PROVE  HasFields(p, WordOffsets(m), m)
<1> DEFINE off == WordOffsets(m)
<1>1. off \in [0 .. m -> Nat] /\ off[0] = 0 /\ \A i \in 1 .. m : off[i] = off[i - 1] + 2
  BY DEF WordOffsets
<1>2. \A i \in 1 .. m : Fits(FieldWidths(p)[i], p.data[i])
  BY DEF Fits
<1> HIDE DEF off
<1>3. \A i \in 1 .. m : off[i] = off[i - 1] + FieldWidths(p)[i]
  BY <1>1
<1>4. m \in Nat /\ m # 0
  OBVIOUS
<1>5. HasFields(p, off, m)
  BY <1>1, <1>2, <1>3, <1>4 DEF HasFields
<1>6. QED
  BY <1>5 DEF off

\* The ground decoder finds the fields of p in raw.
FieldsFound(raw, p) ==
  /\ SourceData(p) \in Seq(Octet) /\ Len(SourceData(p)) <= 20
  /\ (Holds(raw, 19, SourceData(p)) /\ raw[8] = p.service /\ Len(raw) = 21 + Len(SourceData(p))
        => tm_fields(raw) = p.data /\ hk_sound(raw))

LEMMA EssentialFound ==
  ASSUME NEW p, NEW raw, p.service = PUS_SERVICE_HOUSEKEEPING, NEW b \in Octet, NEW c \in Word32,
         NEW d \in Word16, NEW e \in Octet, p.data = <<1, b, c, d, e>>
  PROVE  FieldsFound(raw, p)
<1> DEFINE off == EssentialOffsets
           ws == FieldWidths(p)
           n == 5
<1>1. ws = <<1, 1, 4, 2, 1>>
  BY DEF FieldWidths, PUS_SERVICE_HOUSEKEEPING, PUS_SERVICE_VERIFICATION, PUS_SERVICE_EVENT,
         PUS_SERVICE_TEST
<1>2. off[0] = 0 /\ off[1] = 1 /\ off[2] = 2 /\ off[3] = 6 /\ off[4] = 8 /\ off[5] = 9
  BY DEF EssentialOffsets
<1>3. ws[1] = 1 /\ ws[2] = 1 /\ ws[3] = 4 /\ ws[4] = 2 /\ ws[5] = 1
  BY <1>1
<1>4. p.data[1] = 1 /\ p.data[2] = b /\ p.data[3] = c /\ p.data[4] = d /\ p.data[5] = e
  OBVIOUS
<1>5. off \in [0 .. 5 -> Nat] /\ DOMAIN p.data = 1 .. 5 /\ n = 5 /\ n \in Nat /\ n # 0
  BY DEF EssentialOffsets
<1> HIDE DEF off, ws, n
<1>6. HasFields(p, off, n)
  <2>1. ASSUME NEW i \in 1 .. 5 PROVE Fits(ws[i], p.data[i]) /\ off[i] = off[i - 1] + ws[i]
    <3>1. i = 1 \/ i = 2 \/ i = 3 \/ i = 4 \/ i = 5
      OBVIOUS
    <3>2. 1 - 1 = 0 /\ 2 - 1 = 1 /\ 3 - 1 = 2 /\ 4 - 1 = 3 /\ 5 - 1 = 4
      OBVIOUS
    <3>3. Fits(ws[i], p.data[i])
      BY <1>3, <1>4, <3>1, OctetRange DEF Fits
    <3>4. off[i] = off[i - 1] + ws[i]
      BY ONLY <1>2, <1>3, <3>1, <3>2
    <3>5. QED
      BY <3>3, <3>4
  <2>2. QED
    BY ONLY <1>5, <1>2, <2>1 DEF HasFields, ws
<1>7. SourceData(p) \in Seq(Octet) /\ Len(SourceData(p)) = 9
  <2>1. ReadsAs(SourceData(p), ws, p.data, off, n)
    BY <1>6, SourceRead DEF ws
  <2>2. SourceData(p) \in Seq(Octet) /\ Len(SourceData(p)) = off[n]
    BY ONLY <2>1 DEF ReadsAs
  <2>3. off[n] = 9
    BY ONLY <1>2 DEF n
  <2>4. QED
    BY ONLY <2>2, <2>3
<1>8. ASSUME Holds(raw, 19, SourceData(p)), raw[8] = p.service, Len(raw) = 21 + Len(SourceData(p))
      PROVE  tm_fields(raw) = p.data /\ hk_sound(raw)
  <2>1. ASSUME NEW i \in 1 .. 5 PROVE Get(ws[i], raw, 20 + off[i - 1]) = p.data[i]
    <3>1. i \in 1 .. n
      BY ONLY i \in 1 .. 5 DEF n
    <3>2. QED
      BY ONLY <1>8, <1>6, <3>1, SourceHeld DEF ws
  <2>2. /\ 1 - 1 = 0 /\ 2 - 1 = 1 /\ 3 - 1 = 2 /\ 4 - 1 = 3 /\ 5 - 1 = 4
        /\ 20 + 0 = 20 /\ 20 + 1 = 21 /\ 20 + 2 = 22 /\ 20 + 6 = 26 /\ 20 + 8 = 28
        /\ 1 \in 1 .. 5 /\ 2 \in 1 .. 5 /\ 3 \in 1 .. 5 /\ 4 \in 1 .. 5 /\ 5 \in 1 .. 5
    OBVIOUS
  <2>3. /\ Get(1, raw, 20) = 1 /\ Get(1, raw, 21) = b /\ Get(4, raw, 22) = c
        /\ Get(2, raw, 26) = d /\ Get(1, raw, 28) = e
    BY ONLY <1>2, <1>3, <1>4, <2>1, <2>2
  <2>4. /\ raw[20] = 1 /\ raw[21] = b /\ pus_get_u32(raw, 22) = c /\ pus_get_u16(raw, 26) = d
        /\ raw[28] = e
    BY ONLY <2>3 DEF Get
  <2>5. U16(pus_get_i16(raw, 26)) = d
    BY ONLY <2>4, SignedAndBack, d \in Word16
  <2>6. raw[8] = 3
    BY <1>8 DEF PUS_SERVICE_HOUSEKEEPING
  <2>7. tm_fields(raw) = <<raw[20], raw[21], pus_get_u32(raw, 22), U16(pus_get_i16(raw, 26)), raw[28]>>
    BY ONLY <2>4, <2>6 DEF tm_fields, PUS_SERVICE_VERIFICATION, PUS_SERVICE_HOUSEKEEPING,
                           PUS_SERVICE_EVENT
  <2>8. hk_sound(raw)
    <3>1. Len(raw) = 30
      BY ONLY <1>7, <1>8
    <3>2. QED
      BY ONLY <2>4, <3>1 DEF hk_sound
  <2>9. QED
    BY ONLY <2>4, <2>5, <2>7, <2>8, p.data = <<1, b, c, d, e>>
<1>9. QED
  BY <1>7, <1>8 DEF FieldsFound

LEMMA StatisticsFound ==
  ASSUME NEW p, NEW raw, p.service = PUS_SERVICE_HOUSEKEEPING, NEW b \in Word16, NEW c \in Word16,
         NEW d \in Word16, NEW e \in Octet, NEW f \in Word16, p.data = <<2, b, c, d, e, f>>
  PROVE  FieldsFound(raw, p)
<1> DEFINE off == StatisticsOffsets
           ws == FieldWidths(p)
           n == 6
<1>1. ws = <<1, 2, 2, 2, 1, 2>>
  BY DEF FieldWidths, PUS_SERVICE_HOUSEKEEPING, PUS_SERVICE_VERIFICATION, PUS_SERVICE_EVENT,
         PUS_SERVICE_TEST
<1>2. /\ off[0] = 0 /\ off[1] = 1 /\ off[2] = 3 /\ off[3] = 5 /\ off[4] = 7 /\ off[5] = 8
      /\ off[6] = 10
  BY DEF StatisticsOffsets
<1>3. ws[1] = 1 /\ ws[2] = 2 /\ ws[3] = 2 /\ ws[4] = 2 /\ ws[5] = 1 /\ ws[6] = 2
  BY <1>1
<1>4. /\ p.data[1] = 2 /\ p.data[2] = b /\ p.data[3] = c /\ p.data[4] = d /\ p.data[5] = e
      /\ p.data[6] = f
  OBVIOUS
<1>5. off \in [0 .. 6 -> Nat] /\ DOMAIN p.data = 1 .. 6 /\ n = 6 /\ n \in Nat /\ n # 0
  BY DEF StatisticsOffsets
<1> HIDE DEF off, ws, n
<1>6. HasFields(p, off, n)
  <2>1. ASSUME NEW i \in 1 .. 6 PROVE Fits(ws[i], p.data[i]) /\ off[i] = off[i - 1] + ws[i]
    <3>1. i = 1 \/ i = 2 \/ i = 3 \/ i = 4 \/ i = 5 \/ i = 6
      OBVIOUS
    <3>2. 1 - 1 = 0 /\ 2 - 1 = 1 /\ 3 - 1 = 2 /\ 4 - 1 = 3 /\ 5 - 1 = 4 /\ 6 - 1 = 5
      OBVIOUS
    <3>3. Fits(ws[i], p.data[i])
      BY <1>3, <1>4, <3>1, OctetRange DEF Fits
    <3>4. off[i] = off[i - 1] + ws[i]
      BY ONLY <1>2, <1>3, <3>1, <3>2
    <3>5. QED
      BY <3>3, <3>4
  <2>2. QED
    BY ONLY <1>5, <1>2, <2>1 DEF HasFields, ws
<1>7. SourceData(p) \in Seq(Octet) /\ Len(SourceData(p)) = 10
  <2>1. ReadsAs(SourceData(p), ws, p.data, off, n)
    BY <1>6, SourceRead DEF ws
  <2>2. SourceData(p) \in Seq(Octet) /\ Len(SourceData(p)) = off[n]
    BY ONLY <2>1 DEF ReadsAs
  <2>3. off[n] = 10
    BY ONLY <1>2 DEF n
  <2>4. QED
    BY ONLY <2>2, <2>3
<1>8. ASSUME Holds(raw, 19, SourceData(p)), raw[8] = p.service, Len(raw) = 21 + Len(SourceData(p))
      PROVE  tm_fields(raw) = p.data /\ hk_sound(raw)
  <2>1. ASSUME NEW i \in 1 .. 6 PROVE Get(ws[i], raw, 20 + off[i - 1]) = p.data[i]
    <3>1. i \in 1 .. n
      BY ONLY i \in 1 .. 6 DEF n
    <3>2. QED
      BY ONLY <1>8, <1>6, <3>1, SourceHeld DEF ws
  <2>2. /\ 1 - 1 = 0 /\ 2 - 1 = 1 /\ 3 - 1 = 2 /\ 4 - 1 = 3 /\ 5 - 1 = 4 /\ 6 - 1 = 5
        /\ 20 + 0 = 20 /\ 20 + 1 = 21 /\ 20 + 3 = 23 /\ 20 + 5 = 25 /\ 20 + 7 = 27 /\ 20 + 8 = 28
        /\ 1 \in 1 .. 6 /\ 2 \in 1 .. 6 /\ 3 \in 1 .. 6 /\ 4 \in 1 .. 6 /\ 5 \in 1 .. 6 /\ 6 \in 1 .. 6
    OBVIOUS
  <2>3. /\ Get(1, raw, 20) = 2 /\ Get(2, raw, 21) = b /\ Get(2, raw, 23) = c
        /\ Get(2, raw, 25) = d /\ Get(1, raw, 27) = e /\ Get(2, raw, 28) = f
    BY ONLY <1>2, <1>3, <1>4, <2>1, <2>2
  <2>4. /\ raw[20] = 2 /\ pus_get_u16(raw, 21) = b /\ pus_get_u16(raw, 23) = c
        /\ pus_get_u16(raw, 25) = d /\ raw[27] = e /\ pus_get_u16(raw, 28) = f
    BY ONLY <2>3 DEF Get
  <2>5. raw[8] = 3
    BY <1>8 DEF PUS_SERVICE_HOUSEKEEPING
  <2>6. tm_fields(raw) = <<raw[20], pus_get_u16(raw, 21), pus_get_u16(raw, 23), pus_get_u16(raw, 25),
                           raw[27], pus_get_u16(raw, 28)>>
    BY ONLY <2>4, <2>5 DEF tm_fields, PUS_SERVICE_VERIFICATION, PUS_SERVICE_HOUSEKEEPING,
                           PUS_SERVICE_EVENT
  <2>7. hk_sound(raw)
    <3>1. Len(raw) = 31
      BY ONLY <1>7, <1>8
    <3>2. QED
      BY ONLY <2>4, <3>1 DEF hk_sound
  <2>8. QED
    BY ONLY <2>4, <2>6, <2>7, p.data = <<2, b, c, d, e, f>>
<1>9. QED
  BY <1>7, <1>8 DEF FieldsFound

\* Reports and events: two words or three.
LEMMA WordsRead ==
  ASSUME NEW p, NEW m \in 1 .. 3, DOMAIN p.data = 1 .. m,
         \A i \in 1 .. m : FieldWidths(p)[i] = 2 /\ p.data[i] \in Word16, NEW raw
  PROVE  /\ SourceData(p) \in Seq(Octet) /\ Len(SourceData(p)) = 2 * m
         /\ Holds(raw, 19, SourceData(p))
              => \A i \in 1 .. m : pus_get_u16(raw, 20 + 2 * (i - 1)) = p.data[i]
<1> DEFINE off == WordOffsets(m)
<1>1. HasFields(p, off, m)
  BY WordsFields
<1>2. \A i \in 0 .. m : off[i] = 2 * i
  BY DEF WordOffsets
<1> HIDE DEF off
<1>3. ReadsAs(SourceData(p), FieldWidths(p), p.data, off, m)
  BY <1>1, SourceRead
<1>4. SourceData(p) \in Seq(Octet) /\ Len(SourceData(p)) = 2 * m
  BY <1>2, <1>3, m \in 0 .. m DEF ReadsAs
<1>5. ASSUME Holds(raw, 19, SourceData(p)), NEW i \in 1 .. m
      PROVE  pus_get_u16(raw, 20 + 2 * (i - 1)) = p.data[i]
  <2>1. Get(FieldWidths(p)[i], raw, 20 + off[i - 1]) = p.data[i]
    BY ONLY <1>1, <1>5, SourceHeld
  <2>2. FieldWidths(p)[i] = 2 /\ off[i - 1] = 2 * (i - 1)
    BY <1>2
  <2>3. QED
    BY ONLY <2>1, <2>2 DEF Get
<1>6. QED
  BY <1>4, <1>5

LEMMA TwoWords ==
  ASSUME NEW p, NEW raw, NEW a \in Word16, NEW b \in Word16, p.data = <<a, b>>,
         FieldWidths(p)[1] = 2, FieldWidths(p)[2] = 2
  PROVE  /\ SourceData(p) \in Seq(Octet) /\ Len(SourceData(p)) = 4
         /\ Holds(raw, 19, SourceData(p))
              => pus_get_u16(raw, 20) = a /\ pus_get_u16(raw, 22) = b
<1> DEFINE m == 2
<1>1. p.data[1] = a /\ p.data[2] = b /\ DOMAIN p.data = 1 .. m /\ m \in 1 .. 3
  OBVIOUS
<1>2. \A i \in 1 .. m : FieldWidths(p)[i] = 2 /\ p.data[i] \in Word16
  <2>1. \A i \in 1 .. m : i = 1 \/ i = 2
    OBVIOUS
  <2>2. QED
    BY <1>1, <2>1
<1> HIDE DEF m
<1>3. /\ SourceData(p) \in Seq(Octet) /\ Len(SourceData(p)) = 2 * m
      /\ Holds(raw, 19, SourceData(p))
           => \A i \in 1 .. m : pus_get_u16(raw, 20 + 2 * (i - 1)) = p.data[i]
  BY ONLY <1>1, <1>2, WordsRead
<1>4. 2 * m = 4 /\ 1 \in 1 .. m /\ 2 \in 1 .. m /\ 20 + 2 * (1 - 1) = 20 /\ 20 + 2 * (2 - 1) = 22
  BY DEF m
<1>5. QED
  BY ONLY <1>1, <1>3, <1>4

IsTriple(s, a, b, c) == s = <<a, b, c>>

LEMMA TripleJoined ==
  ASSUME NEW a \in Word16, NEW b \in Word16, NEW c \in Word16
  PROVE  <<a, b>> \o <<c>> = <<a, b, c>>
<1> DEFINE s == <<a, b>>
           t == <<c>>
           u == s \o t
           v == <<a, b, c>>
<1>1. s \in Seq(Word16) /\ Len(s) = 2 /\ s[1] = a /\ s[2] = b
  OBVIOUS
<1>2. t \in Seq(Word16) /\ Len(t) = 1 /\ t[1] = c
  OBVIOUS
<1>3. v \in Seq(Word16) /\ Len(v) = 3 /\ v[1] = a /\ v[2] = b /\ v[3] = c
  OBVIOUS
<1> HIDE DEF s, t, v
<1>4. /\ u \in Seq(Word16) /\ Len(u) = Len(s) + Len(t)
      /\ \A i \in 1 .. Len(s) + Len(t) : u[i] = IF i <= Len(s) THEN s[i] ELSE t[i - Len(s)]
  BY <1>1, <1>2, ConcatProperties
<1> HIDE DEF u
<1>5. \A i \in 1 .. 3 : u[i] = IF i <= 2 THEN s[i] ELSE t[i - 2]
  BY ONLY <1>1, <1>2, <1>4
<1>6. ASSUME NEW i \in 1 .. 3 PROVE u[i] = v[i]
  <2>1. i = 1 \/ i = 2 \/ i = 3
    OBVIOUS
  <2>2. u[1] = s[1] /\ u[2] = s[2] /\ u[3] = t[1]
    BY ONLY <1>5, 1 \in 1 .. 3, 2 \in 1 .. 3, 3 \in 1 .. 3, 3 - 2 = 1
  <2>3. QED
    BY ONLY <1>1, <1>2, <1>3, <2>1, <2>2
<1>7. u = v
  BY <1>1, <1>2, <1>3, <1>4, <1>6, SeqEqual
<1>8. QED
  BY ONLY <1>7 DEF s, t, u, v

LEMMA ThreeReported ==
  ASSUME NEW p, NEW raw, NEW a \in Word16, NEW b \in Word16, NEW c \in Word16,
         IsTriple(p.data, a, b, c),
         FieldWidths(p)[1] = 2, FieldWidths(p)[2] = 2, FieldWidths(p)[3] = 2
  PROVE  /\ SourceData(p) \in Seq(Octet) /\ Len(SourceData(p)) = 6
         /\ Holds(raw, 19, SourceData(p))
              => pus_get_u16(raw, 20) = a /\ pus_get_u16(raw, 22) = b /\ pus_get_u16(raw, 24) = c
<1> DEFINE m == 3
<1>1. p.data[1] = a /\ p.data[2] = b /\ p.data[3] = c /\ DOMAIN p.data = 1 .. m /\ m \in 1 .. 3
  BY DEF IsTriple
<1>2. \A i \in 1 .. m : FieldWidths(p)[i] = 2 /\ p.data[i] \in Word16
  <2>1. \A i \in 1 .. m : i = 1 \/ i = 2 \/ i = 3
    OBVIOUS
  <2>2. QED
    BY <1>1, <2>1
<1> HIDE DEF m
<1>3. /\ SourceData(p) \in Seq(Octet) /\ Len(SourceData(p)) = 2 * m
      /\ Holds(raw, 19, SourceData(p))
           => \A i \in 1 .. m : pus_get_u16(raw, 20 + 2 * (i - 1)) = p.data[i]
  BY ONLY <1>1, <1>2, WordsRead
<1>4. /\ 2 * m = 6 /\ 1 \in 1 .. m /\ 2 \in 1 .. m /\ 3 \in 1 .. m
      /\ 20 + 2 * (1 - 1) = 20 /\ 20 + 2 * (2 - 1) = 22 /\ 20 + 2 * (3 - 1) = 24
  BY DEF m
<1>5. QED
  BY ONLY <1>1, <1>3, <1>4

\* What is no housekeeping report is not held against the structures.
LEMMA NotHousekeeping ==
  ASSUME NEW raw, raw[8] # 3 PROVE hk_sound(raw)
BY DEF hk_sound, PUS_SERVICE_HOUSEKEEPING

LEMMA SuccessFound ==
  ASSUME NEW p, NEW raw, p.service = PUS_SERVICE_VERIFICATION, NEW a \in Word16, NEW b \in Word16,
         p.data = <<a, b>>
  PROVE  FieldsFound(raw, p)
<1> DEFINE d == SourceData(p)
<1>1. FieldWidths(p) = <<2, 2, 2>>
  BY DEF FieldWidths, PUS_SERVICE_HOUSEKEEPING, PUS_SERVICE_VERIFICATION, PUS_SERVICE_EVENT,
         PUS_SERVICE_TEST
<1>2. /\ d \in Seq(Octet) /\ Len(d) = 4
      /\ Holds(raw, 19, d) => pus_get_u16(raw, 20) = a /\ pus_get_u16(raw, 22) = b
  BY <1>1, TwoWords
<1> HIDE DEF d
<1>3. ASSUME Holds(raw, 19, d), raw[8] = p.service, Len(raw) = 21 + Len(d) PROVE tm_fields(raw) = p.data
  <2>1. raw[8] = 1 /\ Len(raw) = 25
    BY <1>2, <1>3 DEF PUS_SERVICE_VERIFICATION
  <2>2. tm_fields(raw) = <<pus_get_u16(raw, 20), pus_get_u16(raw, 22)>> \o <<>>
    BY ONLY <2>1 DEF tm_fields, PUS_SERVICE_VERIFICATION, PUS_SERVICE_HOUSEKEEPING, PUS_SERVICE_EVENT
  <2>3. <<a, b>> \o <<>> = <<a, b>>
    OBVIOUS
  <2>4. QED
    BY ONLY <1>2, <1>3, <2>2, <2>3, p.data = <<a, b>>
<1>4. raw[8] = p.service => hk_sound(raw)
  BY NotHousekeeping DEF PUS_SERVICE_VERIFICATION, PUS_SERVICE_EVENT
<1>5. QED
  BY <1>2, <1>3, <1>4 DEF FieldsFound, d

LEMMA FailureFound ==
  ASSUME NEW p, NEW raw, p.service = PUS_SERVICE_VERIFICATION, NEW a \in Word16, NEW b \in Word16,
         NEW c \in Word16, p.data = <<a, b, c>>
  PROVE  FieldsFound(raw, p)
<1> DEFINE d == SourceData(p)
<1>1. FieldWidths(p) = <<2, 2, 2>>
  BY DEF FieldWidths, PUS_SERVICE_HOUSEKEEPING, PUS_SERVICE_VERIFICATION, PUS_SERVICE_EVENT,
         PUS_SERVICE_TEST
<1>2. /\ d \in Seq(Octet) /\ Len(d) = 6
      /\ Holds(raw, 19, d)
           => pus_get_u16(raw, 20) = a /\ pus_get_u16(raw, 22) = b /\ pus_get_u16(raw, 24) = c
  <2>1. IsTriple(p.data, a, b, c)
    BY DEF IsTriple
  <2>2. FieldWidths(p)[1] = 2 /\ FieldWidths(p)[2] = 2 /\ FieldWidths(p)[3] = 2
    BY ONLY <1>1
  <2>3. QED
    BY ONLY <2>1, <2>2, ThreeReported, a \in Word16, b \in Word16, c \in Word16
<1> HIDE DEF d
<1>3. ASSUME Holds(raw, 19, d), raw[8] = p.service, Len(raw) = 21 + Len(d) PROVE tm_fields(raw) = p.data
  <2>1. raw[8] = 1 /\ Len(raw) # 25
    BY <1>2, <1>3 DEF PUS_SERVICE_VERIFICATION
  <2>2. tm_fields(raw) = <<pus_get_u16(raw, 20), pus_get_u16(raw, 22)>> \o <<pus_get_u16(raw, 24)>>
    BY ONLY <2>1 DEF tm_fields, PUS_SERVICE_VERIFICATION, PUS_SERVICE_HOUSEKEEPING, PUS_SERVICE_EVENT
  <2>3. <<a, b>> \o <<c>> = <<a, b, c>>
    BY TripleJoined
  <2>4. QED
    BY ONLY <1>2, <1>3, <2>2, <2>3, p.data = <<a, b, c>>
<1>4. raw[8] = p.service => hk_sound(raw)
  BY NotHousekeeping DEF PUS_SERVICE_VERIFICATION, PUS_SERVICE_EVENT
<1>5. QED
  BY <1>2, <1>3, <1>4 DEF FieldsFound, d

LEMMA EventFound ==
  ASSUME NEW p, NEW raw, p.service = PUS_SERVICE_EVENT, NEW a \in Word16, NEW b \in Word16,
         p.data = <<a, b>>
  PROVE  FieldsFound(raw, p)
<1> DEFINE d == SourceData(p)
<1>1. FieldWidths(p) = <<2, 2>>
  BY DEF FieldWidths, PUS_SERVICE_HOUSEKEEPING, PUS_SERVICE_VERIFICATION, PUS_SERVICE_EVENT,
         PUS_SERVICE_TEST
<1>2. /\ d \in Seq(Octet) /\ Len(d) = 4
      /\ Holds(raw, 19, d) => pus_get_u16(raw, 20) = a /\ pus_get_u16(raw, 22) = b
  BY <1>1, TwoWords
<1> HIDE DEF d
<1>3. ASSUME Holds(raw, 19, d), raw[8] = p.service PROVE tm_fields(raw) = p.data
  <2>1. raw[8] = 5
    BY <1>3 DEF PUS_SERVICE_EVENT
  <2>2. tm_fields(raw) = <<pus_get_u16(raw, 20), pus_get_u16(raw, 22)>>
    BY ONLY <2>1 DEF tm_fields, PUS_SERVICE_VERIFICATION, PUS_SERVICE_HOUSEKEEPING, PUS_SERVICE_EVENT
  <2>3. QED
    BY ONLY <1>2, <1>3, <2>2, p.data = <<a, b>>
<1>4. raw[8] = p.service => hk_sound(raw)
  BY NotHousekeeping DEF PUS_SERVICE_VERIFICATION, PUS_SERVICE_EVENT
<1>5. QED
  BY <1>2, <1>3, <1>4 DEF FieldsFound, d

LEMMA AliveFound ==
  ASSUME NEW p, NEW raw, p.service = PUS_SERVICE_TEST, p.data = <<>>
  PROVE  FieldsFound(raw, p)
<1>1. SourceData(p) = <<>>
  <2>1. [i \in DOMAIN p.data |-> Put(FieldWidths(p)[i], p.data[i])] = <<>>
    OBVIOUS
  <2>2. QED
    BY ONLY <2>1, FlattenEmpty DEF SourceData
<1>2. ASSUME raw[8] = p.service PROVE tm_fields(raw) = <<>>
  <2>1. raw[8] = 17
    BY <1>2 DEF PUS_SERVICE_TEST
  <2>2. QED
    BY ONLY <2>1 DEF tm_fields, PUS_SERVICE_VERIFICATION, PUS_SERVICE_HOUSEKEEPING, PUS_SERVICE_EVENT
<1>3. SourceData(p) \in Seq(Octet) /\ Len(SourceData(p)) <= 20
  BY <1>1
<1>4. raw[8] = p.service => hk_sound(raw)
  BY NotHousekeeping DEF PUS_SERVICE_TEST
<1>5. QED
  BY <1>2, <1>3, <1>4 DEF FieldsFound

LEMMA FieldsOfService ==
  ASSUME NEW service \in TmServices, NEW p \in SentTm(service), NEW raw
  PROVE  FieldsFound(raw, p)
<1>1. p.service = service /\ p.data \in SourceFields(service)
  BY DEF SentTm
<1>2. \/ service = PUS_SERVICE_VERIFICATION \/ service = PUS_SERVICE_HOUSEKEEPING
      \/ service = PUS_SERVICE_EVENT \/ service = PUS_SERVICE_TEST
  BY DEF TmServices
<1> USE DEF PUS_SERVICE_VERIFICATION, PUS_SERVICE_HOUSEKEEPING, PUS_SERVICE_EVENT, PUS_SERVICE_TEST
<1>3. CASE service = PUS_SERVICE_VERIFICATION
  <2>1. p.data \in Word16 \X Word16 \/ p.data \in Word16 \X Word16 \X Word16
    BY ONLY <1>1, <1>3 DEF SourceFields
  <2>2. CASE p.data \in Word16 \X Word16
    <3>1. PICK a \in Word16, b \in Word16 : p.data = <<a, b>>
      BY ONLY <2>2
    <3>2. QED
      BY ONLY <1>1, <1>3, <3>1, SuccessFound
  <2>3. CASE p.data \in Word16 \X Word16 \X Word16
    <3>1. PICK a \in Word16, b \in Word16, c \in Word16 : p.data = <<a, b, c>>
      BY ONLY <2>3
    <3>2. QED
      BY ONLY <1>1, <1>3, <3>1, FailureFound
  <2>4. QED
    BY ONLY <2>1, <2>2, <2>3
<1>4. CASE service = PUS_SERVICE_HOUSEKEEPING
  <2>1. \/ p.data \in {1} \X Octet \X Word32 \X Word16 \X Octet
        \/ p.data \in {2} \X Word16 \X Word16 \X Word16 \X Octet \X Word16
    BY ONLY <1>1, <1>4 DEF SourceFields
  <2>2. CASE p.data \in {1} \X Octet \X Word32 \X Word16 \X Octet
    <3>1. PICK b \in Octet, c \in Word32, d \in Word16, e \in Octet : p.data = <<1, b, c, d, e>>
      BY ONLY <2>2
    <3>2. QED
      BY ONLY <1>1, <1>4, <3>1, EssentialFound
  <2>3. CASE p.data \in {2} \X Word16 \X Word16 \X Word16 \X Octet \X Word16
    <3>1. PICK b \in Word16, c \in Word16, d \in Word16, e \in Octet, f \in Word16 :
            p.data = <<2, b, c, d, e, f>>
      BY ONLY <2>3
    <3>2. QED
      BY ONLY <1>1, <1>4, <3>1, StatisticsFound
  <2>4. QED
    BY ONLY <2>1, <2>2, <2>3
<1>5. CASE service = PUS_SERVICE_EVENT
  <2>1. p.data \in Word16 \X Word16
    BY ONLY <1>1, <1>5 DEF SourceFields
  <2>2. PICK a \in Word16, b \in Word16 : p.data = <<a, b>>
    BY ONLY <2>1
  <2>3. QED
    BY ONLY <1>1, <1>5, <2>2, EventFound
<1>6. CASE service = PUS_SERVICE_TEST
  <2>1. p.data = <<>>
    BY ONLY <1>1, <1>6 DEF SourceFields
  <2>2. QED
    BY ONLY <1>1, <1>6, <2>1, AliveFound
<1>7. QED
  BY ONLY <1>2, <1>3, <1>4, <1>5, <1>6

\* The ground decoder reads back what pus_tm_build wrote.
Decodes(raw, p, time) ==
  /\ tm_sound(raw) /\ hk_sound(raw)
  /\ parse_tm(raw) = [packet |-> p, apid |-> PUS_TM_APID,
                      destination_id |-> PUS_TM_DESTINATION_ID, time |-> time]

LEMMA DecodedTm ==
  ASSUME NEW service \in TmServices, NEW p \in SentTm(service),
         NEW time \in [coarse : Word32, fine : Word16],
         NEW raw, raw = pus_tm_build(p, time, PUS_MAX_PACKET_SIZE).octets
  PROVE  raw \in Seq(Octet) /\ 6 <= Len(raw) /\ Decodes(raw, p, time)
<1> DEFINE d == SourceData(p)
           n == Len(raw)
<1>1. /\ p.seq_count \in SeqCount /\ p.msg_counter \in Word16 /\ p.subtype \in Octet
      /\ p.service = service
      /\ p = [service |-> p.service, subtype |-> p.subtype, data |-> p.data,
              seq_count |-> p.seq_count, msg_counter |-> p.msg_counter]
  BY DEF SentTm
<1>2. /\ time.coarse \in Word32 /\ time.fine \in Word16
      /\ time = [coarse |-> time.coarse, fine |-> time.fine]
  OBVIOUS
<1>3. p.service \in Octet
  BY <1>1 DEF TmServices, PUS_SERVICE_VERIFICATION, PUS_SERVICE_HOUSEKEEPING, PUS_SERVICE_EVENT,
              PUS_SERVICE_TEST, Octet
<1>4. FieldsFound(raw, p)
  BY FieldsOfService
<1>5. d \in Seq(Octet) /\ Len(d) <= 20
  BY ONLY <1>4 DEF FieldsFound
<1>6. HoldsTm(raw, p, time, d)
  BY <1>1, <1>2, <1>3, <1>5, BuiltTm
<1>7. tm_fields(raw) = p.data /\ hk_sound(raw)
  BY ONLY <1>4, <1>6 DEF FieldsFound, HoldsTm
<1> HIDE DEF d
<1>8. raw \in Seq(Octet) /\ n = 21 + Len(d) /\ Len(d) \in Nat /\ n >= 21 /\ 6 <= n
  BY <1>5, <1>6, LenProperties DEF HoldsTm
<1>9. raw[1] \in Octet /\ raw[2] \in Octet
  BY <1>8, ElementOfSeq, 1 \in 1 .. n, 2 \in 1 .. n
<1>10. raw[1] = 8
  <2> DEFINE a == raw[1]
             b == raw[2]
  <2>1. a \in Int /\ 0 <= a /\ b \in Int /\ 0 <= b /\ b <= 255
    BY <1>9, OctetRange
  <2>2. a * 256 + b = 2060
    BY <1>6, 1 + 1 = 2 DEF HoldsTm, pus_get_u16
  <2> HIDE DEF a, b
  <2>3. a = 8
    BY ONLY <2>1, <2>2
  <2>4. QED
    BY ONLY <2>3 DEF a
<1>11. 6 + pus_get_u16(raw, 5) + 1 = n
  <2> DEFINE w == pus_get_u16(raw, 5)
  <2>1. w = n - 7 /\ n \in Int
    BY <1>6, <1>8 DEF HoldsTm
  <2> HIDE DEF w, n
  <2>2. QED
    BY ONLY <2>1 DEF w
<1>12. tm_sound(raw)
  <2>1. (8 \div 16) % 2 = 0 /\ 32 \div 16 = 2
    OBVIOUS
  <2>2. raw[7] \div 16 = PUS_VERSION_C
    BY <1>6, <2>1 DEF HoldsTm, PUS_VERSION_C
  <2>3. crc16_ccitt(SubSeq(raw, 1, Len(raw) - 2)) = pus_get_u16(raw, Len(raw) - 1)
    BY ONLY <1>6 DEF HoldsTm
  <2>4. QED
    BY ONLY <1>8, <1>10, <1>11, <2>1, <2>2, <2>3 DEF tm_sound
<1>13. pus_get_u16(raw, 3) % 16384 = p.seq_count /\ pus_get_u16(raw, 1) % 2048 = PUS_TM_APID
  <2> DEFINE c == p.seq_count
  <2>1. c \in Int /\ 0 <= c /\ c <= 16383
    BY <1>1, SeqCountRange
  <2>2. pus_get_u16(raw, 3) = 3 * 16384 + c /\ pus_get_u16(raw, 1) = 2060
    BY <1>6 DEF HoldsTm
  <2> HIDE DEF c
  <2>3. (3 * 16384 + c) % 16384 = c
    BY ONLY <2>1
  <2>4. 2060 % 2048 = PUS_TM_APID
    BY DEF PUS_TM_APID
  <2>5. QED
    BY ONLY <2>2, <2>3, <2>4 DEF c
<1>14. /\ raw[8] = p.service /\ raw[9] = p.subtype /\ pus_get_u16(raw, 10) = p.msg_counter
       /\ pus_get_u16(raw, 12) = PUS_TM_DESTINATION_ID
       /\ pus_get_u32(raw, 14) = time.coarse /\ pus_get_u16(raw, 18) = time.fine
  BY ONLY <1>6 DEF HoldsTm
<1>15. parse_tm(raw) = [packet |-> p, apid |-> PUS_TM_APID,
                        destination_id |-> PUS_TM_DESTINATION_ID, time |-> time]
  BY ONLY <1>1, <1>2, <1>7, <1>13, <1>14 DEF parse_tm
<1>16. QED
  BY ONLY <1>7, <1>8, <1>12, <1>15 DEF Decodes

-----------------------------------------------------------------------------
(* The link *)

LEMMA TcEncoded ==
  ASSUME NEW tc \in SentTc, NEW seq \in SeqCount, NEW raw, raw = build_tc(tc, seq)
  PROVE  raw \in Seq(Octet) /\ 6 <= Len(raw)
<1>1. HoldsTc(raw, tc)
  BY BuiltTc
<1>2. raw \in Seq(Octet) /\ Len(raw) = PUS_TC_MIN_LEN + Len(tc.app_data)
  BY ONLY <1>1 DEF HoldsTc
<1>3. tc.app_data \in Seq(Octet)
  BY DEF SentTc, RawTc
<1>4. Len(tc.app_data) \in Nat
  BY ONLY <1>3, LenProperties
<1>5. PUS_TC_MIN_LEN = 13
  BY DEF PUS_TC_MIN_LEN, CCSDS_PRIMARY_HEADER_LEN, PUS_TC_SEC_HEADER_LEN, CCSDS_CRC_LEN
<1>6. QED
  BY ONLY <1>2, <1>4, <1>5

LEMMA Encoded ==
  ASSUME NEW m \in Messages
  PROVE  Encode(m) \in Seq(Octet) /\ 6 <= Len(Encode(m))
<1>1. m \in Uplink \/ \E service \in TmServices : m \in Downlinked(service)
  BY MessageAssumption
<1>2. CASE m \in Uplink
  <2>1. m.dir = "up" /\ m.tc \in SentTc /\ m.seq_count \in SeqCount
    BY ONLY <1>2 DEF Uplink
  <2>2. Encode(m) = build_tc(m.tc, m.seq_count)
    BY ONLY <2>1 DEF Encode
  <2>3. QED
    BY ONLY <2>1, <2>2, TcEncoded
<1>3. ASSUME NEW service \in TmServices, m \in Downlinked(service)
      PROVE  Encode(m) \in Seq(Octet) /\ 6 <= Len(Encode(m))
  <2>1. /\ m.dir = "down" /\ m.tm \in SentTm(service)
        /\ m.time \in [coarse : Word32, fine : Word16]
    BY ONLY <1>3 DEF Downlinked
  <2>2. Encode(m) = pus_tm_build(m.tm, m.time, PUS_MAX_PACKET_SIZE).octets
    BY ONLY <2>1 DEF Encode
  <2>3. QED
    BY ONLY <2>1, <2>2, DecodedTm, service \in TmServices
<1>4. QED
  BY <1>1, <1>2, <1>3

\* The octets on the link are octets and enough for a header, and those of a packet that
\* noise has not hit are the ones its sender wrote; noise hits no telemetry.
LinkInv ==
  /\ sent \in Messages
  /\ octets \in Seq(Octet) /\ 6 <= Len(octets)
  /\ noise = {} => octets = Encode(sent)
  /\ sent.dir = "down" => noise = {}

LEMMA InvertedOctets ==
  ASSUME octets \in Seq(Octet), NEW bits
  PROVE  Inverted(bits) \in Seq(Octet) /\ Len(Inverted(bits)) = Len(octets)
<1> DEFINE n == Len(octets)
           v(i) == Number(Plus(Digits(octets[i]), {b - 8 * (Len(octets) - i) : b \in bits}), 8)
<1>1. n \in Nat /\ DOMAIN octets = 1 .. n
  BY LenProperties
<1>2. Inverted(bits) = [i \in 1 .. n |-> v(i)]
  BY <1>1 DEF Inverted
<1>3. \A i \in 1 .. n : v(i) \in Octet
  BY NumberOctet
<1> HIDE DEF v, n
<1>4. QED
  BY <1>1, <1>2, <1>3 DEF n

LEMMA LinkInitial == NlInit => LinkInv
  BY Encoded DEF NlInit, LinkInv

LEMMA LinkStep == LinkInv /\ [NlNext]_link_vars => LinkInv'
<1> SUFFICES ASSUME LinkInv, [NlNext]_link_vars PROVE LinkInv'
  OBVIOUS
<1>1. ASSUME NEW bits, bits # {}, Hit(bits), sent.dir = "up" PROVE LinkInv'
  <2>1. octets' = Inverted(bits) /\ noise' = noise \cup bits /\ sent' = sent
    BY <1>1 DEF Hit
  <2>2. octets' \in Seq(Octet) /\ Len(octets') = Len(octets)
    BY <2>1, InvertedOctets DEF LinkInv
  <2>3. noise' # {} /\ sent'.dir # "down"
    BY <1>1, <2>1
  <2>4. QED
    BY <2>1, <2>2, <2>3 DEF LinkInv
<1>2. CASE Invert
  <2>1. PICK b \in Bits \ noise : Hit({b})
    BY <1>2 DEF Invert
  <2>2. QED
    BY <1>1, <1>2, <2>1, {b} # {} DEF Invert
<1>3. CASE Burst
  <2>1. PICK first \in Bits, others \in SUBSET (1 .. BURST - 1) :
          Hit({first} \cup ({first + k : k \in others} \cap Bits))
    BY <1>3 DEF Burst
  <2> DEFINE bits == {first} \cup ({first + k : k \in others} \cap Bits)
  <2>2. bits # {} /\ Hit(bits) /\ sent.dir = "up"
    BY <1>3, <2>1 DEF Burst
  <2> HIDE DEF bits
  <2>3. QED
    BY <1>1, <2>2
<1>4. CASE UNCHANGED link_vars
  BY <1>4 DEF LinkInv, link_vars
<1>5. QED
  BY <1>2, <1>3, <1>4 DEF NlNext

LEMMA LinkAlways == NlSpec => []LinkInv
  BY LinkInitial, LinkStep, PTL DEF NlSpec

\* SWREQ-CRC-010, for every packet of any length, corrupted or not: the register that
\* crc16_ccitt shifts holds the remainder of the division by x^16 + x^12 + x^5 + 1.
THEOREM CrcIsTheRemainder == NlSpec => []CrcIsRemainder
<1>1. LinkInv => CrcIsRemainder
  BY CrcByDivision DEF LinkInv, CrcIsRemainder
<1>2. QED
  BY <1>1, LinkAlways, PTL

\* SWREQ-CCSDS-010, for every packet and every pattern of noise: ccsds_pack_primary writes
\* back the six octets ccsds_unpack_primary read, and its fields stay within their widths.
THEOREM HeaderKeepsItsBits == NlSpec => []HeaderRoundTrip
<1>1. LinkInv => HeaderRoundTrip
  BY HeaderKept DEF LinkInv, HeaderRoundTrip
<1>2. QED
  BY <1>1, LinkAlways, PTL

\* SWREQ-TC-010, for every header field, declared length, application data and checksum
\* defect build_tc can be asked for: ReceivedTc, what pus_tc_parse reads, is what was sent.
THEOREM TcDecodes == NlSpec => []TcDecodesAsSent
<1>1. LinkInv => TcDecodesAsSent
  <2> SUFFICES ASSUME LinkInv, sent.dir = "up", noise = {}
      PROVE  LET tc == ReceivedTc(octets) IN
             /\ tc = [sent.tc EXCEPT !.request_id = tc.request_id]
             /\ pus_put_u16(tc.request_id[1]) \o pus_put_u16(tc.request_id[2]) = SubSeq(octets, 1, 4)
    BY DEF TcDecodesAsSent
  <2>1. sent \in Messages /\ octets = Encode(sent)
    BY DEF LinkInv
  <2>2. sent \in Uplink
    <3>1. sent \in Uplink \/ \E service \in TmServices : sent \in Downlinked(service)
      BY ONLY <2>1, MessageAssumption
    <3>2. ASSUME NEW service, sent \in Downlinked(service) PROVE sent.dir = "down"
      BY ONLY <3>2 DEF Downlinked
    <3>3. QED
      BY ONLY <3>1, <3>2, sent.dir = "up"
  <2>3. sent.tc \in SentTc /\ sent.seq_count \in SeqCount
    BY ONLY <2>2 DEF Uplink
  <2>4. octets = build_tc(sent.tc, sent.seq_count)
    BY ONLY <2>1, sent.dir = "up" DEF Encode
  <2>5. QED
    BY ONLY <2>3, <2>4, DecodedTc
<1>2. QED
  BY <1>1, LinkAlways, PTL

\* SWREQ-TM-010 and SWREQ-TM-040, for every report of every service, every count and every
\* on-board time: the ground's parse_tm accepts the packet pus_tm_build wrote and reads
\* back all its fields.
THEOREM TmDecodes == NlSpec => []TelemetryDecodes
<1>1. LinkInv => TelemetryDecodes
  <2> SUFFICES ASSUME LinkInv, sent.dir = "down" PROVE Decodes(octets, sent.tm, sent.time)
    BY DEF TelemetryDecodes, Decodes
  <2>1. sent \in Messages /\ octets = Encode(sent)
    BY DEF LinkInv
  <2>2. \E service \in TmServices : sent \in Downlinked(service)
    <3>1. sent \in Uplink \/ \E service \in TmServices : sent \in Downlinked(service)
      BY ONLY <2>1, MessageAssumption
    <3>2. sent \in Uplink => sent.dir = "up"
      BY ONLY DEF Uplink
    <3>3. QED
      BY ONLY <3>1, <3>2, sent.dir = "down"
  <2>3. PICK service \in TmServices : sent \in Downlinked(service)
    BY ONLY <2>2
  <2>4. sent.tm \in SentTm(service) /\ sent.time \in [coarse : Word32, fine : Word16]
    BY ONLY <2>3 DEF Downlinked
  <2>5. octets = pus_tm_build(sent.tm, sent.time, PUS_MAX_PACKET_SIZE).octets
    BY ONLY <2>1, sent.dir = "down" DEF Encode
  <2>6. QED
    BY ONLY <2>3, <2>4, <2>5, DecodedTm
<1>2. QED
  BY <1>1, LinkAlways, PTL

-----------------------------------------------------------------------------
(* Noise on the link *)

LEMMA InvertedBit ==
  ASSUME octets \in Seq(Octet), NEW bits \in SUBSET Bits
  PROVE  Differ(octets, Inverted(bits), bits)
<1> DEFINE L == Len(octets)
           I == Inverted(bits)
           places(i) == {b - 8 * (L - i) : b \in bits}
<1>1. L \in Nat /\ DOMAIN octets = 1 .. L
  OBVIOUS
<1>2. I \in Seq(Octet) /\ Len(I) = L
  BY InvertedOctets
<1>3. \A i \in 1 .. L : I[i] = Number(Plus(Digits(octets[i]), places(i)), 8)
  BY <1>1 DEF Inverted
<1>4. bits \in SUBSET (0 .. 8 * L - 1)
  BY DEF Bits
<1> HIDE DEF I
<1>5. ASSUME NEW e \in 0 .. 8 * L - 1 PROVE BitAt(I, e) <=> ~(BitAt(octets, e) <=> e \in bits)
  <2> DEFINE q == e \div 8
             r == e % 8
             i == L - q
             digits == Digits(octets[i])
             set == Plus(digits, places(i))
  <2>1. q \in Nat /\ r \in 0 .. 7 /\ e = 8 * q + r /\ i \in 1 .. L
    BY <1>1, BitPlace
  <2>2. /\ BitAt(I, e) <=> Shifted(I[i], r) % 2 = 1
        /\ BitAt(octets, e) <=> Shifted(octets[i], r) % 2 = 1
    BY <1>2 DEF BitAt
  <2>3. I[i] = Number(set, 8)
    BY <1>3, <2>1
  <2>5. r \in places(i) <=> e \in bits
    <3>1. L - i = q
      BY <1>1, <2>1
    <3> HIDE DEF q, r, i
    <3>2. \A b \in bits : b - 8 * q = r <=> b = e
      BY <1>4, <2>1
    <3>3. r \in places(i) <=> \E b \in bits : r = b - 8 * q
      BY <3>1
    <3>4. QED
      BY <3>2, <3>3
  <2> HIDE DEF r, i
  <2>4. r \in digits <=> Shifted(octets[i], r) % 2 = 1
    BY <2>1, r \in 0 .. 15, DigitShifted
  <2> HIDE DEF digits
  <2>6. r \in set <=> ~(r \in digits <=> r \in places(i))
    BY DEF Plus
  <2> HIDE DEF set, q, r, i
  <2>7. r \in 0 .. 8 - 1
    BY <2>1
  <2>8. Shifted(Number(set, 8), r) % 2 = 1 <=> r \in set
    BY ONLY <2>7, 8 \in 1 .. 16, DigitOfNumber
  <2>9. QED
    BY ONLY <2>2, <2>3, <2>4, <2>5, <2>6, <2>8
<1>6. QED
  BY <1>1, <1>2, <1>4, <1>5 DEF Differ, I

\* What was sent and what arrives differ in the bits noise has hit.
NoiseInv == LinkInv /\ (sent.dir = "up" => Differ(Encode(sent), octets, noise))

LEMMA NoiseInitial == NlInit => NoiseInv
  BY LinkInitial, Encoded, DifferNowhere DEF NlInit, NoiseInv

\* The bits a step of the link inverts.
LEMMA HitBits ==
  ASSUME LinkInv, noise \in SUBSET Bits, NlNext
  PROVE  \E bits \in SUBSET Bits : Hit(bits) /\ bits \cap noise = {} /\ sent.dir = "up"
<1>1. CASE Invert
  <2>1. PICK b \in Bits \ noise : Hit({b})
    BY <1>1 DEF Invert
  <2>2. {b} \in SUBSET Bits /\ {b} \cap noise = {}
    BY <2>1
  <2>3. QED
    BY <1>1, <2>1, <2>2 DEF Invert
<1>2. CASE Burst
  <2>1. PICK first \in Bits, others \in SUBSET (1 .. BURST - 1) :
          Hit({first} \cup ({first + k : k \in others} \cap Bits))
    BY <1>2 DEF Burst
  <2> DEFINE bits == {first} \cup ({first + k : k \in others} \cap Bits)
  <2>2. bits \in SUBSET Bits /\ bits \cap noise = {} /\ Hit(bits) /\ sent.dir = "up"
    BY <1>2, <2>1 DEF Burst
  <2> HIDE DEF bits
  <2>3. QED
    BY <2>2
<1>3. QED
  BY <1>1, <1>2 DEF NlNext

LEMMA NoiseStep == NoiseInv /\ [NlNext]_link_vars => NoiseInv'
<1> SUFFICES ASSUME NoiseInv, [NlNext]_link_vars PROVE NoiseInv'
  OBVIOUS
<1>1. LinkInv /\ LinkInv'
  BY LinkStep DEF NoiseInv
<1>2. CASE NlNext
  <2>1. sent.dir = "up"
    BY <1>2 DEF NlNext, Invert, Burst
  <2>2. Differ(Encode(sent), octets, noise)
    BY <2>1 DEF NoiseInv
  <2>3. octets \in Seq(Octet) /\ noise \in SUBSET Bits
    BY <1>1, <2>2 DEF Differ, Bits
  <2>4. PICK bits \in SUBSET Bits : Hit(bits) /\ bits \cap noise = {}
    BY <1>1, <1>2, <2>3, HitBits
  <2>5. Differ(octets, Inverted(bits), bits)
    BY <2>3, InvertedBit
  <2>6. octets' = Inverted(bits) /\ noise' = noise \cup bits /\ sent' = sent
    BY <2>4 DEF Hit
  <2> DEFINE enc == Encode(sent)
  <2>7. enc' = enc
    BY <2>6 DEF Encode
  <2> HIDE DEF enc
  <2>8. Differ(enc, Inverted(bits), noise \cup bits)
    BY ONLY <2>2, <2>4, <2>5, DifferTwice DEF enc
  <2>9. Differ(enc', octets', noise')
    BY ONLY <2>6, <2>7, <2>8
  <2>10. QED
    BY <1>1, <2>9 DEF NoiseInv, enc
<1>3. CASE UNCHANGED link_vars
  BY <1>3 DEF NoiseInv, LinkInv, link_vars, Encode, Differ
<1>4. QED
  BY <1>2, <1>3

\* Noise that spans at most sixteen bits, or hits an odd number of them.
Short(bits) == \E first \in Nat : bits \subseteq first .. first + 15

LEMMA Caught ==
  ASSUME NoiseInv, Odd(noise) \/ Short(noise)
  PROVE  NoiseIsCaught
<1> SUFFICES ASSUME sent.dir = "up", noise # {}, sent.tc.crc_ok
             PROVE  pus_tc_parse(ReceivedTc(octets)) \in {PUS_ERR_BAD_LENGTH, PUS_ERR_BAD_CRC}
  BY DEF NoiseIsCaught
<1> DEFINE a == Encode(sent)
           L == Len(a)
           n == 8 * (L - 2)
           raw == ReceivedTc(octets)
<1>1. Differ(a, octets, noise) /\ sent \in Messages
  BY DEF NoiseInv, LinkInv
<1>2. sent.tc \in SentTc /\ sent.seq_count \in SeqCount
  <2>1. sent \in Uplink \/ \E service \in TmServices : sent \in Downlinked(service)
    BY ONLY <1>1, MessageAssumption
  <2>2. ASSUME NEW service, sent \in Downlinked(service) PROVE sent.dir = "down"
    BY ONLY <2>2 DEF Downlinked
  <2>3. sent \in Uplink
    BY ONLY <2>1, <2>2, sent.dir = "up"
  <2>4. QED
    BY ONLY <2>3 DEF Uplink
<1>3. a = build_tc(sent.tc, sent.seq_count)
  BY ONLY sent.dir = "up" DEF Encode
<1>4. HoldsTc(a, sent.tc)
  <2> HIDE DEF a
  <2>1. QED
    BY ONLY <1>2, <1>3, BuiltTc
<1>5. PUS_TC_MIN_LEN = 13 /\ CCSDS_CRC_LEN = 2
  BY DEF PUS_TC_MIN_LEN, CCSDS_PRIMARY_HEADER_LEN, PUS_TC_SEC_HEADER_LEN, CCSDS_CRC_LEN
<1> HIDE DEF a
<1>6. L \in Nat /\ L >= 13
  <2>1. L = PUS_TC_MIN_LEN + Len(sent.tc.app_data)
    BY ONLY <1>4 DEF HoldsTc
  <2>2. sent.tc.app_data \in Seq(Octet)
    BY ONLY <1>2 DEF SentTc, RawTc
  <2>3. Len(sent.tc.app_data) \in Nat
    BY ONLY <2>2, LenProperties
  <2>4. QED
    BY ONLY <1>5, <2>1, <2>3
<1>7. Verifies(a)
  BY ONLY <1>4, sent.tc.crc_ok DEF HoldsTc, Verifies
<1>8. Len(octets) = L /\ octets \in Seq(Octet) /\ noise \in SUBSET (0 .. 8 * L - 1)
  BY ONLY <1>1 DEF Differ
<1>9. n \in Nat /\ 8 * L - 1 = 15 + n /\ 2 <= L
  BY ONLY <1>6
<1>10. noise \in SUBSET (0 .. 15 + n)
  BY ONLY <1>8, <1>9
<1> HIDE DEF n
<1>11. Remainder(noise, n) # {}
  <2>1. CASE Odd(noise)
    BY ONLY <1>9, <1>10, <2>1, OddRemains
  <2>2. CASE Short(noise)
    <3>1. PICK first \in Nat : noise \subseteq first .. first + 15
      BY <2>2 DEF Short
    <3>2. QED
      BY ONLY <1>9, <1>10, <3>1, noise # {}, first \in Nat, BurstRemains
  <2>3. QED
    BY <2>1, <2>2
<1>12. ~Verifies(octets)
  BY ONLY <1>1, <1>7, <1>9, <1>11, NoiseDivided DEF n
<1>13. Padded(octets) = octets
  BY ONLY <1>5, <1>6, <1>8 DEF Padded
<1>14. ~raw.crc_ok /\ raw.len = Len(octets)
  BY ONLY <1>5, <1>12, <1>13 DEF ReceivedTc, Verifies
<1> HIDE DEF raw
<1>15. ~(raw.len < PUS_TC_MIN_LEN)
  BY ONLY <1>5, <1>6, <1>8, <1>14
<1>16. pus_tc_parse(raw) \in {PUS_ERR_BAD_LENGTH, PUS_ERR_BAD_CRC}
  BY ONLY <1>14, <1>15 DEF pus_tc_parse
<1>17. QED
  BY <1>16 DEF raw

LEMMA NoiseAlways == NlSpec => []NoiseInv
  BY NoiseInitial, NoiseStep, PTL DEF NlSpec

\* SWREQ-TC-015, for every telecommand of any length: after a burst of up to sixteen bits,
\* or an odd number of inverted bits wherever they are, pus_tc_parse refuses the packet for
\* its length or its checksum, never for its APID or another field.
THEOREM BurstsAndOddNoise == NlSpec => [](Odd(noise) \/ Short(noise) => NoiseIsCaught)
<1>1. NoiseInv => (Odd(noise) \/ Short(noise) => NoiseIsCaught)
  BY Caught
<1>2. QED
  BY <1>1, NoiseAlways, PTL

\* Where noise comes once, as one such burst.
BurstInv == NoiseInv /\ (noise = {} \/ Short(noise))

LEMMA BurstStep ==
  ASSUME FLIPS <= 1, BURST <= 16 PROVE BurstInv /\ [NlNext]_link_vars => BurstInv'
<1> SUFFICES ASSUME BurstInv, [NlNext]_link_vars PROVE BurstInv'
  OBVIOUS
<1>1. NoiseInv /\ NoiseInv'
  BY NoiseStep DEF BurstInv
<1>2. CASE Invert
  <2>1. PICK b \in Bits \ noise : Hit({b})
    BY <1>2 DEF Invert
  <2>2. b \in Nat
    BY <1>1 DEF Bits, NoiseInv, LinkInv
  <2>3. noise = {}
    <3>1. Differ(Encode(sent), octets, noise)
      BY <1>1, <1>2 DEF NoiseInv, Invert
    <3>2. noise \in SUBSET (0 .. 8 * Len(Encode(sent)) - 1) /\ Len(Encode(sent)) \in Nat
      BY <3>1 DEF Differ
    <3>3. IsFiniteSet(noise)
      <4> DEFINE m == 8 * Len(Encode(sent)) - 1
      <4>1. m \in Int
        BY <3>2
      <4>2. IsFiniteSet(0 .. m)
        BY <4>1, FS_Interval
      <4>3. QED
        BY <3>2, <4>2, FS_Subset
    <3>4. Cardinality(noise) \in Nat /\ Cardinality(noise) < 1
      BY <1>2, <3>3, FS_CardinalityType, NoiseAssumption DEF Invert
    <3>5. Cardinality(noise) = 0
      BY <3>4
    <3>6. QED
      BY <3>3, <3>5, FS_EmptySet
  <2>4. noise' = {b}
    BY <2>1, <2>3 DEF Hit
  <2>5. Short(noise')
    BY <2>2, <2>4 DEF Short
  <2>6. QED
    BY <1>1, <2>5 DEF BurstInv
<1>3. CASE Burst
  <2>1. PICK first \in Bits, others \in SUBSET (1 .. BURST - 1) :
          Hit({first} \cup ({first + k : k \in others} \cap Bits))
    BY <1>3 DEF Burst
  <2>2. noise' = {first} \cup ({first + k : k \in others} \cap Bits)
    BY <1>3, <2>1 DEF Hit, Burst
  <2>3. first \in Nat
    BY <1>1 DEF Bits, NoiseInv, LinkInv
  <2>4. \A k \in others : k \in 1 .. 15
    BY NoiseAssumption
  <2>5. noise' \subseteq first .. first + 15
    BY <2>2, <2>3, <2>4
  <2>6. Short(noise')
    BY <2>3, <2>5 DEF Short
  <2>7. QED
    BY <1>1, <2>6 DEF BurstInv
<1>4. CASE UNCHANGED link_vars
  BY <1>1, <1>4 DEF BurstInv, link_vars, Short
<1>5. QED
  BY <1>2, <1>3, <1>4 DEF NlNext

\* SWREQ-TC-015 in every behaviour where noise comes once, as a burst of up to sixteen bits:
\* pus_tc_parse reports no bit flip as an addressing error.
THEOREM OneBurstIsCaught == FLIPS <= 1 /\ BURST <= 16 => (NlSpec => []NoiseIsCaught)
<1> SUFFICES ASSUME FLIPS <= 1, BURST <= 16 PROVE NlSpec => []NoiseIsCaught
  OBVIOUS
<1>1. NlInit => BurstInv
  BY NoiseInitial DEF BurstInv, NlInit
<1>2. BurstInv /\ [NlNext]_link_vars => BurstInv'
  BY BurstStep
<1>3. BurstInv => NoiseIsCaught
  BY Caught DEF BurstInv, NoiseIsCaught
<1>4. QED
  BY <1>1, <1>2, <1>3, PTL DEF NlSpec
=============================================================================
