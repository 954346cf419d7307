------------------------------- MODULE Crc16 -------------------------------
(***************************************************************************)
(* src/crc16.c : the packet error control field, and what it should be.    *)
(***************************************************************************)
EXTENDS PusBytes

CRC16_SEED == 65535   \* 0xFFFF
POLYNOMIAL == 4129    \* 0x1021

\* A number as the set of the weights of its binary digits that are one, and the
\* number whose digits below 2^width are these, from the highest digit down.
Digits(x) == {k \in 0 .. 15 : (x \div 2^k) % 2 = 1}
Number(bits, width) ==
  LET high[n \in 0 .. width] ==   \* its n highest digits
        IF n = 0 THEN 0 ELSE 2 * high[n - 1] + (IF width - n \in bits THEN 1 ELSE 0)
  IN high[width]

\* The 16-bit word with these digits.
Word(digits) == [bits \in SUBSET (0 .. 15) |-> Number(bits, 16)][digits]

\* The digits, or coefficients, in which two numbers or polynomials differ.
Plus(p, q) == (p \ q) \cup (q \ p)

\* a ^ b on 16 bits
Differing(a, b) == {k \in 0 .. 15 : (a \div 2^k) % 2 # (b \div 2^k) % 2}
Xor16(a, b) == Word(Differing(a, b))

\* Mutant: the bit shifted out does not feed back.
Shift_no_feedback(crc) == (crc * 2) % 65536

\* One step of the inner loop: crc << 1, with the polynomial if the top bit was set.
Shift(crc) == IF crc \div 32768 = 1 THEN Xor16((crc * 2) % 65536, POLYNOMIAL)
              ELSE (crc * 2) % 65536

\* The inner loop: eight shifts of the register.
FourShifts(crc) == Shift(Shift(Shift(Shift(crc))))
EightShifts == [crc \in Word16 |-> FourShifts(FourShifts(crc))]

\* One turn of the outer loop, as a function on the register.
Turn(octet) == [crc \in Word16 |-> EightShifts[Xor16(crc, octet * 256)]]

\* The register after the first i octets, and after all of them.
Registers(data) ==
  LET crc[i \in 0 .. Len(data)] == IF i = 0 THEN CRC16_SEED ELSE Turn(data[i])[crc[i - 1]]
  IN crc
crc16_ccitt(data) == Registers(data)[Len(data)]

-----------------------------------------------------------------------------
(* The definition of the checksum as a remainder.  A polynomial over the   *)
(* integers modulo 2 is the set of its exponents.                          *)

\* The octets, highest exponent first, times x^shift.
Polynomial(octets, shift) ==
  {shift + e : e \in {k \in 0 .. 8 * Len(octets) - 1 :
                        (octets[Len(octets) - k \div 8] \div 2^(k % 8)) % 2 = 1}}

\* The generator x^16 + x^12 + x^5 + 1, times x^k.
Generator(k) == {k + 16, k + 12, k + 5, k}

\* p modulo the generator, for a p of degree below 16 + n: long division from the
\* highest exponent down, which leaves the exponents below 16.
Divided(k, n) == [p \in SUBSET (0 .. 15 + n) |-> IF k + 16 \in p THEN Plus(p, Generator(k)) ELSE p]
Remainder(p, n) ==
  LET rem[j \in 0 .. n] == IF j = 0 THEN p ELSE Divided(n - j, n)[rem[j - 1]]
  IN rem[n]

\* The checksum by definition: the remainder of data * x^16, its first sixteen
\* bits inverted by the seed.
CrcReference(data) ==
  LET n == 8 * Len(data) IN
  Word(Remainder(Plus(Polynomial(data, 16), Polynomial(<<255, 255>>, n)), n))
=============================================================================
