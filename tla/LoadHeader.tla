----------------------------- MODULE LoadHeader -----------------------------
(***************************************************************************)
(* The header an innet server sends on a new connection, and what outnet    *)
(* reads out of it.  InNetProducer writes a counted string, one length byte *)
(* and the characters of "1.0.0", and the load as a double; OutNetProc      *)
(* reads an int and a double.  The two layouts do not agree: the double it  *)
(* reads starts inside the string and ends before the load does.  Bytes are *)
(* numbers 0..255, in network order, most significant first.                *)
(***************************************************************************)
EXTENDS Naturals, Sequences

\* A load is a number of sockets; these are the ones DoubleBytes is about.
Loads == 0 .. 4095

\* 2^e, for e in 0 .. 12.
PowersOfTwo == <<1, 2, 4, 8, 16, 32, 64, 128, 256, 512, 1024, 2048, 4096>>
TwoTo(e) == PowersOfTwo[e + 1]

\* The position of the highest bit of n > 0.
Log2(n) == CHOOSE e \in 0 .. 11 : TwoTo(e) <= n /\ n < TwoTo(e + 1)

\* The IEEE double of one of these numbers, as ROOT writes it: sign
\* and exponent in 12 bits, then 52 bits of mantissa, of which such a number
\* uses the first 12.
DoubleBytes(n) ==
  IF n = 0 THEN <<0, 0, 0, 0, 0, 0, 0, 0>>
  ELSE LET e == Log2(n)
           mantissa == (n - TwoTo(e)) * TwoTo(12 - e)
       IN <<(1023 + e) \div 16, ((1023 + e) % 16) * 16 + mantissa \div 256,
            mantissa % 256, 0, 0, 0, 0, 0>>

\* The five characters of "1.0.0".
Version == <<49, 46, 48, 46, 48>>

\* WriteFastArrayString(version, 5) and WriteDouble(load).
HeaderBytes(n) == <<Len(Version)>> \o Version \o DoubleBytes(n)

\* ReadInt, then ReadDouble.  A reader 4 bytes further on would see only the
\* low half of the load.
WrongReadLoadBytes(header) == SubSeq(header, 9, 14)
ReadLoadBytes(header) == SubSeq(header, 5, 12)
ReadVersionBytes(header) == SubSeq(header, 1, 4)

\* Doubles with the sign bit clear, as the 46 of a full stop leaves it, are
\* ordered like their bytes.
BytesBelow(d, f) ==
  \E i \in DOMAIN d :
    d[i] < f[i] /\ \A j \in 1 .. (i - 1) : d[j] = f[j]
=============================================================================
