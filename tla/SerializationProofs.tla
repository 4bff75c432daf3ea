------------------------- MODULE SerializationProofs -------------------------
(***************************************************************************)
(* Whatever is written, the reader reads it (theorems about Serialization). *)
(*                                                                          *)
(* The bytes on the wire are a path from what the reader expects to what    *)
(* the writer has left, one node at a time. Since no two nodes that may     *)
(* stand at one place begin with the same bytes, the reader has to follow   *)
(* that path.                                                               *)
(***************************************************************************)
EXTENDS Serialization, SequenceTheorems, TLAPS

-----------------------------------------------------------------------------
(* Numbers.                                                                 *)

(* Division by 256 splits a number, as to_be_bytes does byte by byte.       *)
LEMMA Split ==
  ASSUME NEW v \in Int
  PROVE  /\ v \div 256 \in Int
         /\ v % 256 \in 0 .. 255
         /\ v = (256 * (v \div 256)) + (v % 256)
         /\ v \div 65536 = (v \div 256) \div 256
         /\ v \div 16777216 = (v \div 65536) \div 256
  BY SMT

(* The range of lengths.                                                    *)
LEMMA MaxIntNat == MaxInt \in Nat
  BY SMT DEF MaxInt

LEMMA MaxIntValue == MaxInt = 2147483647
  BY SMT DEF MaxInt

LEMMA IntBound ==
  ASSUME NEW v \in Int, v <= MaxInt
  PROVE  v <= 2147483647
  BY SMT DEF MaxInt

LEMMA IntRange ==
  ASSUME NEW v \in 0 .. MaxInt
  PROVE  v \in Int /\ 0 <= v /\ v <= 2147483647
<1>1. v \in Int /\ 0 <= v /\ v <= MaxInt
  BY SMT, MaxIntNat
<1> QED BY SMT, <1>1, IntBound

(* The weights of the bytes of to_be_bytes.                                 *)
LEMMA Powers ==
  /\ Power256[1] = 1
  /\ Power256[2] = 256
  /\ Power256[3] = 65536
  /\ Power256[4] = 16777216
  BY SMT DEF Power256

(* The bytes of a number, the least significant first.                      *)
LEMMA Digits4 ==
  ASSUME NEW b, Len(b) = 4
  PROVE  /\ Digit(b, 1) = b[4] * 1
         /\ Digit(b, 2) = b[3] * 256
         /\ Digit(b, 3) = b[2] * 65536
         /\ Digit(b, 4) = b[1] * 16777216
  BY SMT, Powers DEF Digit

LEMMA Digits3 ==
  ASSUME NEW b, Len(b) = 3
  PROVE  /\ Digit(b, 1) = b[3] * 1
         /\ Digit(b, 2) = b[2] * 256
         /\ Digit(b, 3) = b[1] * 65536
         /\ Digit(b, 4) = 0
  BY SMT, Powers DEF Digit

LEMMA Digits2 ==
  ASSUME NEW b, Len(b) = 2
  PROVE  /\ Digit(b, 1) = b[2] * 1
         /\ Digit(b, 2) = b[1] * 256
         /\ Digit(b, 3) = 0
         /\ Digit(b, 4) = 0
  BY SMT, Powers DEF Digit

LEMMA Digits1 ==
  ASSUME NEW b, Len(b) = 1
  PROVE  /\ Digit(b, 1) = b[1] * 1
         /\ Digit(b, 2) = 0
         /\ Digit(b, 3) = 0
         /\ Digit(b, 4) = 0
  BY SMT, Powers DEF Digit

LEMMA Digits0 ==
  ASSUME NEW b, Len(b) = 0
  PROVE  /\ Digit(b, 1) = 0
         /\ Digit(b, 2) = 0
         /\ Digit(b, 3) = 0
         /\ Digit(b, 4) = 0
  BY SMT, Powers DEF Digit

(* What to_be_bytes returns: n bytes, the most significant first.           *)
LEMMA BigEndianBytes ==
  ASSUME NEW v \in Int, NEW n \in 1 .. 4
  PROVE  /\ BigEndian(v, n) \in Seq(Bytes)
         /\ Len(BigEndian(v, n)) = n
         /\ \A i \in 1 .. n :
              BigEndian(v, n)[i] = (v \div Power256[n - i + 1]) % 256
<1>1. \A i \in 1 .. n : (v \div Power256[n - i + 1]) % 256 \in Bytes
  <2> SUFFICES ASSUME NEW i \in 1 .. n
               PROVE  (v \div Power256[n - i + 1]) % 256 \in Bytes
    OBVIOUS
  <2>1. n - i + 1 \in {1, 2, 3, 4}
    OBVIOUS
  <2>2. Power256[n - i + 1] \in {1, 256, 65536, 16777216}
    BY SMT, <2>1, Powers
  <2>3. v \div Power256[n - i + 1] \in Int
    BY SMT, <2>2
  <2> QED BY SMT, <2>3, Split DEF Bytes
<1>2. BigEndian(v, n) \in [1 .. n -> Bytes]
  BY SMT, <1>1 DEF BigEndian
<1> QED BY SMT, <1>2 DEF BigEndian

(* The back end reads an unsigned number of two bytes as it was written.    *)
LEMMA Unsigned2 ==
  ASSUME NEW v \in Int, 0 <= v, v <= 65535
  PROVE  Unsigned(BigEndian(v, 2)) = v
<1> DEFINE b == BigEndian(v, 2)
<1>1. Len(b) = 2 /\ b[1] = (v \div Power256[2]) % 256 /\ b[2] = (v \div Power256[1]) % 256
  BY SMT, BigEndianBytes
<1>2. b[1] = (v \div 256) % 256 /\ b[2] = v % 256
  BY SMT, <1>1, Powers
<1>3. b[1] \in Int /\ b[2] \in Int /\ (256 * b[1]) + b[2] = v
  BY SMT, <1>2
<1>4. Digit(b, 1) = b[2] /\ Digit(b, 2) = b[1] * 256 /\ Digit(b, 3) = 0 /\ Digit(b, 4) = 0
  BY SMT, <1>1, <1>3, Digits2
<1> QED BY SMT, <1>3, <1>4 DEF Unsigned

(* So it does a length of four bytes.                                       *)
LEMMA Unsigned4 ==
  ASSUME NEW v \in 0 .. MaxInt
  PROVE  Unsigned(BigEndian(v, 4)) = v
<1> DEFINE b == BigEndian(v, 4)
<1>0. v \in Int /\ 0 <= v /\ v <= 2147483647
  BY SMT, IntRange
<1>1. /\ Len(b) = 4
      /\ b[1] = (v \div Power256[4]) % 256
      /\ b[2] = (v \div Power256[3]) % 256
      /\ b[3] = (v \div Power256[2]) % 256
      /\ b[4] = (v \div Power256[1]) % 256
  BY SMT, <1>0, BigEndianBytes
<1>2. /\ b[1] = (v \div 16777216) % 256
      /\ b[2] = (v \div 65536) % 256
      /\ b[3] = (v \div 256) % 256
      /\ b[4] = v % 256
  BY SMT, <1>0, <1>1, Powers
<1>3. v \div 16777216 \in 0 .. 127
  BY SMT, <1>0
<1>4. /\ b[1] = v \div 16777216 /\ b[1] \in Int
      /\ b[2] \in Int /\ b[3] \in Int /\ b[4] \in Int
  BY SMT, <1>0, <1>2, <1>3
<1>5. /\ v = (256 * (v \div 256)) + b[4]
      /\ v \div 256 = (256 * (v \div 65536)) + b[3]
      /\ v \div 65536 = (256 * (v \div 16777216)) + b[2]
  BY SMTT(30), <1>0, <1>2, Split
<1>6. v = (16777216 * b[1]) + (65536 * b[2]) + (256 * b[3]) + b[4]
  BY SMT, <1>0, <1>4, <1>5
<1>7. /\ Digit(b, 1) = b[4] /\ Digit(b, 2) = b[3] * 256
      /\ Digit(b, 3) = b[2] * 65536 /\ Digit(b, 4) = b[1] * 16777216
  BY SMT, <1>1, <1>4, Digits4
<1> QED BY SMT, <1>4, <1>6, <1>7 DEF Unsigned

(* An i32, in two's complement, is read as it was written, and so are the   *)
(* shorter forms of big integers.                                           *)
LEMMA Signed4 ==
  ASSUME NEW v \in Int, -2147483648 <= v, v <= 2147483647
  PROVE  Signed(BigEndian(v, 4)) = v
<1> DEFINE b == BigEndian(v, 4)
<1> DEFINE t == Tail(b)
<1> DEFINE top == IF b[1] >= 128 THEN b[1] - 256 ELSE b[1]
<1>1. b \in Seq(Bytes) /\ Len(b) = 4 /\ b # <<>>
  BY SMT, BigEndianBytes, EmptySeq
<1>2. \A i \in 1 .. 4 : b[i] = (v \div Power256[4 - i + 1]) % 256
  BY SMTT(30), BigEndianBytes
<1>3. /\ b[1] = (v \div 16777216) % 256
      /\ b[2] = (v \div 65536) % 256
      /\ b[3] = (v \div 256) % 256
      /\ b[4] = v % 256
  BY SMT, <1>2, Powers
<1>4. t \in Seq(Bytes) /\ Len(t) = 3 /\ t[1] = b[2] /\ t[2] = b[3] /\ t[3] = b[4]
  BY SMT, <1>1, HeadTailProperties
<1>0. b = BigEndian(v, 4) /\ Signed(b) = (top * Power256[Len(b)]) + Unsigned(t)
  BY DEF Signed
<1> HIDE DEF b, t
<1>5. v \div 16777216 \in Int /\ -128 <= v \div 16777216 /\ v \div 16777216 <= 127
  BY SMT
<1>6. top = v \div 16777216
  BY SMT, <1>3, <1>5
<1>7. b[2] \in Int /\ b[3] \in Int /\ b[4] \in Int
  BY SMT, <1>3, <1>5, Split
<1>8. /\ v = (256 * (v \div 256)) + b[4]
      /\ v \div 256 = (256 * (v \div 65536)) + b[3]
      /\ v \div 65536 = (256 * (v \div 16777216)) + b[2]
  BY SMT, <1>3, Split
<1>9. v = (16777216 * (v \div 16777216)) + (65536 * b[2]) + (256 * b[3]) + b[4]
  BY SMT, <1>5, <1>7, <1>8
<1>10. Unsigned(t) = (65536 * b[2]) + (256 * b[3]) + b[4]
  <2>1. Digit(t, 1) = t[3] * 1 /\ Digit(t, 2) = t[2] * 256 /\ Digit(t, 3) = t[1] * 65536 /\ Digit(t, 4) = 0
    BY SMT, <1>4, Digits3
  <2> QED BY SMTT(30), <2>1, <1>4, <1>7 DEF Unsigned
<1>11. top \in Int /\ Unsigned(t) \in Int
  BY SMT, <1>5, <1>6, <1>7, <1>10
<1> HIDE DEF top
<1>12. Signed(b) = ((v \div 16777216) * 16777216) + Unsigned(t)
  <2>1. Power256[Len(b)] = 16777216
    BY SMT, <1>1, Powers
  <2>2. Signed(b) = (top * 16777216) + Unsigned(t)
    BY SMT, <1>0, <2>1
  <2> QED BY SMT, <1>5, <1>6, <1>11, <2>2
<1> QED BY SMTT(30), <1>0, <1>5, <1>7, <1>9, <1>10, <1>12

LEMMA Signed3 ==
  ASSUME NEW v \in Int, -8388608 <= v, v <= 8388607
  PROVE  Signed(BigEndian(v, 3)) = v
<1> DEFINE b == BigEndian(v, 3)
<1> DEFINE t == Tail(b)
<1> DEFINE top == IF b[1] >= 128 THEN b[1] - 256 ELSE b[1]
<1>1. b \in Seq(Bytes) /\ Len(b) = 3 /\ b # <<>>
  BY SMT, BigEndianBytes, EmptySeq
<1>2. \A i \in 1 .. 3 : b[i] = (v \div Power256[3 - i + 1]) % 256
  BY SMTT(30), BigEndianBytes
<1>3. /\ b[1] = (v \div 65536) % 256
      /\ b[2] = (v \div 256) % 256
      /\ b[3] = v % 256
  BY SMT, <1>2, Powers
<1>4. t \in Seq(Bytes) /\ Len(t) = 2 /\ t[1] = b[2] /\ t[2] = b[3]
  BY SMT, <1>1, HeadTailProperties
<1>0. b = BigEndian(v, 3) /\ Signed(b) = (top * Power256[Len(b)]) + Unsigned(t)
  BY DEF Signed
<1> HIDE DEF b, t
<1>5. v \div 65536 \in Int /\ -128 <= v \div 65536 /\ v \div 65536 <= 127
  BY SMT
<1>6. top = v \div 65536
  BY SMT, <1>3, <1>5
<1>7. b[2] \in Int /\ b[3] \in Int
  BY SMT, <1>3, <1>5, Split
<1>8. /\ v = (256 * (v \div 256)) + b[3]
      /\ v \div 256 = (256 * (v \div 65536)) + b[2]
  BY SMT, <1>3, Split
<1>9. v = (65536 * (v \div 65536)) + (256 * b[2]) + b[3]
  BY SMT, <1>5, <1>7, <1>8
<1>10. Unsigned(t) = (256 * b[2]) + b[3]
  <2>1. Digit(t, 1) = t[2] * 1 /\ Digit(t, 2) = t[1] * 256 /\ Digit(t, 3) = 0 /\ Digit(t, 4) = 0
    BY SMT, <1>4, Digits2
  <2> QED BY SMT, <2>1, <1>4, <1>7 DEF Unsigned
<1>11. top \in Int /\ Unsigned(t) \in Int
  BY SMT, <1>5, <1>6, <1>7, <1>10
<1> HIDE DEF top
<1>12. Signed(b) = ((v \div 65536) * 65536) + Unsigned(t)
  <2>1. Power256[Len(b)] = 65536
    BY SMT, <1>1, Powers
  <2>2. Signed(b) = (top * 65536) + Unsigned(t)
    BY SMT, <1>0, <2>1
  <2> QED BY SMT, <1>5, <1>6, <1>11, <2>2
<1> QED BY SMT, <1>0, <1>5, <1>7, <1>9, <1>10, <1>12

LEMMA Signed2 ==
  ASSUME NEW v \in Int, -32768 <= v, v <= 32767
  PROVE  Signed(BigEndian(v, 2)) = v
<1> DEFINE b == BigEndian(v, 2)
<1> DEFINE t == Tail(b)
<1> DEFINE top == IF b[1] >= 128 THEN b[1] - 256 ELSE b[1]
<1>1. b \in Seq(Bytes) /\ Len(b) = 2 /\ b # <<>>
  BY SMT, BigEndianBytes, EmptySeq
<1>2. \A i \in 1 .. 2 : b[i] = (v \div Power256[2 - i + 1]) % 256
  BY SMTT(30), BigEndianBytes
<1>3. /\ b[1] = (v \div 256) % 256
      /\ b[2] = v % 256
  BY SMT, <1>2, Powers
<1>4. t \in Seq(Bytes) /\ Len(t) = 1 /\ t[1] = b[2]
  BY SMT, <1>1, HeadTailProperties
<1>0. b = BigEndian(v, 2) /\ Signed(b) = (top * Power256[Len(b)]) + Unsigned(t)
  BY DEF Signed
<1> HIDE DEF b, t
<1>5. v \div 256 \in Int /\ -128 <= v \div 256 /\ v \div 256 <= 127
  BY SMT
<1>6. top = v \div 256
  BY SMT, <1>3, <1>5
<1>7. b[2] \in Int
  BY SMT, <1>3, <1>5, Split
<1>8. /\ v = (256 * (v \div 256)) + b[2]
  BY SMT, <1>3, Split
<1>9. v = (256 * (v \div 256)) + b[2]
  BY SMT, <1>5, <1>7, <1>8
<1>10. Unsigned(t) = b[2]
  <2>1. Digit(t, 1) = t[1] * 1 /\ Digit(t, 2) = 0 /\ Digit(t, 3) = 0 /\ Digit(t, 4) = 0
    BY SMT, <1>4, Digits1
  <2> QED BY SMT, <2>1, <1>4, <1>7 DEF Unsigned
<1>11. top \in Int /\ Unsigned(t) \in Int
  BY SMT, <1>5, <1>6, <1>7, <1>10
<1> HIDE DEF top
<1>12. Signed(b) = ((v \div 256) * 256) + Unsigned(t)
  <2>1. Power256[Len(b)] = 256
    BY SMT, <1>1, Powers
  <2>2. Signed(b) = (top * 256) + Unsigned(t)
    BY SMT, <1>0, <2>1
  <2> QED BY SMT, <1>5, <1>6, <1>11, <2>2
<1> QED BY SMT, <1>0, <1>5, <1>7, <1>9, <1>10, <1>12

LEMMA Signed1 ==
  ASSUME NEW v \in Int, -128 <= v, v <= 127
  PROVE  Signed(BigEndian(v, 1)) = v
<1> DEFINE b == BigEndian(v, 1)
<1> DEFINE t == Tail(b)
<1> DEFINE top == IF b[1] >= 128 THEN b[1] - 256 ELSE b[1]
<1>1. b \in Seq(Bytes) /\ Len(b) = 1 /\ b # <<>>
  BY SMT, BigEndianBytes, EmptySeq
<1>2. \A i \in 1 .. 1 : b[i] = (v \div Power256[1 - i + 1]) % 256
  BY SMT, BigEndianBytes
<1>3. /\ b[1] = v % 256
  BY SMT, <1>2, Powers
<1>4. t \in Seq(Bytes) /\ Len(t) = 0
  BY SMT, <1>1, HeadTailProperties
<1>0. b = BigEndian(v, 1) /\ Signed(b) = (top * Power256[Len(b)]) + Unsigned(t)
  BY DEF Signed
<1> HIDE DEF b, t
<1>5. v \in Int /\ -128 <= v /\ v <= 127
  BY SMT
<1>6. top = v
  BY SMT, <1>3, <1>5
<1>10. Unsigned(t) = 0
  BY SMT, <1>4, Digits0 DEF Unsigned
<1>11. top \in Int /\ Unsigned(t) \in Int
  BY SMT, <1>5, <1>6, <1>10
<1> HIDE DEF top
<1>12. Signed(b) = (v * 1) + Unsigned(t)
  <2>1. Power256[Len(b)] = 1
    BY SMT, <1>1, Powers
  <2>2. Signed(b) = (top * 1) + Unsigned(t)
    BY SMT, <1>0, <2>1
  <2> QED BY SMT, <1>5, <1>6, <1>11, <2>2
<1> QED BY SMT, <1>0, <1>10, <1>12

(* to_signed_bytes_be keeps a big integer of up to three bytes.             *)
LEMMA SignedBytesRead ==
  ASSUME NEW v \in Int, -8388608 <= v, v <= 8388607
  PROVE  /\ SignedBytes(v) \in Seq(Bytes)
         /\ Len(SignedBytes(v)) \in 1 .. 3
         /\ Signed(SignedBytes(v)) = v
<1> DEFINE fits(n) == -(128 * Power256[n]) <= v /\ v < 128 * Power256[n]
<1> DEFINE shortest(k) == fits(k) /\ \A j \in 1 .. (k - 1) : ~fits(j)
<1> DEFINE n == CHOOSE k \in 1 .. 3 : shortest(k)
<1>1. /\ fits(1) <=> -128 <= v /\ v <= 127
      /\ fits(2) <=> -32768 <= v /\ v <= 32767
      /\ fits(3)
  BY SMT, Powers
<1>2. \E k \in 1 .. 3 : shortest(k)
  <2> HIDE DEF fits
  <2>1. CASE fits(1)
    <3>1. \A j \in 1 .. (1 - 1) : ~fits(j)
      BY SMT
    <3> QED BY <2>1, <3>1, 1 \in 1 .. 3
  <2>2. CASE ~fits(1) /\ fits(2)
    <3>1. \A j \in 1 .. (2 - 1) : j = 1
      BY SMT
    <3> QED BY <2>2, <3>1, 2 \in 1 .. 3
  <2>3. CASE ~fits(1) /\ ~fits(2)
    <3>1. \A j \in 1 .. (3 - 1) : j = 1 \/ j = 2
      BY SMT
    <3> QED BY <2>3, <3>1, <1>1, 3 \in 1 .. 3
  <2> QED BY <2>1, <2>2, <2>3
<1>3. n \in 1 .. 3 /\ fits(n)
  <2> HIDE DEF fits
  <2>1. n \in 1 .. 3 /\ shortest(n)
    BY <1>2
  <2> QED BY <2>1
<1>4. SignedBytes(v) = BigEndian(v, n)
  BY DEF SignedBytes
<1> HIDE DEF n
<1>5. Signed(BigEndian(v, n)) = v
  <2>1. CASE n = 1
    <3>1. -128 <= v /\ v <= 127
      <4> HIDE DEF fits
      <4>1. fits(1)
        BY <1>3, <2>1
      <4> QED BY <4>1, <1>1
    <3> QED BY SMT, <2>1, <3>1, Signed1
  <2>2. CASE n = 2
    <3>1. -32768 <= v /\ v <= 32767
      <4> HIDE DEF fits
      <4>1. fits(2)
        BY <1>3, <2>2
      <4> QED BY <4>1, <1>1
    <3> QED BY SMT, <2>2, <3>1, Signed2
  <2>3. CASE n = 3
    BY SMT, <2>3, Signed3
  <2> HIDE DEF fits
  <2> QED BY SMT, <1>3, <2>1, <2>2, <2>3
<1>6. n \in 1 .. 4
  <2> HIDE DEF fits
  <2> QED BY SMT, <1>3
<1> HIDE DEF fits
<1> QED BY SMTT(30), <1>3, <1>4, <1>5, <1>6, BigEndianBytes

-----------------------------------------------------------------------------
(* Sequences.                                                               *)

(* A sequence put before another is found there again.                      *)
LEMMA PutBefore ==
  ASSUME NEW S, NEW a \in Seq(S), NEW c \in Seq(S)
  PROVE  /\ SubSeq(a \o c, 1, Len(a)) = a
         /\ SubSeq(a \o c, Len(a) + 1, Len(a \o c)) = c
<1>1. /\ a \o c \in Seq(S) /\ Len(a \o c) = Len(a) + Len(c)
      /\ \A i \in 1 .. Len(a) + Len(c) :
           (a \o c)[i] = IF i <= Len(a) THEN a[i] ELSE c[i - Len(a)]
  BY ConcatProperties
<1>2. Len(a) \in Nat /\ Len(c) \in Nat
  BY LenProperties
<1>3. SubSeq(a \o c, 1, Len(a)) = a
  <2> DEFINE s == SubSeq(a \o c, 1, Len(a))
  <2>1. \A i \in 1 .. Len(a) : (a \o c)[i] \in S
    BY <1>1, <1>2, ElementOfSeq
  <2>2. /\ s \in Seq(S) /\ Len(s) = Len(a)
        /\ \A i \in 1 .. Len(a) : s[i] = (a \o c)[1 + i - 1]
    <3>1. /\ s \in Seq(S) /\ Len(s) = IF 1 <= Len(a) THEN Len(a) - 1 + 1 ELSE 0
          /\ \A i \in 1 .. Len(a) - 1 + 1 : s[i] = (a \o c)[1 + i - 1]
      BY <2>1, <1>2, SubSeqProperties
    <3> HIDE DEF s
    <3> QED BY <3>1, <1>2
  <2> HIDE DEF s
  <2>3. \A i \in 1 .. Len(s) : s[i] = a[i]
    BY <1>1, <1>2, <2>2
  <2>4. s = a
    BY <2>2, <2>3, SeqEqual
  <2> QED BY <2>4 DEF s
<1>4. SubSeq(a \o c, Len(a) + 1, Len(a \o c)) = c
  <2> DEFINE s == SubSeq(a \o c, Len(a) + 1, Len(a) + Len(c))
  <2>1. \A i \in Len(a) + 1 .. Len(a) + Len(c) : (a \o c)[i] \in S
    <3> SUFFICES ASSUME NEW i \in Len(a) + 1 .. Len(a) + Len(c)
                 PROVE  (a \o c)[i] \in S
      OBVIOUS
    <3>1. i \in 1 .. Len(a \o c)
      BY <1>1, <1>2
    <3> QED BY <3>1, <1>1, ElementOfSeq
  <2>2. /\ s \in Seq(S) /\ Len(s) = Len(c)
        /\ \A i \in 1 .. Len(c) : s[i] = (a \o c)[Len(a) + 1 + i - 1]
    <3>1. /\ s \in Seq(S)
          /\ Len(s) = IF Len(a) + 1 <= Len(a) + Len(c)
                        THEN Len(a) + Len(c) - (Len(a) + 1) + 1 ELSE 0
          /\ \A i \in 1 .. Len(a) + Len(c) - (Len(a) + 1) + 1 :
               s[i] = (a \o c)[Len(a) + 1 + i - 1]
      BY <2>1, <1>2, SubSeqProperties
    <3> HIDE DEF s
    <3> QED BY <3>1, <1>2
  <2> HIDE DEF s
  <2>3. \A i \in 1 .. Len(s) : s[i] = c[i]
    <3> SUFFICES ASSUME NEW i \in 1 .. Len(c) PROVE s[i] = c[i]
      BY <2>2
    <3>1. Len(a) + 1 + i - 1 = Len(a) + i
      BY <1>2
    <3>2. s[i] = (a \o c)[Len(a) + i]
      BY <2>2, <3>1
    <3>3. Len(a) + i \in 1 .. Len(a) + Len(c) /\ ~(Len(a) + i <= Len(a))
      BY <1>2
    <3>4. Len(a) + i - Len(a) = i
      BY <1>2
    <3> QED BY <1>1, <3>2, <3>3, <3>4
  <2>4. s = c
    BY <2>2, <2>3, SeqEqual
  <2> QED BY <2>4, <1>1 DEF s
<1> QED BY <1>3, <1>4

(* So is one put between two.                                               *)
LEMMA PutBetween ==
  ASSUME NEW S, NEW a \in Seq(S), NEW b \in Seq(S), NEW c \in Seq(S)
  PROVE  SubSeq(a \o b \o c, Len(a) + 1, Len(a) + Len(b)) = b
<1>1. /\ a \o b \in Seq(S) /\ Len(a \o b) = Len(a) + Len(b)
      /\ \A i \in 1 .. Len(a) + Len(b) :
           (a \o b)[i] = IF i <= Len(a) THEN a[i] ELSE b[i - Len(a)]
  BY ConcatProperties
<1>2. /\ a \o b \o c \in Seq(S)
      /\ Len(a \o b \o c) = Len(a) + Len(b) + Len(c)
      /\ \A i \in 1 .. Len(a) + Len(b) + Len(c) :
           (a \o b \o c)[i] =
             IF i <= Len(a) + Len(b) THEN (a \o b)[i] ELSE c[i - (Len(a) + Len(b))]
  BY <1>1, ConcatProperties
<1>3. Len(a) \in Nat /\ Len(b) \in Nat /\ Len(c) \in Nat
  BY LenProperties
<1> DEFINE w == a \o b \o c
<1> DEFINE s == SubSeq(w, Len(a) + 1, Len(a) + Len(b))
<1>4. \A i \in Len(a) + 1 .. Len(a) + Len(b) : w[i] \in S
  <2> SUFFICES ASSUME NEW i \in Len(a) + 1 .. Len(a) + Len(b)
               PROVE  w[i] \in S
    OBVIOUS
  <2>1. i \in 1 .. Len(w)
    BY <1>2, <1>3
  <2> QED BY <2>1, <1>2, ElementOfSeq
<1>5. /\ s \in Seq(S)
      /\ Len(s) = IF Len(a) + 1 <= Len(a) + Len(b)
                    THEN Len(a) + Len(b) - (Len(a) + 1) + 1 ELSE 0
      /\ \A i \in 1 .. Len(a) + Len(b) - (Len(a) + 1) + 1 :
           s[i] = w[Len(a) + 1 + i - 1]
  <2> HIDE DEF w
  <2> QED BY <1>4, <1>3, SubSeqProperties
<1> HIDE DEF s
<1>6. Len(s) = Len(b) /\ \A i \in 1 .. Len(b) : s[i] = w[Len(a) + i]
  <2> HIDE DEF w
  <2> QED BY <1>5, <1>3
<1>7. \A i \in 1 .. Len(b) : w[Len(a) + i] = b[i]
  BY <1>1, <1>2, <1>3
<1>8. s = b
  <2> HIDE DEF w
  <2> QED BY <1>5, <1>6, <1>7, SeqEqual
<1> QED BY <1>8 DEF s

LEMMA Associative ==
  \A x, y, z \in Seq(Nat) : (x \o y) \o z = x \o (y \o z)
  BY SMTT(30), ConcatAssociative

-----------------------------------------------------------------------------
(* Primitives.                                                              *)

(* The values of a type.                                                    *)
Values(type) ==
  CASE type = "Boolean" -> Booleans
    [] type = "Char" -> Chars
    [] type = "Int" -> Ints
    [] type = "String" -> Strings
    [] type = "BigInt" -> BigInts

(* Bytes are natural numbers.                                               *)
LEMMA BytesNat == \A s \in Seq(Bytes) : s \in Seq(Nat)
<1>1. \A i : i \in Bytes => i \in Nat
  BY SMT DEF Bytes
<1>2. Bytes \subseteq Nat
  BY <1>1
<1> QED BY <1>2, SeqMonotonic

(* An i32 as it is written in four bytes.                                   *)
LEMMA IntValues ==
  ASSUME NEW i \in Ints
  PROVE  /\ i = <<i[1]>> /\ i[1] \in Int
         /\ BigEndian(i[1], 4) \in Seq(Nat) /\ Len(BigEndian(i[1], 4)) = 4
         /\ Signed(BigEndian(i[1], 4)) = i[1]
<1>1. i = <<i[1]>>
  BY SMT, ValuesAssumption
<1>2. i[1] \in Int /\ -MaxInt - 1 <= i[1] /\ i[1] <= MaxInt
  BY SMT, ValuesAssumption
<1>3. -2147483648 <= i[1] /\ i[1] <= 2147483647
  <2> DEFINE v == i[1]
  <2>1. v \in Int /\ -MaxInt - 1 <= v /\ v <= MaxInt
    BY <1>2
  <2> HIDE DEF v
  <2>2. -2147483648 <= v
    BY SMT, <2>1 DEF MaxInt
  <2>3. v <= 2147483647
    BY SMT, <2>1 DEF MaxInt
  <2> QED BY SMT, <2>2, <2>3 DEF v
<1>4. Signed(BigEndian(i[1], 4)) = i[1]
  BY SMT, <1>2, <1>3, Signed4
<1>5. BigEndian(i[1], 4) \in Seq(Bytes) /\ Len(BigEndian(i[1], 4)) = 4
  BY SMTT(30), <1>2, BigEndianBytes
<1> QED BY <1>1, <1>2, <1>4, <1>5, BytesNat

(* A length written as an Int.                                              *)
LEMMA LengthRead ==
  ASSUME NEW n \in 0 .. MaxInt
  PROVE  /\ BigEndian(n, 4) \in Seq(Nat) /\ Len(BigEndian(n, 4)) = 4
         /\ Signed(BigEndian(n, 4)) = n
         /\ Unsigned(BigEndian(n, 4)) = n
<1>1. n \in Int /\ 0 <= n /\ n <= 2147483647
  BY IntRange
<1>2. n \in Int /\ -2147483648 <= n /\ n <= 2147483647
  BY SMT, <1>1
<1>3. Signed(BigEndian(n, 4)) = n
  BY SMT, <1>2, Signed4
<1>4. BigEndian(n, 4) \in Seq(Bytes) /\ Len(BigEndian(n, 4)) = 4
  BY SMT, <1>1, BigEndianBytes
<1> QED BY <1>3, <1>4, BytesNat, Unsigned4

(* What follows the id of a primitive is found behind it.                   *)
LEMMA PayloadPlace ==
  ASSUME NEW id \in Nat, NEW p \in Seq(Nat), NEW rest \in Seq(Nat)
  PROVE  SubSeq(<<PRIMITIVE, id>> \o p \o rest, 3, 2 + Len(p)) = p
<1> DEFINE a == <<PRIMITIVE, id>>
<1>1. a \in Seq(Nat) /\ Len(a) = 2
  BY DEF PRIMITIVE
<1>2. SubSeq(a \o p \o rest, Len(a) + 1, Len(a) + Len(p)) = p
  <2> HIDE DEF a
  <2> QED BY <1>1, PutBetween
<1> QED BY <1>1, <1>2

(* A number of bytes written as a length and the bytes.                     *)
LEMMA CountedBytes ==
  ASSUME NEW id \in Nat, NEW s \in Seq(Nat), Len(s) <= MaxInt,
         NEW rest \in Seq(Nat)
  PROVE  /\ BigEndian(Len(s), 4) \o s \in Seq(Nat)
         /\ Len(BigEndian(Len(s), 4) \o s) = 4 + Len(s)
         /\ SubSeq(BigEndian(Len(s), 4) \o s, 5, Len(BigEndian(Len(s), 4) \o s)) = s
         /\ Unsigned(SubSeq(<<PRIMITIVE, id>> \o (BigEndian(Len(s), 4) \o s) \o rest,
                            3, 6)) = Len(s)
<1>1. Len(s) \in 0 .. MaxInt
  BY LenProperties, MaxIntNat
<1>2. /\ BigEndian(Len(s), 4) \in Seq(Nat) /\ Len(BigEndian(Len(s), 4)) = 4
      /\ Unsigned(BigEndian(Len(s), 4)) = Len(s)
  BY <1>1, LengthRead
<1>3. <<PRIMITIVE, id>> \in Seq(Nat) /\ Len(<<PRIMITIVE, id>>) = 2
  BY DEF PRIMITIVE
<1> DEFINE b == BigEndian(Len(s), 4)
<1> DEFINE a == <<PRIMITIVE, id>>
<1>4. b \in Seq(Nat) /\ a \in Seq(Nat) /\ Len(b) = 4 /\ Len(a) = 2
  BY <1>2, <1>3
<1>5. /\ b \o s \in Seq(Nat)
      /\ Len(b \o s) = 4 + Len(s)
      /\ SubSeq(b \o s, 5, Len(b \o s)) = s
      /\ SubSeq(a \o (b \o s) \o rest, 3, 6) = b
  <2> HIDE DEF a, b
  <2>0. a \in Seq(Nat) /\ b \in Seq(Nat)
    BY <1>4
  <2>1. b \o s \in Seq(Nat) /\ Len(b \o s) = Len(b) + Len(s)
    BY <2>0, ConcatProperties
  <2>2. s \o rest \in Seq(Nat)
    BY ConcatProperties
  <2>3. SubSeq(b \o s, Len(b) + 1, Len(b \o s)) = s
    BY <2>0, PutBefore
  <2>4. a \o (b \o s) \o rest = a \o ((b \o s) \o rest)
    BY ZenonT(30), <2>0, <2>1, Associative
  <2>5. (b \o s) \o rest = b \o (s \o rest)
    BY Zenon, <2>0, Associative
  <2>6. a \o b \o (s \o rest) = a \o (b \o (s \o rest))
    BY ZenonT(30), <2>0, <2>2, Associative
  <2>7. a \o (b \o s) \o rest = a \o b \o (s \o rest)
    BY Zenon, <2>4, <2>5, <2>6
  <2>8. SubSeq(a \o b \o (s \o rest), Len(a) + 1, Len(a) + Len(b)) = b
    BY <2>0, <2>2, PutBetween
  <2>9. Len(a) + 1 = 3 /\ Len(a) + Len(b) = 6 /\ Len(b) + 1 = 5
    BY <1>4
  <2>10. SubSeq(a \o (b \o s) \o rest, 3, 6) = b
    BY Zenon, <2>7, <2>8, <2>9
  <2>11. SubSeq(b \o s, 5, Len(b \o s)) = s
    BY Zenon, <2>3, <2>9
  <2> QED BY <1>4, <2>1, <2>10, <2>11
<1> QED BY Zenon, <1>2, <1>5

(* What the back end reads of a primitive is what was written: it knows how *)
(* many bytes there are and gets the value back.                            *)
LEMMA PrimitiveRead ==
  ASSUME NEW type \in Primitives, NEW value \in Values(type),
         NEW rest \in Seq(Nat), wire = PrimitiveBytes(type, value) \o rest
  PROVE  /\ Payload(type, value) \in Seq(Nat)
         /\ PrimitiveId[type] \in Nat
         /\ PayloadSize(type) = Len(Payload(type, value))
         /\ SubSeq(wire, 3, 2 + PayloadSize(type)) = Payload(type, value)
         /\ Decoded(type, Payload(type, value)) = value
<1> DEFINE p == Payload(type, value)
<1> DEFINE id == PrimitiveId[type]
<1>0. id \in Nat
  BY DEF Primitives, PrimitiveId
<1>1. wire = <<PRIMITIVE, id>> \o p \o rest
  BY DEF PrimitiveBytes
<1> SUFFICES /\ p \in Seq(Nat)
             /\ PayloadSize(type) = Len(p)
             /\ Decoded(type, p) = value
  <2> HIDE DEF p, id
  <2>1. SubSeq(wire, 3, 2 + Len(p)) = p
    BY <1>0, <1>1, PayloadPlace
  <2> QED BY <2>1, <1>0 DEF p, id
<1>2. CASE type = "Boolean"
  <2>1. value \in Booleans /\ p = value
    BY <1>2 DEF Values, Payload
  <2>2. value = <<0>> \/ value = <<1>>
    BY SMT, <2>1, ValuesAssumption
  <2>3. value \in Seq(Nat) /\ Len(value) = 1
    <3>1. <<0>> \in Seq(Nat) /\ Len(<<0>>) = 1
      OBVIOUS
    <3>2. <<1>> \in Seq(Nat) /\ Len(<<1>>) = 1
      OBVIOUS
    <3> QED BY <2>2, <3>1, <3>2
  <2> QED BY <1>2, <2>1, <2>3 DEF PayloadSize, Decoded
<1>3. CASE type = "Char"
  <2>1. value \in Chars /\ p = BigEndian(value[1], 2)
    BY <1>3 DEF Values, Payload
  <2>2. value = <<value[1]>>
    BY SMT, <2>1, ValuesAssumption
  <2>3. value[1] \in Int /\ 0 <= value[1] /\ value[1] <= 65535
    BY SMT, <2>1, ValuesAssumption
  <2>4. p \in Seq(Bytes) /\ Len(p) = 2
    BY SMTT(30), <2>1, <2>3, BigEndianBytes
  <2>5. Unsigned(p) = value[1]
    BY SMT, <2>1, <2>3, Unsigned2
  <2>6. Decoded(type, p) = <<Unsigned(p)>> /\ PayloadSize(type) = 2
    <3> HIDE DEF p
    <3> QED BY <1>3 DEF Decoded, PayloadSize
  <2> HIDE DEF p
  <2> QED BY <2>2, <2>4, <2>5, <2>6, BytesNat
<1>4. CASE type = "Int"
  <2>1. value \in Ints /\ p = BigEndian(value[1], 4)
    BY <1>4 DEF Values, Payload
  <2>2. Decoded(type, p) = <<Signed(p)>> /\ PayloadSize(type) = 4
    <3> HIDE DEF p
    <3> QED BY <1>4 DEF Decoded, PayloadSize
  <2> HIDE DEF p
  <2> QED BY <2>1, <2>2, IntValues
<1>5. CASE type = "String"
  <2>1. value \in Strings /\ p = BigEndian(Len(value), 4) \o value
    BY <1>5 DEF Values, Payload
  <2>2. value \in Seq(Nat) /\ Len(value) <= MaxInt
    BY SMT, <2>1, ValuesAssumption, BytesNat
  <2>3. /\ Decoded(type, p) = SubSeq(p, 5, Len(p))
        /\ PayloadSize(type) = 4 + Unsigned(SubSeq(wire, 3, 6))
    <3> HIDE DEF p
    <3> QED BY <1>5 DEF Decoded, PayloadSize
  <2>4. /\ p \in Seq(Nat)
        /\ Len(p) = 4 + Len(value)
        /\ SubSeq(p, 5, Len(p)) = value
        /\ Unsigned(SubSeq(<<PRIMITIVE, id>> \o p \o rest, 3, 6)) = Len(value)
    <3> HIDE DEF p, id
    <3> QED BY Zenon, <1>0, <2>1, <2>2, CountedBytes
  <2> HIDE DEF p, id
  <2> QED BY <1>1, <2>3, <2>4
<1>6. CASE type = "BigInt"
  <2> DEFINE s == SignedBytes(value[1])
  <2>1. value \in BigInts /\ p = BigEndian(Len(s), 4) \o s
    BY <1>6 DEF Values, Payload
  <2>2. value = <<value[1]>>
    BY SMT, <2>1, ValuesAssumption
  <2>3. value[1] \in Int /\ -8388608 <= value[1] /\ value[1] <= 8388607
    BY SMT, <2>1, ValuesAssumption
  <2>4. s \in Seq(Bytes) /\ Len(s) \in 1 .. 3 /\ Signed(s) = value[1]
    BY <2>3, SignedBytesRead
  <2>5. /\ Decoded(type, p) = <<Signed(SubSeq(p, 5, Len(p)))>>
        /\ PayloadSize(type) = 4 + Unsigned(SubSeq(wire, 3, 6))
    <3> HIDE DEF p
    <3> QED BY <1>6 DEF Decoded, PayloadSize
  <2> HIDE DEF p, id, s
  <2>6. Len(s) <= MaxInt
    <3>1. \A l \in 1 .. 3 : l \in Int /\ l <= 3
      OBVIOUS
    <3>2. \A l \in Int : l <= 3 => l <= MaxInt
      BY SMT DEF MaxInt
    <3> QED BY <2>4, <3>1, <3>2
  <2>7. s \in Seq(Nat)
    BY <2>4, BytesNat
  <2>8. /\ p \in Seq(Nat)
        /\ Len(p) = 4 + Len(s)
        /\ SubSeq(p, 5, Len(p)) = s
        /\ Unsigned(SubSeq(<<PRIMITIVE, id>> \o p \o rest, 3, 6)) = Len(s)
    BY Zenon, <1>0, <2>1, <2>6, <2>7, CountedBytes
  <2> QED BY <1>1, <2>2, <2>4, <2>5, <2>8
<1> QED BY <1>2, <1>3, <1>4, <1>5, <1>6 DEF Primitives

-----------------------------------------------------------------------------
(* Stacks.                                                                  *)

(* What is to be written or read, with some fuel; the reader has none.      *)
TasksOf(fuels) == [kind : Kinds \cup {Contents}, count : Nat, fuel : fuels]
Stack == Seq(TasksOf(Nat))
Plain == Seq(TasksOf({0}))

(* What Pop leaves, task by task.                                           *)
LEMMA PopTasks ==
  ASSUME NEW F, NEW s \in Seq(TasksOf(F)), s # <<>>
  PROVE  /\ Head(s) = s[1] /\ s[1] \in TasksOf(F) /\ Len(s) \in Nat /\ Len(s) >= 1
         /\ Pop(s) \in Seq(TasksOf(F))
         /\ s[1].count > 1 =>
              /\ Len(Pop(s)) = Len(s)
              /\ Pop(s)[1] = Task(s[1].kind, s[1].count - 1, s[1].fuel)
              /\ \A i \in 2 .. Len(s) : Pop(s)[i] = s[i]
         /\ ~(s[1].count > 1) =>
              /\ Len(Pop(s)) = Len(s) - 1
              /\ \A i \in 1 .. Len(s) - 1 : Pop(s)[i] = s[i + 1]
<1> DEFINE T == TasksOf(F)
<1> DEFINE t == Tail(s)
<1>1. Len(s) \in Nat /\ Len(s) >= 1
  BY EmptySeq, LenProperties
<1>2. Head(s) = s[1] /\ s[1] \in T
  <2>1. Head(s) = s[1]
    OBVIOUS
  <2>2. s[1] \in T
    <3> HIDE DEF T
    <3>1. s \in Seq(T)
      BY DEF T
    <3> QED BY <3>1, <1>1, ElementOfSeq
  <2> QED BY <2>1, <2>2
<1>3. /\ t \in Seq(T) /\ Len(t) = Len(s) - 1
      /\ \A i \in 1 .. Len(t) : t[i] = s[i + 1]
  <2> HIDE DEF T
  <2>1. s \in Seq(T)
    BY DEF T
  <2> QED BY <2>1, HeadTailProperties
<1>4. CASE s[1].count > 1
  <2> DEFINE h == Task(s[1].kind, s[1].count - 1, s[1].fuel)
  <2>1. s[1] = [kind |-> s[1].kind, count |-> s[1].count, fuel |-> s[1].fuel]
    BY <1>2 DEF TasksOf
  <2>2. [s[1] EXCEPT !.count = @ - 1] = h
    BY <2>1 DEF Task
  <2>3. h \in T
    <3>1. s[1].count \in Nat /\ s[1].kind \in Kinds \cup {Contents} /\ s[1].fuel \in F
      BY <1>2 DEF TasksOf
    <3>2. s[1].count - 1 \in Nat
      BY <3>1, <1>4
    <3> QED BY <3>1, <3>2 DEF TasksOf, Task
  <2>4. Pop(s) = <<h>> \o t
    <3>1. Pop(s) = <<[Head(s) EXCEPT !.count = @ - 1]>> \o Tail(s)
      BY <1>2, <1>4 DEF Pop
    <3> QED BY <3>1, <2>2, <1>2
  <2> HIDE DEF h, t, T
  <2>5. <<h>> \in Seq(T) /\ Len(<<h>>) = 1 /\ <<h>>[1] = h
    BY <2>3
  <2>6. /\ <<h>> \o t \in Seq(T)
        /\ Len(<<h>> \o t) = Len(<<h>>) + Len(t)
        /\ \A i \in 1 .. Len(<<h>>) + Len(t) :
             (<<h>> \o t)[i] = IF i <= Len(<<h>>) THEN <<h>>[i] ELSE t[i - Len(<<h>>)]
    BY <1>3, <2>5, ConcatProperties
  <2>7. Pop(s) \in Seq(T) /\ Len(Pop(s)) = Len(s)
    BY <2>4, <2>5, <2>6, <1>1, <1>3
  <2>8. Pop(s)[1] = h
    BY <2>4, <2>5, <2>6, <1>1, <1>3
  <2>9. \A i \in 2 .. Len(s) : Pop(s)[i] = s[i]
    <3> SUFFICES ASSUME NEW i \in 2 .. Len(s) PROVE Pop(s)[i] = s[i]
      OBVIOUS
    <3>1. i - 1 \in 1 .. Len(t) /\ i \in 1 .. 1 + Len(t) /\ ~(i <= 1) /\ i - 1 + 1 = i
      BY <1>1, <1>3
    <3>2. (<<h>> \o t)[i] = t[i - 1]
      BY <2>5, <2>6, <3>1
    <3>3. t[i - 1] = s[i]
      BY <1>3, <3>1
    <3> QED BY <2>4, <3>2, <3>3
  <2> QED BY <1>1, <1>2, <1>4, <2>7, <2>8, <2>9 DEF h, T
<1>5. CASE ~(s[1].count > 1)
  <2>1. Pop(s) = t
    BY <1>2, <1>5 DEF Pop
  <2> QED BY <1>1, <1>2, <1>3, <1>5, <2>1
<1> QED BY <1>4, <1>5

(* Pending, task by task.                                                   *)
LEMMA PendingTasks ==
  ASSUME NEW s \in Stack
  PROVE  /\ Pending(s) \in Plain
         /\ Len(Pending(s)) = Len(s)
         /\ \A i \in 1 .. Len(s) :
              Pending(s)[i] = Task(s[i].kind, s[i].count, 0)
<1>1. Len(s) \in Nat /\ DOMAIN s = 1 .. Len(s)
  BY LenProperties DEF Stack
<1>2. \A i \in 1 .. Len(s) : s[i] \in TasksOf(Nat)
  BY ElementOfSeq DEF Stack
<1>3. \A i \in 1 .. Len(s) : Task(s[i].kind, s[i].count, 0) \in TasksOf({0})
  BY <1>2 DEF Task, TasksOf
<1>4. Pending(s) = [i \in 1 .. Len(s) |-> Task(s[i].kind, s[i].count, 0)]
  BY <1>1 DEF Pending
<1>5. Pending(s) \in [1 .. Len(s) -> TasksOf({0})]
  BY <1>3, <1>4
<1>6. Pending(s) \in Seq(TasksOf({0})) /\ Len(Pending(s)) = Len(s)
  BY <1>1, <1>5
<1> QED BY <1>4, <1>6 DEF Plain

(* The reader's tasks have no fuel, so they are pending as they are.        *)
LEMMA PlainPending ==
  ASSUME NEW s \in Plain
  PROVE  s \in Stack /\ Pending(s) = s
<1>1. TasksOf({0}) \subseteq TasksOf(Nat)
  BY DEF TasksOf
<1>2. s \in Stack
  BY <1>1, SeqMonotonic DEF Plain, Stack
<1>3. \A i \in 1 .. Len(s) : s[i] \in TasksOf({0})
  BY ElementOfSeq DEF Plain
<1>4. \A i \in 1 .. Len(s) : s[i] = Task(s[i].kind, s[i].count, 0)
  BY <1>3 DEF TasksOf, Task
<1>5. Pending(s) \in Plain /\ Len(Pending(s)) = Len(s)
      /\ \A i \in 1 .. Len(s) : Pending(s)[i] = s[i]
  BY <1>2, <1>4, PendingTasks
<1>6. Pending(s) = s
  BY <1>5, SeqEqual DEF Plain
<1> QED BY <1>2, <1>6

(* Two stacks one above the other.                                          *)
LEMMA PendingConcat ==
  ASSUME NEW s \in Stack, NEW t \in Stack
  PROVE  s \o t \in Stack /\ Pending(s \o t) = Pending(s) \o Pending(t)
<1>1. /\ s \o t \in Stack /\ Len(s \o t) = Len(s) + Len(t)
      /\ \A i \in 1 .. Len(s) + Len(t) :
           (s \o t)[i] = IF i <= Len(s) THEN s[i] ELSE t[i - Len(s)]
  BY ConcatProperties DEF Stack
<1>2. Len(s) \in Nat /\ Len(t) \in Nat
  BY LenProperties DEF Stack
<1>3. /\ Pending(s) \in Plain /\ Len(Pending(s)) = Len(s)
      /\ \A i \in 1 .. Len(s) : Pending(s)[i] = Task(s[i].kind, s[i].count, 0)
  BY PendingTasks
<1>4. /\ Pending(t) \in Plain /\ Len(Pending(t)) = Len(t)
      /\ \A i \in 1 .. Len(t) : Pending(t)[i] = Task(t[i].kind, t[i].count, 0)
  BY PendingTasks
<1> DEFINE a == Pending(s) \o Pending(t)
<1>5. /\ a \in Plain /\ Len(a) = Len(s) + Len(t)
      /\ \A i \in 1 .. Len(s) + Len(t) :
           a[i] = IF i <= Len(s) THEN Pending(s)[i] ELSE Pending(t)[i - Len(s)]
  <2>1. Pending(s) \in Plain /\ Pending(t) \in Plain
    BY <1>3, <1>4
  <2>2. \A x, y \in Plain :
          /\ x \o y \in Plain /\ Len(x \o y) = Len(x) + Len(y)
          /\ \A i \in 1 .. Len(x) + Len(y) :
               (x \o y)[i] = IF i <= Len(x) THEN x[i] ELSE y[i - Len(x)]
    BY ConcatProperties DEF Plain
  <2>3. /\ a \in Plain /\ Len(a) = Len(Pending(s)) + Len(Pending(t))
        /\ \A i \in 1 .. Len(Pending(s)) + Len(Pending(t)) :
             a[i] = IF i <= Len(Pending(s)) THEN Pending(s)[i]
                    ELSE Pending(t)[i - Len(Pending(s))]
    BY Zenon, <2>1, <2>2
  <2> HIDE DEF a
  <2> QED BY <1>3, <1>4, <2>3
<1>6. /\ Pending(s \o t) \in Plain /\ Len(Pending(s \o t)) = Len(s) + Len(t)
      /\ \A i \in 1 .. Len(s) + Len(t) :
           Pending(s \o t)[i] = Task((s \o t)[i].kind, (s \o t)[i].count, 0)
  BY <1>1, PendingTasks
<1> HIDE DEF a
<1>7. \A i \in 1 .. Len(s) + Len(t) : Pending(s \o t)[i] = a[i]
  <2> SUFFICES ASSUME NEW i \in 1 .. Len(s) + Len(t)
               PROVE  Pending(s \o t)[i] = a[i]
    OBVIOUS
  <2>1. CASE i <= Len(s)
    <3>1. i \in 1 .. Len(s)
      BY <1>2, <2>1
    <3> QED BY <1>1, <1>3, <1>5, <1>6, <2>1, <3>1
  <2>2. CASE ~(i <= Len(s))
    <3>1. i - Len(s) \in 1 .. Len(t)
      BY <1>2, <2>2
    <3> QED BY <1>1, <1>4, <1>5, <1>6, <2>2, <3>1
  <2> QED BY <2>1, <2>2
<1>8. Pending(s \o t) = a
  BY <1>5, <1>6, <1>7, SeqEqual DEF Plain
<1> QED BY <1>1, <1>8 DEF a

(* The tail of two sequences in a row.                                      *)
LEMMA TailAbove ==
  ASSUME NEW S, NEW s \in Seq(S), NEW t \in Seq(S), s # <<>>
  PROVE  Tail(s \o t) = Tail(s) \o t
<1>1. /\ s \o t \in Seq(S) /\ Len(s \o t) = Len(s) + Len(t)
      /\ \A i \in 1 .. Len(s) + Len(t) :
           (s \o t)[i] = IF i <= Len(s) THEN s[i] ELSE t[i - Len(s)]
  BY ConcatProperties
<1>2. Len(s) \in Nat /\ Len(s) >= 1 /\ Len(t) \in Nat
  BY EmptySeq, LenProperties
<1>3. s \o t # <<>>
  BY ConcatEqualIffEmpty
<1> DEFINE u == Tail(s)
<1>4. u \in Seq(S) /\ Len(u) = Len(s) - 1 /\ \A i \in 1 .. Len(u) : u[i] = s[i + 1]
  BY HeadTailProperties
<1> DEFINE v == Tail(s \o t)
<1>5. /\ v \in Seq(S) /\ Len(v) = Len(s) + Len(t) - 1
      /\ \A i \in 1 .. Len(v) : v[i] = (s \o t)[i + 1]
  BY <1>1, <1>3, HeadTailProperties
<1> HIDE DEF u, v
<1> DEFINE w == u \o t
<1>6. /\ w \in Seq(S) /\ Len(w) = Len(u) + Len(t)
      /\ \A i \in 1 .. Len(u) + Len(t) :
           w[i] = IF i <= Len(u) THEN u[i] ELSE t[i - Len(u)]
  BY <1>4, ConcatProperties
<1> HIDE DEF w
<1>7. Len(v) = Len(w)
  BY <1>2, <1>4, <1>5, <1>6
<1>8. \A i \in 1 .. Len(v) : v[i] = w[i]
  <2> SUFFICES ASSUME NEW i \in 1 .. Len(v) PROVE v[i] = w[i]
    OBVIOUS
  <2>1. i + 1 \in 1 .. Len(s) + Len(t) /\ i \in 1 .. Len(u) + Len(t)
    BY <1>2, <1>4, <1>5
  <2>2. CASE i <= Len(u)
    <3>1. i \in 1 .. Len(u) /\ i + 1 <= Len(s)
      BY <1>2, <1>4, <2>2, <2>1
    <3> QED BY <1>1, <1>4, <1>5, <1>6, <2>1, <2>2, <3>1
  <2>3. CASE ~(i <= Len(u))
    <3>1. ~(i + 1 <= Len(s)) /\ i + 1 - Len(s) = i - Len(u)
      BY <1>2, <1>4, <2>1, <2>3
    <3>2. w[i] = t[i - Len(u)]
      BY <1>6, <2>1, <2>3
    <3>3. v[i] = (s \o t)[i + 1]
      BY <1>5
    <3>4. (s \o t)[i + 1] = t[i + 1 - Len(s)]
      BY <1>1, <2>1, <3>1
    <3> QED BY <3>1, <3>2, <3>3, <3>4
  <2> QED BY <2>2, <2>3
<1>9. v = w
  BY <1>5, <1>6, <1>7, <1>8, SeqEqual
<1> QED BY <1>9 DEF u, v, w

(* The reader pops what the writer pops.                                    *)
LEMMA PendingPop ==
  ASSUME NEW s \in Stack, s # <<>>
  PROVE  /\ Pop(s) \in Stack
         /\ Pending(s) # <<>>
         /\ Head(Pending(s)).kind = Head(s).kind
         /\ Pending(Pop(s)) = Pop(Pending(s))
<1> DEFINE p == Pending(s)
<1>1. /\ p \in Plain /\ Len(p) = Len(s)
      /\ \A i \in 1 .. Len(s) : p[i] = Task(s[i].kind, s[i].count, 0)
  BY PendingTasks
<1>2. /\ Head(s) = s[1] /\ Len(s) \in Nat /\ Len(s) >= 1
      /\ Pop(s) \in Stack
      /\ s[1].count > 1 =>
           /\ Len(Pop(s)) = Len(s)
           /\ Pop(s)[1] = Task(s[1].kind, s[1].count - 1, s[1].fuel)
           /\ \A i \in 2 .. Len(s) : Pop(s)[i] = s[i]
      /\ ~(s[1].count > 1) =>
           /\ Len(Pop(s)) = Len(s) - 1
           /\ \A i \in 1 .. Len(s) - 1 : Pop(s)[i] = s[i + 1]
  BY PopTasks DEF Stack
<1> HIDE DEF p
<1>3. p # <<>>
  <2>1. Len(p) >= 1
    BY <1>1, <1>2
  <2> QED BY <2>1, EmptySeq
<1>4. /\ Head(p) = p[1]
      /\ Pop(p) \in Plain
      /\ p[1].count > 1 =>
           /\ Len(Pop(p)) = Len(p)
           /\ Pop(p)[1] = Task(p[1].kind, p[1].count - 1, p[1].fuel)
           /\ \A i \in 2 .. Len(p) : Pop(p)[i] = p[i]
      /\ ~(p[1].count > 1) =>
           /\ Len(Pop(p)) = Len(p) - 1
           /\ \A i \in 1 .. Len(p) - 1 : Pop(p)[i] = p[i + 1]
  BY <1>1, <1>3, PopTasks DEF Plain
<1>5. p[1] = Task(s[1].kind, s[1].count, 0)
  BY <1>1, <1>2
<1>6. p[1].kind = s[1].kind /\ p[1].count = s[1].count /\ p[1].fuel = 0
  BY <1>5 DEF Task
<1> DEFINE q == Pending(Pop(s))
<1>7. /\ q \in Plain /\ Len(q) = Len(Pop(s))
      /\ \A i \in 1 .. Len(Pop(s)) : q[i] = Task(Pop(s)[i].kind, Pop(s)[i].count, 0)
  BY <1>2, PendingTasks
<1> HIDE DEF q
<1>8. q = Pop(p)
  <2>1. CASE s[1].count > 1
    <3>1. Len(q) = Len(s) /\ Len(Pop(p)) = Len(s)
      BY <1>1, <1>2, <1>4, <1>6, <1>7, <2>1
    <3>2. q[1] = Pop(p)[1]
      <4>1. q[1] = Task(Pop(s)[1].kind, Pop(s)[1].count, 0)
        BY <1>2, <1>7, <2>1
      <4>2. Pop(s)[1].kind = s[1].kind /\ Pop(s)[1].count = s[1].count - 1
        BY <1>2, <2>1 DEF Task
      <4>3. Pop(p)[1] = Task(s[1].kind, s[1].count - 1, 0)
        BY <1>4, <1>6, <2>1
      <4> QED BY <4>1, <4>2, <4>3
    <3>3. \A i \in 2 .. Len(s) : q[i] = Pop(p)[i]
      <4> SUFFICES ASSUME NEW i \in 2 .. Len(s) PROVE q[i] = Pop(p)[i]
        OBVIOUS
      <4>1. i \in 1 .. Len(s) /\ i \in 1 .. Len(Pop(s)) /\ i \in 2 .. Len(p)
        BY <1>1, <1>2, <2>1
      <4>2. Pop(s)[i] = s[i] /\ Pop(p)[i] = p[i]
        BY <1>2, <1>4, <1>6, <2>1, <4>1
      <4> QED BY <1>1, <1>7, <4>1, <4>2
    <3>4. \A i \in 1 .. Len(s) : i = 1 \/ i \in 2 .. Len(s)
      BY <1>2
    <3>5. \A i \in 1 .. Len(q) : q[i] = Pop(p)[i]
      BY <3>1, <3>2, <3>3, <3>4
    <3> QED BY <1>4, <1>7, <3>1, <3>5, SeqEqual DEF Plain
  <2>2. CASE ~(s[1].count > 1)
    <3>1. Len(q) = Len(s) - 1 /\ Len(Pop(p)) = Len(s) - 1
      BY <1>1, <1>2, <1>4, <1>6, <1>7, <2>2
    <3>2. \A i \in 1 .. Len(q) : q[i] = Pop(p)[i]
      <4> SUFFICES ASSUME NEW i \in 1 .. Len(s) - 1 PROVE q[i] = Pop(p)[i]
        BY <3>1
      <4>1. i + 1 \in 1 .. Len(s) /\ i \in 1 .. Len(Pop(s)) /\ i \in 1 .. Len(p) - 1
        BY <1>1, <1>2, <2>2
      <4>2. Pop(s)[i] = s[i + 1] /\ Pop(p)[i] = p[i + 1]
        BY <1>2, <1>4, <1>6, <2>2, <4>1
      <4> QED BY <1>1, <1>7, <4>1, <4>2
    <3> QED BY <1>4, <1>7, <3>1, <3>2, SeqEqual DEF Plain
  <2> QED BY <2>1, <2>2
<1> QED BY <1>2, <1>3, <1>4, <1>6, <1>8 DEF p, q

(* What lies below does not matter to Pop.                                  *)
LEMMA PopAbove ==
  ASSUME NEW F, NEW s \in Seq(TasksOf(F)), NEW t \in Seq(TasksOf(F)), s # <<>>
  PROVE  /\ s \o t # <<>>
         /\ Head(s \o t) = Head(s)
         /\ Pop(s \o t) = Pop(s) \o t
<1> DEFINE T == TasksOf(F)
<1>1. s \in Seq(T) /\ t \in Seq(T)
  OBVIOUS
<1> HIDE DEF T
<1>2. /\ s \o t \in Seq(T) /\ Len(s \o t) = Len(s) + Len(t)
      /\ \A i \in 1 .. Len(s) + Len(t) :
           (s \o t)[i] = IF i <= Len(s) THEN s[i] ELSE t[i - Len(s)]
  BY <1>1, ConcatProperties
<1>3. Len(s) \in Nat /\ Len(s) >= 1 /\ Len(t) \in Nat
  BY <1>1, EmptySeq, LenProperties
<1>4. s \o t # <<>>
  BY <1>1, ConcatEqualIffEmpty
<1>5. (s \o t)[1] = s[1]
  BY <1>2, <1>3
<1>6. Head(s \o t) = (s \o t)[1] /\ Head(s) = s[1]
  OBVIOUS
<1>7. CASE s[1].count > 1
  <2> DEFINE h == [s[1] EXCEPT !.count = @ - 1]
  <2>1. Pop(s \o t) = <<h>> \o Tail(s \o t) /\ Pop(s) = <<h>> \o Tail(s)
    BY <1>5, <1>6, <1>7 DEF Pop
  <2>2. h \in T
    <3>1. s[1] \in T
      BY <1>1, <1>3, ElementOfSeq
    <3>2. s[1].count - 1 \in Nat
      BY <3>1, <1>7 DEF T, TasksOf
    <3> QED BY <3>1, <3>2 DEF T, TasksOf
  <2> HIDE DEF h
  <2>3. Tail(s \o t) = Tail(s) \o t
    BY <1>1, <1>2, <1>3, TailAbove
  <2>4. Tail(s) \in Seq(T)
    BY <1>1, HeadTailProperties
  <2>5. <<h>> \in Seq(T)
    BY <2>2
  <2>6. (<<h>> \o Tail(s)) \o t = <<h>> \o (Tail(s) \o t)
    BY <1>1, <2>4, <2>5, ConcatAssociative
  <2>7. Pop(s \o t) = Pop(s) \o t
    BY <2>1, <2>3, <2>6
  <2> QED BY <1>4, <1>5, <1>6, <2>7
<1>8. CASE ~(s[1].count > 1)
  <2>1. Pop(s \o t) = Tail(s \o t) /\ Pop(s) = Tail(s)
    BY <1>5, <1>6, <1>8 DEF Pop
  <2>2. Tail(s \o t) = Tail(s) \o t
    BY <1>1, <1>2, <1>3, TailAbove
  <2> QED BY <1>4, <1>5, <1>6, <2>1, <2>2
<1> QED BY <1>7, <1>8

-----------------------------------------------------------------------------
(* The wire as a path. What is on it leads from what the reader expects to  *)
(* what the writer has left: node by node, the reader that takes the node's *)
(* bytes off the wire goes on to the next of the stacks on the path.        *)

(* What either end may be told of a node.                                   *)
Items ==
  [node : Sorts \cup {"option", "seq", "map", "tuple", "buffer"},
   value : Seq(Int)]

(* What is written of a value of some kind, and what it is made of.         *)
OpensClass(kind, item, bytes, parts) ==
  /\ kind.form = "one" /\ kind.of[1] \notin Primitives \cup {"Symbols"}
  /\ \E class \in Candidates(kind.of[1]) :
       /\ item = Item(class, <<>>)
       /\ bytes = Header(class)
       /\ parts = Tasks(Schema[class].fields, 0)
OpensPrimitive(kind, item, bytes, parts) ==
  /\ kind.form = "one" /\ kind.of[1] \in Primitives
  /\ \E value \in Values(kind.of[1]) :
       /\ item = Item(kind.of[1], value)
       /\ bytes = PrimitiveBytes(kind.of[1], value)
       /\ parts = <<>>
OpensOption(kind, item, bytes, parts) ==
  /\ kind.form = "option"
  /\ \E n \in {0, 1} :
       /\ item = Item("option", <<n>>)
       /\ bytes = <<OPTION, n>>
       /\ parts = Repeated(kind, n, 0)
OpensSeq(kind, item, bytes, parts) ==
  /\ kind.form = "seq"
  /\ \E n \in 0 .. MaxInt :
       /\ item = Item("seq", <<n>>)
       /\ bytes = <<SEQ>> \o LengthBytes(n)
       /\ parts = Repeated(kind, n, 0)
OpensMap(kind, item, bytes, parts) ==
  /\ kind.form = "map"
  /\ \E n \in 0 .. MaxInt :
       /\ item = Item("map", <<n>>)
       /\ bytes = <<MAP>> \o LengthBytes(n)
       /\ parts = Entries(kind, n, 0)
OpensTuple(kind, item, bytes, parts) ==
  /\ kind.form = "tuple"
  /\ item = Item("tuple", <<Len(kind.of)>>)
  /\ bytes = <<TUPLE, Len(kind.of)>>
  /\ parts = [i \in DOMAIN kind.of |-> Task(One(kind.of[i]), 1, 0)]
OpensBuffer(kind, item, bytes, parts) ==
  /\ kind.form = "one" /\ kind.of[1] = "Symbols"
  /\ \E n \in 0 .. MaxInt :
       /\ item = Item("buffer", <<n>>)
       /\ bytes = <<SERIALIZATION_BUFFER>> \o PrimitiveBytes("Int", <<n>>)
       /\ parts = <<Task(Contents, 1, 0)>>
OpensContents(kind, item, bytes, parts) ==
  /\ kind.form = "contents"
  /\ item = Item("tuple", <<2>>)
  /\ bytes = <<TUPLE, 2>>
  /\ parts = Tasks(SymbolsFields, 0)
Opens(kind, item, bytes, parts) ==
  \/ OpensClass(kind, item, bytes, parts)
  \/ OpensPrimitive(kind, item, bytes, parts)
  \/ OpensOption(kind, item, bytes, parts)
  \/ OpensSeq(kind, item, bytes, parts)
  \/ OpensMap(kind, item, bytes, parts)
  \/ OpensTuple(kind, item, bytes, parts)
  \/ OpensBuffer(kind, item, bytes, parts)
  \/ OpensContents(kind, item, bytes, parts)

(* One node is read of the bytes `w', which leaves `rest' and the stack t.  *)
Link(s, item, w, t, rest) ==
  /\ s # <<>>
  /\ \E bytes \in Seq(Nat), parts \in Plain :
       /\ bytes # <<>>
       /\ w = bytes \o rest
       /\ Opens(Head(s).kind, item, bytes, parts)
       /\ t = parts \o Pop(s)

(* All the nodes and the bytes, between two stacks.                         *)
Path(from, items, bytes, to) ==
  \E E \in [0 .. Len(items) -> Plain], W \in [0 .. Len(items) -> Seq(Nat)] :
    /\ E[0] = from /\ E[Len(items)] = to
    /\ W[0] = bytes /\ W[Len(items)] = <<>>
    /\ \A i \in 1 .. Len(items) : Link(E[i - 1], items[i], W[i - 1], E[i], W[i])

(* More bytes behind do not matter to the node read first.                  *)
LEMMA LinkAbove ==
  ASSUME NEW s, NEW item, NEW w \in Seq(Nat), NEW t, NEW rest \in Seq(Nat),
         Link(s, item, w, t, rest), NEW z \in Seq(Nat)
  PROVE  Link(s, item, w \o z, t, rest \o z)
<1>1. PICK bytes \in Seq(Nat), parts \in Plain :
        /\ bytes # <<>>
        /\ w = bytes \o rest
        /\ Opens(Head(s).kind, item, bytes, parts)
        /\ t = parts \o Pop(s)
  BY DEF Link
<1>2. w \o z = bytes \o (rest \o z)
  <2>1. (bytes \o rest) \o z = bytes \o (rest \o z)
    BY Zenon, <1>1, Associative
  <2> QED BY <1>1, <2>1
<1>3. s # <<>>
  BY DEF Link
<1> QED BY Zenon, <1>1, <1>2, <1>3 DEF Link

(* Nothing on the wire.                                                     *)
LEMMA PathNil ==
  ASSUME NEW s \in Plain
  PROVE  Path(s, <<>>, <<>>, s)
<1> DEFINE E == [i \in 0 .. 0 |-> s]
<1> DEFINE W == [i \in 0 .. 0 |-> <<>>]
<1>1. E \in [0 .. 0 -> Plain] /\ W \in [0 .. 0 -> Seq(Nat)]
  <2>1. <<>> \in Seq(Nat)
    OBVIOUS
  <2> QED BY <2>1
<1>2. E[0] = s /\ W[0] = <<>>
  OBVIOUS
<1>3. Len(<<>>) = 0 /\ 1 .. 0 = {}
  OBVIOUS
<1> HIDE DEF E, W
<1> QED BY <1>1, <1>2, <1>3 DEF Path

(* One node on it.                                                          *)
LEMMA PathOne ==
  ASSUME NEW s \in Plain, NEW item \in Items, NEW b \in Seq(Nat), NEW t \in Plain,
         Link(s, item, b, t, <<>>)
  PROVE  Path(s, <<item>>, b, t)
<1> DEFINE E == [i \in 0 .. 1 |-> IF i = 0 THEN s ELSE t]
<1> DEFINE W == [i \in 0 .. 1 |-> IF i = 0 THEN b ELSE <<>>]
<1>1. E \in [0 .. 1 -> Plain] /\ W \in [0 .. 1 -> Seq(Nat)]
  <2>1. <<>> \in Seq(Nat)
    OBVIOUS
  <2> QED BY <2>1
<1>2. E[0] = s /\ E[1] = t /\ W[0] = b /\ W[1] = <<>>
  OBVIOUS
<1>3. Len(<<item>>) = 1 /\ <<item>>[1] = item
  OBVIOUS
<1> HIDE DEF E, W
<1>4. \A i \in 1 .. 1 : Link(E[i - 1], <<item>>[i], W[i - 1], E[i], W[i])
  <2>1. Link(E[1 - 1], <<item>>[1], W[1 - 1], E[1], W[1])
    <3>1. 1 - 1 = 0
      OBVIOUS
    <3> QED BY <1>2, <1>3, <3>1
  <2>2. \A i \in 1 .. 1 : i = 1
    OBVIOUS
  <2> QED BY Zenon, <2>1, <2>2
<1> QED BY <1>1, <1>2, <1>3, <1>4 DEF Path

(* The first node of those on it.                                           *)
LEMMA PathHead ==
  ASSUME NEW s, NEW items \in Seq(Items), NEW w, NEW to,
         Path(s, items, w, to), items # <<>>
  PROVE  \E t \in Plain, rest \in Seq(Nat) :
           Link(s, Head(items), w, t, rest) /\ Path(t, Tail(items), rest, to)
<1> DEFINE n == Len(items)
<1>1. PICK E \in [0 .. n -> Plain], W \in [0 .. n -> Seq(Nat)] :
        /\ E[0] = s /\ E[n] = to
        /\ W[0] = w /\ W[n] = <<>>
        /\ \A i \in 1 .. n : Link(E[i - 1], items[i], W[i - 1], E[i], W[i])
  BY DEF Path
<1>2. n \in Nat /\ n >= 1
  BY EmptySeq, LenProperties
<1> DEFINE r == Tail(items)
<1>3. /\ r \in Seq(Items) /\ Len(r) = n - 1
      /\ \A i \in 1 .. Len(r) : r[i] = items[i + 1]
  BY HeadTailProperties
<1>4. Head(items) = items[1]
  OBVIOUS
<1> HIDE DEF n, r
<1>5. Link(s, Head(items), w, E[1], W[1])
  <2>1. 1 \in 1 .. n /\ 1 - 1 = 0
    BY <1>2
  <2>2. Link(E[0], items[1], W[0], E[1], W[1])
    BY <1>1, <2>1
  <2> QED BY <1>1, <1>4, <2>2
<1>6. E[1] \in Plain /\ W[1] \in Seq(Nat)
  <2>1. 1 \in 0 .. n
    BY <1>2
  <2> QED BY <1>1, <2>1
<1>7. Path(E[1], r, W[1], to)
  <2> DEFINE F == [i \in 0 .. n - 1 |-> E[i + 1]]
  <2> DEFINE V == [i \in 0 .. n - 1 |-> W[i + 1]]
  <2>1. \A i \in 0 .. n - 1 : i + 1 \in 0 .. n
    BY <1>2
  <2>2. F \in [0 .. n - 1 -> Plain] /\ V \in [0 .. n - 1 -> Seq(Nat)]
    BY <1>1, <2>1
  <2>3. F[0] = E[1] /\ V[0] = W[1]
    BY <1>2
  <2>4. F[n - 1] = to /\ V[n - 1] = <<>>
    <3>1. n - 1 \in 0 .. n - 1 /\ n - 1 + 1 = n
      BY <1>2
    <3> QED BY <1>1, <3>1
  <2>5. \A i \in 1 .. n - 1 : Link(F[i - 1], r[i], V[i - 1], F[i], V[i])
    <3> SUFFICES ASSUME NEW i \in 1 .. n - 1
                 PROVE  Link(F[i - 1], r[i], V[i - 1], F[i], V[i])
      OBVIOUS
    <3>1. i - 1 \in 0 .. n - 1 /\ i \in 0 .. n - 1 /\ i - 1 + 1 = i
          /\ i + 1 \in 1 .. n /\ i + 1 - 1 = i
      BY <1>2
    <3>2. F[i - 1] = E[i] /\ F[i] = E[i + 1] /\ V[i - 1] = W[i] /\ V[i] = W[i + 1]
      BY <3>1
    <3>3. r[i] = items[i + 1]
      BY <1>3
    <3>4. Link(E[i + 1 - 1], items[i + 1], W[i + 1 - 1], E[i + 1], W[i + 1])
      BY <1>1, <3>1
    <3> HIDE DEF F, V
    <3> QED BY <3>1, <3>2, <3>3, <3>4
  <2> HIDE DEF F, V
  <2> QED BY ZenonT(60), <1>3, <2>2, <2>3, <2>4, <2>5 DEF Path
<1> QED BY Zenon, <1>5, <1>6, <1>7 DEF r

(* Without nodes there are no bytes, and without bytes no nodes: the two    *)
(* ends are where the other is.                                             *)
LEMMA PathEmpty ==
  ASSUME NEW s, NEW items \in Seq(Items), NEW w, NEW to,
         Path(s, items, w, to), items = <<>> \/ w = <<>>
  PROVE  items = <<>> /\ w = <<>> /\ s = to
<1>1. items = <<>>
  <2> SUFFICES ASSUME items # <<>> PROVE FALSE
    OBVIOUS
  <2>1. PICK t \in Plain, rest \in Seq(Nat) : Link(s, Head(items), w, t, rest)
    BY Zenon, PathHead
  <2>2. PICK bytes \in Seq(Nat) : bytes # <<>> /\ w = bytes \o rest
    BY <2>1 DEF Link
  <2>3. w # <<>>
    BY <2>1, <2>2, ConcatEqualIffEmpty
  <2> QED BY <2>3
<1>2. Len(items) = 0
  BY <1>1
<1>3. PICK E \in [0 .. Len(items) -> Plain], W \in [0 .. Len(items) -> Seq(Nat)] :
        /\ E[0] = s /\ E[Len(items)] = to
        /\ W[0] = w /\ W[Len(items)] = <<>>
  BY DEF Path
<1> QED BY <1>1, <1>2, <1>3

(* One path after another.                                                  *)
LEMMA PathConcat ==
  ASSUME NEW r, NEW s, NEW t,
         NEW x \in Seq(Items), NEW y \in Seq(Items),
         NEW v \in Seq(Nat), NEW w \in Seq(Nat),
         Path(r, x, v, s), Path(s, y, w, t)
  PROVE  Path(r, x \o y, v \o w, t)
<1> DEFINE m == Len(x)
<1> DEFINE n == Len(y)
<1>1. PICK E \in [0 .. m -> Plain], V \in [0 .. m -> Seq(Nat)] :
        /\ E[0] = r /\ E[m] = s
        /\ V[0] = v /\ V[m] = <<>>
        /\ \A i \in 1 .. m : Link(E[i - 1], x[i], V[i - 1], E[i], V[i])
  BY DEF Path
<1>2. PICK F \in [0 .. n -> Plain], W \in [0 .. n -> Seq(Nat)] :
        /\ F[0] = s /\ F[n] = t
        /\ W[0] = w /\ W[n] = <<>>
        /\ \A i \in 1 .. n : Link(F[i - 1], y[i], W[i - 1], F[i], W[i])
  BY DEF Path
<1> DEFINE z == x \o y
<1>3. /\ z \in Seq(Items) /\ Len(z) = m + n
      /\ \A i \in 1 .. m + n : z[i] = IF i <= m THEN x[i] ELSE y[i - m]
  BY ConcatProperties
<1>4. m \in Nat /\ n \in Nat
  BY LenProperties
<1> HIDE DEF m, n, z
<1> DEFINE G == [i \in 0 .. m + n |-> IF i <= m THEN E[i] ELSE F[i - m]]
<1> DEFINE U == [i \in 0 .. m + n |-> IF i <= m THEN V[i] \o w ELSE W[i - m]]
<1>5. \A i \in 0 .. m + n : (i <= m => i \in 0 .. m) /\ (~(i <= m) => i - m \in 0 .. n)
  BY <1>4
<1>6. \A i \in 0 .. m : V[i] \in Seq(Nat) /\ V[i] \o w \in Seq(Nat)
  <2>1. \A i \in 0 .. m : V[i] \in Seq(Nat)
    BY <1>1
  <2>2. \A q \in Seq(Nat) : q \o w \in Seq(Nat)
    BY ConcatProperties
  <2> QED BY <2>1, <2>2
<1>7. G \in [0 .. m + n -> Plain] /\ U \in [0 .. m + n -> Seq(Nat)]
  <2>1. \A i \in 0 .. m + n : (IF i <= m THEN E[i] ELSE F[i - m]) \in Plain
    BY <1>1, <1>2, <1>5
  <2>2. \A i \in 0 .. m + n : (IF i <= m THEN V[i] \o w ELSE W[i - m]) \in Seq(Nat)
    <3> SUFFICES ASSUME NEW i \in 0 .. m + n
                 PROVE  (IF i <= m THEN V[i] \o w ELSE W[i - m]) \in Seq(Nat)
      OBVIOUS
    <3>1. CASE i <= m
      <4>1. V[i] \o w \in Seq(Nat)
        BY <1>5, <1>6, <3>1
      <4> QED BY Zenon, <3>1, <4>1
    <3>2. CASE ~(i <= m)
      <4>1. W[i - m] \in Seq(Nat)
        BY <1>2, <1>5, <3>2
      <4> QED BY Zenon, <3>2, <4>1
    <3> QED BY <3>1, <3>2
  <2> QED BY Zenon, <2>1, <2>2
<1>8. \A i \in 0 .. m : G[i] = E[i] /\ U[i] = V[i] \o w
  <2> SUFFICES ASSUME NEW i \in 0 .. m PROVE G[i] = E[i] /\ U[i] = V[i] \o w
    OBVIOUS
  <2>1. i \in 0 .. m + n /\ i <= m
    BY <1>4
  <2> QED BY Zenon, <2>1
<1>14. \A k \in 0 .. m + n : ~(k <= m) => G[k] = F[k - m] /\ U[k] = W[k - m]
  OBVIOUS
<1> HIDE DEF G, U
<1>9. \A i \in 0 .. n : G[m + i] = F[i] /\ U[m + i] = W[i]
  <2> SUFFICES ASSUME NEW i \in 0 .. n PROVE G[m + i] = F[i] /\ U[m + i] = W[i]
    OBVIOUS
  <2>1. CASE i = 0
    <3>1. m + i = m /\ m \in 0 .. m
      BY <1>4, <2>1
    <3>2. G[m] = E[m] /\ U[m] = V[m] \o w
      BY <1>8, <3>1
    <3>3. <<>> \o w = w
      BY ConcatEmptySeq
    <3> QED BY <1>1, <1>2, <2>1, <3>1, <3>2, <3>3
  <2>2. CASE i # 0
    <3>1. m + i \in 0 .. m + n /\ ~(m + i <= m) /\ m + i - m = i
      BY <1>4, <2>2
    <3>2. G[m + i] = F[m + i - m] /\ U[m + i] = W[m + i - m]
      BY <1>4, <1>14, <3>1
    <3> QED BY <3>1, <3>2
  <2> QED BY <2>1, <2>2
<1>10. G[0] = r /\ U[0] = v \o w
  <2>1. 0 \in 0 .. m
    BY <1>4
  <2> QED BY Zenon, <1>1, <1>8, <2>1
<1>11. G[m + n] = t /\ U[m + n] = <<>>
  <2>1. n \in 0 .. n
    BY <1>4
  <2> QED BY <1>2, <1>9, <2>1
<1>12. \A i \in 1 .. m + n : Link(G[i - 1], z[i], U[i - 1], G[i], U[i])
  <2> SUFFICES ASSUME NEW i \in 1 .. m + n
               PROVE  Link(G[i - 1], z[i], U[i - 1], G[i], U[i])
    OBVIOUS
  <2>1. CASE i <= m
    <3>1. i \in 1 .. m /\ i - 1 \in 0 .. m /\ i \in 0 .. m
      BY <1>4, <2>1
    <3>2. /\ G[i - 1] = E[i - 1] /\ U[i - 1] = V[i - 1] \o w
          /\ G[i] = E[i] /\ U[i] = V[i] \o w
          /\ z[i] = x[i]
      <4>1. G[i - 1] = E[i - 1] /\ U[i - 1] = V[i - 1] \o w
        BY Zenon, <1>8, <3>1
      <4>2. G[i] = E[i] /\ U[i] = V[i] \o w
        BY Zenon, <1>8, <3>1
      <4>3. z[i] = x[i]
        BY Zenon, <1>3, <2>1
      <4> QED BY <4>1, <4>2, <4>3
    <3>3. Link(E[i - 1], x[i], V[i - 1], E[i], V[i])
      BY <1>1, <3>1
    <3>4. V[i - 1] \in Seq(Nat) /\ V[i] \in Seq(Nat)
      BY <1>6, <3>1
    <3>5. Link(E[i - 1], x[i], V[i - 1] \o w, E[i], V[i] \o w)
      BY Zenon, <3>3, <3>4, LinkAbove
    <3> QED BY Zenon, <3>2, <3>5
  <2>2. CASE ~(i <= m)
    <3> DEFINE j == i - m
    <3>1. j \in 1 .. n /\ j - 1 \in 0 .. n /\ j \in 0 .. n
          /\ i = m + j /\ i - 1 = m + (j - 1)
      BY <1>4, <2>2
    <3>2. z[i] = y[j]
      BY Zenon, <1>3, <2>2
    <3> HIDE DEF j
    <3>3. G[i - 1] = F[j - 1] /\ U[i - 1] = W[j - 1]
      BY <1>9, <3>1
    <3>4. G[i] = F[j] /\ U[i] = W[j]
      BY <1>9, <3>1
    <3>5. Link(F[j - 1], y[j], W[j - 1], F[j], W[j])
      BY <1>2, <3>1
    <3> QED BY Zenon, <3>2, <3>3, <3>4, <3>5
  <2> QED BY <2>1, <2>2
<1>13. Path(r, z, v \o w, t)
  <2>1. Len(z) = m + n
    BY <1>3
  <2>2. /\ G[0] = r /\ G[Len(z)] = t
        /\ U[0] = v \o w /\ U[Len(z)] = <<>>
        /\ \A i \in 1 .. Len(z) : Link(G[i - 1], z[i], U[i - 1], G[i], U[i])
    BY Zenon, <1>10, <1>11, <1>12, <2>1
  <2>3. G \in [0 .. Len(z) -> Plain] /\ U \in [0 .. Len(z) -> Seq(Nat)]
    BY Zenon, <1>7, <2>1
  <2> QED BY Zenon, <2>2, <2>3 DEF Path
<1> QED BY <1>13 DEF z

-----------------------------------------------------------------------------
(* Kinds of values and what they are made of.                               *)

(* A field declared as a class, and the parts of what is declared.          *)
LEMMA OneKind ==
  ASSUME NEW sort \in Sorts
  PROVE  One(sort) \in Kinds
<1>1. <<sort>> \in Seq(Sorts) /\ <<sort>> # <<>>
  OBVIOUS
<1> QED BY <1>1 DEF One, Kinds

LEMMA KindParts ==
  ASSUME NEW kind \in Kinds
  PROVE  /\ kind.of \in Seq(Sorts) /\ kind.of # <<>>
         /\ Len(kind.of) \in Nat /\ Len(kind.of) >= 1
         /\ DOMAIN kind.of = 1 .. Len(kind.of)
         /\ kind.form \in {"one", "option", "seq", "tuple", "map"}
         /\ kind.form = "map" => Len(kind.of) = 2
         /\ \A i \in 1 .. Len(kind.of) : kind.of[i] \in Sorts /\ One(kind.of[i]) \in Kinds
         /\ kind.of[1] \in Sorts
         /\ Element(kind) \in Kinds
<1>1. /\ kind.of \in Seq(Sorts) /\ kind.of # <<>>
      /\ kind.form \in {"one", "option", "seq", "tuple", "map"}
      /\ kind.form = "map" => Len(kind.of) = 2
  BY DEF Kinds
<1>2. Len(kind.of) \in Nat /\ Len(kind.of) >= 1 /\ DOMAIN kind.of = 1 .. Len(kind.of)
  BY <1>1, EmptySeq, LenProperties
<1>3. \A i \in 1 .. Len(kind.of) : kind.of[i] \in Sorts
  BY <1>1, ElementOfSeq
<1>4. \A i \in 1 .. Len(kind.of) : One(kind.of[i]) \in Kinds
  BY <1>3, OneKind
<1>5. 1 \in 1 .. Len(kind.of)
  BY <1>2
<1>6. Tuple(kind.of) \in Kinds
  BY <1>1 DEF Tuple, Kinds
<1>7. Element(kind) \in Kinds
  BY <1>4, <1>5, <1>6 DEF Element
<1> QED BY <1>1, <1>2, <1>3, <1>4, <1>5, <1>7

(* A row of values of several kinds.                                        *)
LEMMA RowPending ==
  ASSUME NEW n \in Nat, NEW K, \A i \in 1 .. n : K[i] \in Kinds, NEW fuel \in Nat
  PROVE  /\ [i \in 1 .. n |-> Task(K[i], 1, fuel)] \in Stack
         /\ Pending([i \in 1 .. n |-> Task(K[i], 1, fuel)])
              = [i \in 1 .. n |-> Task(K[i], 1, 0)]
<1> DEFINE s == [i \in 1 .. n |-> Task(K[i], 1, fuel)]
<1>1. \A i \in 1 .. n : Task(K[i], 1, fuel) \in TasksOf(Nat)
  BY DEF Task, TasksOf
<1>2. s \in [1 .. n -> TasksOf(Nat)]
  BY Zenon, <1>1
<1>3. s \in Stack /\ DOMAIN s = 1 .. n
  BY <1>2 DEF Stack
<1>4. \A i \in 1 .. n : s[i] = Task(K[i], 1, fuel)
  OBVIOUS
<1> HIDE DEF s
<1>5. \A i \in 1 .. n : Task(s[i].kind, s[i].count, 0) = Task(K[i], 1, 0)
  <2> SUFFICES ASSUME NEW i \in 1 .. n
               PROVE  Task(s[i].kind, s[i].count, 0) = Task(K[i], 1, 0)
    OBVIOUS
  <2>1. s[i] = Task(K[i], 1, fuel)
    BY <1>4
  <2>2. s[i].kind = K[i] /\ s[i].count = 1
    BY <2>1 DEF Task
  <2> QED BY <2>2
<1>6. Pending(s) = [i \in 1 .. n |-> Task(K[i], 1, 0)]
  BY Zenon, <1>3, <1>5 DEF Pending
<1> QED BY <1>3, <1>6 DEF s

(* The fields of a class.                                                   *)
LEMMA TasksPending ==
  ASSUME NEW kinds \in Seq(Kinds), NEW fuel \in Nat
  PROVE  /\ Tasks(kinds, fuel) \in Stack
         /\ Pending(Tasks(kinds, fuel)) = Tasks(kinds, 0)
<1>1. Len(kinds) \in Nat /\ DOMAIN kinds = 1 .. Len(kinds)
  BY LenProperties
<1>2. \A i \in 1 .. Len(kinds) : kinds[i] \in Kinds
  BY ElementOfSeq
<1>3. \A f : Tasks(kinds, f) = [i \in 1 .. Len(kinds) |-> Task(kinds[i], 1, f)]
  BY Zenon, <1>1 DEF Tasks
<1> DEFINE n == Len(kinds)
<1> HIDE DEF n
<1>4. /\ [i \in 1 .. n |-> Task(kinds[i], 1, fuel)] \in Stack
      /\ Pending([i \in 1 .. n |-> Task(kinds[i], 1, fuel)])
           = [i \in 1 .. n |-> Task(kinds[i], 1, 0)]
  <2>1. n \in Nat /\ \A i \in 1 .. n : kinds[i] \in Kinds
    BY <1>1, <1>2 DEF n
  <2> QED BY Zenon, <2>1, RowPending
<1> QED BY Zenon, <1>3, <1>4 DEF n

(* The elements of a sequence.                                              *)
LEMMA RepeatedPending ==
  ASSUME NEW kind \in Kinds, NEW n \in Nat, NEW fuel \in Nat
  PROVE  /\ Repeated(kind, n, fuel) \in Stack
         /\ Pending(Repeated(kind, n, fuel)) = Repeated(kind, n, 0)
<1>1. CASE n = 0
  <2>1. Repeated(kind, n, fuel) = <<>> /\ Repeated(kind, n, 0) = <<>>
    BY <1>1 DEF Repeated
  <2>2. <<>> \in Plain
    BY DEF Plain
  <2> QED BY <2>1, <2>2, PlainPending
<1>2. CASE n # 0
  <2> DEFINE e == Element(kind)
  <2>1. e \in Kinds
    BY KindParts
  <2>2. Repeated(kind, n, fuel) = <<Task(e, n, fuel)>>
        /\ Repeated(kind, n, 0) = <<Task(e, n, 0)>>
    BY <1>2 DEF Repeated
  <2> HIDE DEF e
  <2>3. Task(e, n, fuel) \in TasksOf(Nat) /\ Task(e, n, 0) \in TasksOf({0})
    BY <2>1 DEF Task, TasksOf
  <2> DEFINE s == <<Task(e, n, fuel)>>
  <2>4. s \in Stack /\ Len(s) = 1 /\ s[1] = Task(e, n, fuel)
    BY <2>3 DEF Stack
  <2> DEFINE t == <<Task(e, n, 0)>>
  <2>5. t \in Plain /\ Len(t) = 1 /\ t[1] = Task(e, n, 0)
    BY <2>3 DEF Plain
  <2> HIDE DEF s, t
  <2>6. Task(s[1].kind, s[1].count, 0) = t[1]
    BY <2>4, <2>5 DEF Task
  <2>7. Pending(s) \in Plain /\ Len(Pending(s)) = 1
    BY <2>4, PendingTasks
  <2>8. Pending(s)[1] = t[1]
    <3>1. 1 \in 1 .. Len(s)
      BY <2>4
    <3> QED BY <2>4, <2>6, <3>1, PendingTasks
  <2>9. \A i \in 1 .. 1 : i = 1
    OBVIOUS
  <2>10. Pending(s) = t
    BY <2>5, <2>7, <2>8, <2>9, SeqEqual DEF Plain
  <2> QED BY <2>2, <2>4, <2>10 DEF s, t
<1> QED BY <1>1, <1>2

(* The entries of a map.                                                    *)
LEMMA EntriesPending ==
  ASSUME NEW kind \in Kinds, kind.form = "map", NEW n \in Nat, NEW fuel \in Nat
  PROVE  /\ Entries(kind, n, fuel) \in Stack
         /\ Pending(Entries(kind, n, fuel)) = Entries(kind, n, 0)
<1> DEFINE K == [i \in 1 .. 2 * n |-> One(kind.of[IF i % 2 = 1 THEN 1 ELSE 2])]
<1>1. 2 * n \in Nat
  OBVIOUS
<1>2. One(kind.of[1]) \in Kinds /\ One(kind.of[2]) \in Kinds
  BY KindParts
<1>3. \A i \in 1 .. 2 * n : K[i] \in Kinds
  <2>1. \A i \in 1 .. 2 * n : K[i] = One(kind.of[1]) \/ K[i] = One(kind.of[2])
    OBVIOUS
  <2> QED BY Zenon, <1>2, <2>1
<1>4. \A f : Entries(kind, n, f) = [i \in 1 .. 2 * n |-> Task(K[i], 1, f)]
  BY Zenon DEF Entries
<1> HIDE DEF K
<1>5. /\ [i \in 1 .. 2 * n |-> Task(K[i], 1, fuel)] \in Stack
      /\ Pending([i \in 1 .. 2 * n |-> Task(K[i], 1, fuel)])
           = [i \in 1 .. 2 * n |-> Task(K[i], 1, 0)]
  BY Zenon, <1>1, <1>3, RowPending
<1> QED BY Zenon, <1>4, <1>5

(* The parts of a tuple.                                                    *)
LEMMA TuplePending ==
  ASSUME NEW kind \in Kinds, NEW fuel \in Nat
  PROVE  /\ [i \in DOMAIN kind.of |-> Task(One(kind.of[i]), 1, fuel)] \in Stack
         /\ Pending([i \in DOMAIN kind.of |-> Task(One(kind.of[i]), 1, fuel)])
              = [i \in DOMAIN kind.of |-> Task(One(kind.of[i]), 1, 0)]
<1> DEFINE n == Len(kind.of)
<1> DEFINE K == [i \in 1 .. n |-> One(kind.of[i])]
<1>1. n \in Nat /\ DOMAIN kind.of = 1 .. n
  BY KindParts
<1>2. \A i \in 1 .. n : K[i] \in Kinds
  BY KindParts
<1>3. \A f : [i \in DOMAIN kind.of |-> Task(One(kind.of[i]), 1, f)]
               = [i \in 1 .. n |-> Task(K[i], 1, f)]
  BY Zenon, <1>1
<1> HIDE DEF n, K
<1>4. /\ [i \in 1 .. n |-> Task(K[i], 1, fuel)] \in Stack
      /\ Pending([i \in 1 .. n |-> Task(K[i], 1, fuel)])
           = [i \in 1 .. n |-> Task(K[i], 1, 0)]
  BY Zenon, <1>1, <1>2, RowPending
<1> QED BY Zenon, <1>3, <1>4

-----------------------------------------------------------------------------
(* What is written.                                                         *)

(* Sequences of one or two numbers.                                         *)
LEMMA FewBytes ==
  ASSUME NEW a \in Nat, NEW b \in Nat
  PROVE  /\ <<a>> \in Seq(Nat) /\ <<a>> # <<>>
         /\ <<a, b>> \in Seq(Nat) /\ <<a, b>> # <<>>
  OBVIOUS

(* A sequence that begins with one that has elements.                       *)
LEMMA MoreBytes ==
  ASSUME NEW a \in Seq(Nat), a # <<>>, NEW b \in Seq(Nat)
  PROVE  a \o b \in Seq(Nat) /\ a \o b # <<>>
  BY ConcatProperties, ConcatEqualIffEmpty

(* The values of the primitive types are sequences of numbers.              *)
LEMMA ValuesTyped ==
  ASSUME NEW type \in Primitives, NEW value \in Values(type)
  PROVE  value \in Seq(Int) /\ Payload(type, value) \in Seq(Nat)
<1>1. CASE type = "Boolean"
  <2>1. value \in Booleans /\ Payload(type, value) = value
    BY <1>1 DEF Values, Payload
  <2>2. value = <<0>> \/ value = <<1>>
    BY SMT, <2>1, ValuesAssumption
  <2>3. value \in Seq(Int) /\ value \in Seq(Nat)
    <3>1. \A v \in {0, 1} : <<v>> \in Seq(Int) /\ <<v>> \in Seq(Nat)
      OBVIOUS
    <3>2. value = <<0>> \/ value = <<1>>
      BY <2>2
    <3> QED BY Zenon, <3>1, <3>2
  <2> QED BY <2>1, <2>3
<1>2. CASE type = "Char"
  <2>1. value \in Chars /\ Payload(type, value) = BigEndian(value[1], 2)
    BY <1>2 DEF Values, Payload
  <2>2. value = <<value[1]>> /\ value[1] \in Int
    BY SMT, <2>1, ValuesAssumption
  <2>3. <<value[1]>> \in Seq(Int)
    BY <2>2
  <2>4. BigEndian(value[1], 2) \in Seq(Bytes)
    <3>1. 2 \in 1 .. 4
      OBVIOUS
    <3> QED BY Zenon, <2>2, <3>1, BigEndianBytes
  <2> QED BY Zenon, <2>1, <2>2, <2>3, <2>4, BytesNat
<1>3. CASE type = "Int"
  <2>1. value \in Ints /\ Payload(type, value) = BigEndian(value[1], 4)
    BY <1>3 DEF Values, Payload
  <2>2. value = <<value[1]>> /\ value[1] \in Int /\ BigEndian(value[1], 4) \in Seq(Nat)
    BY <2>1, IntValues
  <2>3. <<value[1]>> \in Seq(Int)
    BY <2>2
  <2> QED BY Zenon, <2>1, <2>2, <2>3
<1>4. CASE type = "String"
  <2>1. value \in Strings /\ Payload(type, value) = BigEndian(Len(value), 4) \o value
    BY <1>4 DEF Values, Payload
  <2>2. value \in Seq(Bytes) /\ Len(value) <= MaxInt
    BY SMT, <2>1, ValuesAssumption
  <2>3. value \in Seq(Nat)
    BY <2>2, BytesNat
  <2>4. value \in Seq(Int)
    <3>1. Bytes \subseteq Int
      BY DEF Bytes
    <3> QED BY <2>2, <3>1, SeqMonotonic
  <2>5. 0 \in Nat
    OBVIOUS
  <2>6. BigEndian(Len(value), 4) \o value \in Seq(Nat)
    BY Zenon, <2>2, <2>3, <2>5, EmptySeq, CountedBytes
  <2> QED BY Zenon, <2>1, <2>4, <2>6
<1>5. CASE type = "BigInt"
  <2> DEFINE s == SignedBytes(value[1])
  <2>1. value \in BigInts /\ Payload(type, value) = BigEndian(Len(s), 4) \o s
    BY <1>5 DEF Values, Payload
  <2>2. value = <<value[1]>>
    BY SMT, <2>1, ValuesAssumption
  <2>3. value[1] \in Int /\ -8388608 <= value[1] /\ value[1] <= 8388607
    BY SMT, <2>1, ValuesAssumption
  <2>4. s \in Seq(Bytes) /\ Len(s) \in 1 .. 3
    BY SMT, <2>3, SignedBytesRead
  <2> HIDE DEF s
  <2>5. Len(s) <= MaxInt
    <3>1. \A l \in 1 .. 3 : l \in Int /\ l <= 3
      OBVIOUS
    <3>2. \A l \in Int : l <= 3 => l <= MaxInt
      BY SMT DEF MaxInt
    <3> QED BY <2>4, <3>1, <3>2
  <2>6. s \in Seq(Nat)
    BY <2>4, BytesNat
  <2>7. 0 \in Nat
    OBVIOUS
  <2>8. BigEndian(Len(s), 4) \o s \in Seq(Nat)
    BY Zenon, <2>5, <2>6, <2>7, EmptySeq, CountedBytes
  <2>9. <<value[1]>> \in Seq(Int)
    <3>1. value[1] \in Int
      BY SMT, <2>1, ValuesAssumption
    <3> QED BY <3>1
  <2> QED BY Zenon, <2>1, <2>2, <2>8, <2>9
<1> QED BY <1>1, <1>2, <1>3, <1>4, <1>5 DEF Primitives

(* Primitive values.                                                        *)
LEMMA PrimitiveTyped ==
  ASSUME NEW type \in Primitives, NEW p \in Seq(Nat)
  PROVE  /\ PrimitiveId[type] \in Nat
         /\ <<PRIMITIVE, PrimitiveId[type]>> \o p \in Seq(Nat)
         /\ <<PRIMITIVE, PrimitiveId[type]>> \o p # <<>>
<1>1. PrimitiveId[type] \in Nat /\ PRIMITIVE \in Nat
  BY DEF PrimitiveId, Primitives, PRIMITIVE
<1> DEFINE id == PrimitiveId[type]
<1> HIDE DEF id
<1>2. <<PRIMITIVE, id>> \in Seq(Nat) /\ <<PRIMITIVE, id>> # <<>>
  BY <1>1, FewBytes DEF id
<1> QED BY <1>1, <1>2, MoreBytes DEF id

(* Lengths.                                                                 *)
LEMMA IntBytes ==
  ASSUME NEW n \in 0 .. MaxInt
  PROVE  /\ PrimitiveBytes("Int", <<n>>) = <<PRIMITIVE, 4>> \o BigEndian(n, 4)
         /\ PrimitiveBytes("Int", <<n>>) \in Seq(Nat)
         /\ PrimitiveBytes("Int", <<n>>) # <<>>
<1>1. Payload("Int", <<n>>) = BigEndian(n, 4)
  BY DEF Payload
<1>2. PrimitiveId["Int"] = 4 /\ "Int" \in Primitives
  BY DEF PrimitiveId, Primitives
<1>3. BigEndian(n, 4) \in Seq(Nat)
  BY LengthRead
<1>4. PrimitiveBytes("Int", <<n>>) = <<PRIMITIVE, PrimitiveId["Int"]>> \o BigEndian(n, 4)
  BY Zenon, <1>1 DEF PrimitiveBytes
<1> QED BY Zenon, <1>2, <1>3, <1>4, PrimitiveTyped

LEMMA LengthTyped ==
  ASSUME NEW n \in 0 .. MaxInt, NEW marker \in Nat
  PROVE  /\ LengthBytes(n) \in Seq(Nat)
         /\ <<marker>> \o LengthBytes(n) \in Seq(Nat)
         /\ <<marker>> \o LengthBytes(n) # <<>>
<1>1. n \in Nat
  BY MaxIntNat
<1>2. LengthBytes(n) \in Seq(Nat)
  <2>1. CASE n < 255
    <3>1. LengthBytes(n) = <<n>>
      BY Zenon, <2>1 DEF LengthBytes
    <3> QED BY <1>1, <3>1
  <2>2. CASE ~(n < 255)
    <3>1. LengthBytes(n) = <<255>> \o PrimitiveBytes("Int", <<n>>)
      BY Zenon, <2>2 DEF LengthBytes
    <3>2. <<255>> \in Seq(Nat) /\ <<255>> # <<>>
      OBVIOUS
    <3> QED BY Zenon, <3>1, <3>2, IntBytes, MoreBytes
  <2> QED BY <2>1, <2>2
<1>3. <<marker>> \in Seq(Nat) /\ <<marker>> # <<>>
  OBVIOUS
<1> QED BY <1>2, <1>3, MoreBytes

(* The classes of a field.                                                  *)
LEMMA CandidateTyped ==
  ASSUME NEW sort \in Sorts \ (Primitives \cup {"Symbols"}),
         NEW class \in Candidates(sort)
  PROVE  /\ class \in DOMAIN Schema
         /\ Schema[class].marker \in Nat
         /\ Schema[class].tuple \in BOOLEAN
         /\ Schema[class].fields \in Seq(Kinds)
         /\ Header(class) \in Seq(Nat) /\ Header(class) # <<>>
         /\ Head(Header(class)) = Schema[class].marker
<1>1. class \in DOMAIN Schema
  <2>1. CASE sort \in Enums
    BY <2>1, SchemaAssumption DEF Candidates
  <2>2. CASE sort \notin Enums
    <3>1. ClassesOf(sort) = {sort}
      BY <2>2 DEF ClassesOf, Enums
    <3>2. sort \in DOMAIN Schema
      BY <2>2 DEF Sorts
    <3> QED BY <2>2, <3>1, <3>2 DEF Candidates
  <2> QED BY <2>1, <2>2
<1> DEFINE c == Schema[class]
<1>2. c \in [marker : Nat, tuple : BOOLEAN, fields : Seq(Kinds)]
  BY <1>1, SchemaAssumption
<1> HIDE DEF c
<1>3. c.marker \in Nat /\ c.tuple \in BOOLEAN /\ c.fields \in Seq(Kinds)
  BY <1>2
<1> DEFINE rest == IF c.tuple THEN <<TUPLE, Len(c.fields)>> ELSE <<>>
<1>4. Header(class) = <<c.marker>> \o rest
  BY DEF Header, c
<1>5. rest \in Seq(Nat)
  <2>1. Len(c.fields) \in Nat
    BY <1>3, LenProperties
  <2>2. <<TUPLE, Len(c.fields)>> \in Seq(Nat) /\ <<>> \in Seq(Nat)
    BY <2>1 DEF TUPLE
  <2> QED BY <2>2
<1> DEFINE h == <<c.marker>>
<1>6. h \in Seq(Nat) /\ h # <<>> /\ Len(h) = 1 /\ h[1] = c.marker
  BY <1>3
<1> HIDE DEF rest
<1>7. h \o rest \in Seq(Nat) /\ h \o rest # <<>>
  BY Zenon, <1>5, <1>6, MoreBytes
<1>8. (h \o rest)[1] = h[1]
  <2> HIDE DEF h
  <2>1. Len(rest) \in Nat
    BY <1>5, LenProperties
  <2> QED BY <1>5, <1>6, <2>1, ConcatProperties
<1>9. Head(Header(class)) = Header(class)[1]
  OBVIOUS
<1> QED BY <1>1, <1>3, <1>4, <1>6, <1>7, <1>8, <1>9 DEF c

(* What comes next on a stack.                                              *)
LEMMA HeadTask ==
  ASSUME NEW F, NEW s \in Seq(TasksOf(F)), s # <<>>
  PROVE  /\ Head(s).kind \in Kinds \cup {Contents}
         /\ Head(s).fuel \in F
         /\ Head(s).kind.form # "contents" => Head(s).kind \in Kinds
<1>1. Head(s) \in TasksOf(F)
  BY PopTasks
<1>2. Head(s).kind \in Kinds \cup {Contents} /\ Head(s).fuel \in F
  BY <1>1 DEF TasksOf
<1>3. Contents.form = "contents"
  BY DEF Contents
<1> QED BY <1>2, <1>3

LEMMA LessNat == \A fuel \in Nat : Less(fuel) \in Nat
  BY DEF Less

(* A header is written, of a value of the kind that comes next.             *)
Written(item, bytes, parts) ==
  /\ Emit(item, bytes, parts)
  /\ item \in Items
  /\ bytes \in Seq(Nat)
  /\ bytes # <<>>
  /\ parts \in Stack
  /\ Opens(Head(todo).kind, item, bytes, Pending(parts))

(* Nodes are told to both ends by a name and numbers.                       *)
LEMMA NodeTyped ==
  ASSUME NEW node \in Sorts \cup {"option", "seq", "map", "tuple", "buffer"},
         NEW value \in Seq(Int)
  PROVE  Item(node, value) \in Items
  BY DEF Item, Items

LEMMA NumberTyped ==
  ASSUME NEW node \in {"option", "seq", "map", "tuple", "buffer"}, NEW n \in Nat
  PROVE  Item(node, <<n>>) \in Items
<1>1. <<n>> \in Seq(Int)
  OBVIOUS
<1> QED BY <1>1, NodeTyped

(* What each of the writer's steps writes.                                  *)
LEMMA ClassWritten ==
  ASSUME todo \in Stack, WriteClass
  PROVE  todo # <<>> /\ \E item, bytes, parts : Written(item, bytes, parts)
<1> DEFINE kind == Head(todo).kind
<1> DEFINE sort == SortOf(todo)
<1>1. /\ todo # <<>> /\ kind.form = "one" /\ sort = kind.of[1]
      /\ sort \notin Primitives \cup {"Symbols"}
  BY DEF WriteClass, IsForm, SortOf
<1>2. kind \in Kinds /\ Head(todo).fuel \in Nat
  BY <1>1, HeadTask DEF Stack
<1>3. PICK class \in ClassChoices(sort, Head(todo).fuel) :
        Emit(Item(class, <<>>), Header(class),
             Tasks(Schema[class].fields, Less(Head(todo).fuel)))
  BY DEF WriteClass
<1>4. sort \in Sorts
  BY <1>1, <1>2, KindParts
<1>5. class \in Candidates(sort)
  <2>1. sort \in Enums => Filler[sort] \in Candidates(sort)
    BY SMT, ValuesAssumption
  <2> QED BY <1>3, <2>1 DEF ClassChoices
<1> DEFINE parts == Tasks(Schema[class].fields, Less(Head(todo).fuel))
<1>6. /\ class \in DOMAIN Schema
      /\ Schema[class].fields \in Seq(Kinds)
      /\ Header(class) \in Seq(Nat) /\ Header(class) # <<>>
  BY <1>1, <1>4, <1>5, CandidateTyped
<1>7. Less(Head(todo).fuel) \in Nat
  BY <1>2, LessNat
<1>8. parts \in Stack /\ Pending(parts) = Tasks(Schema[class].fields, 0)
  BY <1>6, <1>7, TasksPending
<1>9. Item(class, <<>>) \in Items
  <2>1. <<>> \in Seq(Int) /\ class \in Sorts
    BY <1>6 DEF Sorts
  <2> QED BY <2>1, NodeTyped
<1> HIDE DEF parts, kind, sort
<1>10. OpensClass(kind, Item(class, <<>>), Header(class), Pending(parts))
  BY <1>1, <1>5, <1>8 DEF OpensClass
<1>11. Written(Item(class, <<>>), Header(class), parts)
  BY <1>3, <1>6, <1>8, <1>9, <1>10 DEF Written, Opens, parts, kind
<1> QED BY <1>1, <1>11

LEMMA PrimitiveWritten ==
  ASSUME todo \in Stack, WritePrimitive
  PROVE  todo # <<>> /\ \E item, bytes, parts : Written(item, bytes, parts)
<1> DEFINE kind == Head(todo).kind
<1> DEFINE sort == SortOf(todo)
<1>1. /\ todo # <<>> /\ kind.form = "one" /\ sort = kind.of[1]
      /\ sort \in Primitives
  BY DEF WritePrimitive, IsForm, SortOf
<1>2. PICK value \in ValueChoices(sort) :
        Emit(Item(sort, value), PrimitiveBytes(sort, value), <<>>)
  BY DEF WritePrimitive
<1>3. value \in Values(sort)
  <2>1. \A S : S # {} => Sample(S) \subseteq S
    BY DEF Sample
  <2>2. Booleans # {} /\ Chars # {} /\ Ints # {} /\ Strings # {} /\ BigInts # {}
    BY SMT, ValuesAssumption
  <2> HIDE DEF sort
  <2>3. CASE sort = "Boolean"
    BY <1>2, <2>1, <2>2, <2>3 DEF ValueChoices, Values
  <2>4. CASE sort = "Char"
    BY <1>2, <2>1, <2>2, <2>4 DEF ValueChoices, Values
  <2>5. CASE sort = "Int"
    BY <1>2, <2>1, <2>2, <2>5 DEF ValueChoices, Values
  <2>6. CASE sort = "String"
    BY <1>2, <2>1, <2>2, <2>6 DEF ValueChoices, Values
  <2>7. CASE sort = "BigInt"
    BY <1>2, <2>1, <2>2, <2>7 DEF ValueChoices, Values
  <2> QED BY <1>1, <2>3, <2>4, <2>5, <2>6, <2>7 DEF Primitives
<1>4. value \in Seq(Int) /\ Payload(sort, value) \in Seq(Nat)
  BY <1>1, <1>3, ValuesTyped
<1>5. PrimitiveBytes(sort, value) \in Seq(Nat) /\ PrimitiveBytes(sort, value) # <<>>
  BY Zenon, <1>1, <1>4, PrimitiveTyped DEF PrimitiveBytes
<1>6. Item(sort, value) \in Items
  <2>1. sort \in Sorts
    BY <1>1 DEF Sorts
  <2> QED BY <1>4, <2>1, NodeTyped
<1>7. <<>> \in Stack /\ Pending(<<>>) = <<>>
  <2>1. <<>> \in Plain
    BY DEF Plain
  <2> QED BY <2>1, PlainPending
<1> HIDE DEF kind, sort
<1>8. OpensPrimitive(kind, Item(sort, value), PrimitiveBytes(sort, value), Pending(<<>>))
  BY Zenon, <1>1, <1>3, <1>7 DEF OpensPrimitive
<1>9. Written(Item(sort, value), PrimitiveBytes(sort, value), <<>>)
  BY Zenon, <1>2, <1>5, <1>6, <1>7, <1>8 DEF Written, Opens, kind
<1> QED BY Zenon, <1>1, <1>9

LEMMA OptionWritten ==
  ASSUME todo \in Stack, WriteOption
  PROVE  todo # <<>> /\ \E item, bytes, parts : Written(item, bytes, parts)
<1> DEFINE kind == Head(todo).kind
<1>1. todo # <<>> /\ kind.form = "option"
  BY DEF WriteOption, IsForm
<1>2. kind \in Kinds /\ Less(Head(todo).fuel) \in Nat
  BY <1>1, HeadTask, LessNat DEF Stack
<1>3. PICK n \in OptionChoices(Head(todo).fuel) :
        Emit(Item("option", <<n>>), <<OPTION, n>>,
             Repeated(kind, n, Less(Head(todo).fuel)))
  BY DEF WriteOption
<1>4. n \in {0, 1} /\ n \in Nat
  BY <1>3 DEF OptionChoices
<1> DEFINE parts == Repeated(kind, n, Less(Head(todo).fuel))
<1>5. parts \in Stack /\ Pending(parts) = Repeated(kind, n, 0)
  BY <1>2, <1>4, RepeatedPending
<1>6. <<OPTION, n>> \in Seq(Nat) /\ <<OPTION, n>> # <<>>
  BY <1>4 DEF OPTION
<1>7. Item("option", <<n>>) \in Items
  BY <1>4, NumberTyped
<1> HIDE DEF parts, kind
<1>8. OpensOption(kind, Item("option", <<n>>), <<OPTION, n>>, Pending(parts))
  BY Zenon, <1>1, <1>4, <1>5 DEF OpensOption
<1>9. Written(Item("option", <<n>>), <<OPTION, n>>, parts)
  BY Zenon, <1>3, <1>5, <1>6, <1>7, <1>8 DEF Written, Opens, kind, parts
<1> QED BY Zenon, <1>1, <1>9

(* The lengths of sequences and maps.                                       *)
LEMMA LengthChosen ==
  ASSUME NEW fuel, NEW n \in LengthChoices(fuel)
  PROVE  n \in 0 .. MaxInt /\ n \in Nat
<1>1. Lengths \cup RootLengths \subseteq 0 .. MaxInt
  BY SMT, ValuesAssumption
<1>2. MaxInt \in Nat
  BY MaxIntNat
<1>3. 0 \in 0 .. MaxInt
  BY <1>2
<1>4. n \in 0 .. MaxInt
  BY Zenon, <1>1, <1>3 DEF LengthChoices
<1> QED BY <1>2, <1>4

LEMMA SeqWritten ==
  ASSUME todo \in Stack, WriteSeq
  PROVE  todo # <<>> /\ \E item, bytes, parts : Written(item, bytes, parts)
<1> DEFINE kind == Head(todo).kind
<1>1. todo # <<>> /\ kind.form = "seq"
  BY DEF WriteSeq, IsForm
<1>2. kind \in Kinds /\ Less(Head(todo).fuel) \in Nat
  BY <1>1, HeadTask, LessNat DEF Stack
<1>3. PICK n \in LengthChoices(Head(todo).fuel) :
        Emit(Item("seq", <<n>>), <<SEQ>> \o LengthBytes(n),
             Repeated(kind, n, Less(Head(todo).fuel)))
  BY DEF WriteSeq
<1>4. n \in 0 .. MaxInt /\ n \in Nat
  BY <1>3, LengthChosen
<1> DEFINE parts == Repeated(kind, n, Less(Head(todo).fuel))
<1>5. parts \in Stack /\ Pending(parts) = Repeated(kind, n, 0)
  BY <1>2, <1>4, RepeatedPending
<1> DEFINE bytes == <<SEQ>> \o LengthBytes(n)
<1>6. bytes \in Seq(Nat) /\ bytes # <<>>
  <2>1. SEQ \in Nat
    BY DEF SEQ
  <2> QED BY Zenon, <1>4, <2>1, LengthTyped
<1>7. Item("seq", <<n>>) \in Items
  BY <1>4, NumberTyped
<1> HIDE DEF parts, kind
<1>8. OpensSeq(kind, Item("seq", <<n>>), bytes, Pending(parts))
  BY Zenon, <1>1, <1>4, <1>5 DEF OpensSeq
<1> HIDE DEF bytes
<1>9. Written(Item("seq", <<n>>), bytes, parts)
  BY Zenon, <1>3, <1>5, <1>6, <1>7, <1>8 DEF Written, Opens, kind, parts, bytes
<1> QED BY Zenon, <1>1, <1>9

LEMMA MapWritten ==
  ASSUME todo \in Stack, WriteMap
  PROVE  todo # <<>> /\ \E item, bytes, parts : Written(item, bytes, parts)
<1> DEFINE kind == Head(todo).kind
<1>1. todo # <<>> /\ kind.form = "map"
  BY DEF WriteMap, IsForm
<1>2. kind \in Kinds /\ Less(Head(todo).fuel) \in Nat
  BY <1>1, HeadTask, LessNat DEF Stack
<1>3. PICK n \in LengthChoices(Head(todo).fuel) :
        Emit(Item("map", <<n>>), <<MAP>> \o LengthBytes(n),
             Entries(kind, n, Less(Head(todo).fuel)))
  BY DEF WriteMap
<1>4. n \in 0 .. MaxInt /\ n \in Nat
  BY <1>3, LengthChosen
<1> DEFINE parts == Entries(kind, n, Less(Head(todo).fuel))
<1>5. parts \in Stack /\ Pending(parts) = Entries(kind, n, 0)
  BY <1>1, <1>2, <1>4, EntriesPending
<1> DEFINE bytes == <<MAP>> \o LengthBytes(n)
<1>6. bytes \in Seq(Nat) /\ bytes # <<>>
  <2>1. MAP \in Nat
    BY DEF MAP
  <2> QED BY Zenon, <1>4, <2>1, LengthTyped
<1>7. Item("map", <<n>>) \in Items
  BY <1>4, NumberTyped
<1> HIDE DEF parts, kind
<1>8. OpensMap(kind, Item("map", <<n>>), bytes, Pending(parts))
  BY Zenon, <1>1, <1>4, <1>5 DEF OpensMap
<1> HIDE DEF bytes
<1>9. Written(Item("map", <<n>>), bytes, parts)
  BY Zenon, <1>3, <1>5, <1>6, <1>7, <1>8 DEF Written, Opens, kind, parts, bytes
<1> QED BY Zenon, <1>1, <1>9

LEMMA TupleWritten ==
  ASSUME todo \in Stack, WriteTuple
  PROVE  todo # <<>> /\ \E item, bytes, parts : Written(item, bytes, parts)
<1> DEFINE kind == Head(todo).kind
<1> DEFINE parts == [i \in DOMAIN kind.of |-> Task(One(kind.of[i]), 1, Head(todo).fuel)]
<1>1. todo # <<>> /\ kind.form = "tuple"
  BY DEF WriteTuple, IsForm
<1>2. kind \in Kinds /\ Head(todo).fuel \in Nat
  BY <1>1, HeadTask DEF Stack
<1> DEFINE n == Len(kind.of)
<1>3. Emit(Item("tuple", <<n>>), <<TUPLE, n>>, parts)
  BY DEF WriteTuple
<1>4. n \in Nat
  BY <1>2, KindParts
<1> DEFINE plain == [i \in DOMAIN kind.of |-> Task(One(kind.of[i]), 1, 0)]
<1>5. parts \in Stack /\ Pending(parts) = plain
  BY <1>2, TuplePending
<1>6. OpensTuple(kind, Item("tuple", <<n>>), <<TUPLE, n>>, plain)
  BY Zenon, <1>1 DEF OpensTuple
<1> HIDE DEF parts, kind, n, plain
<1>7. <<TUPLE, n>> \in Seq(Nat) /\ <<TUPLE, n>> # <<>>
  BY <1>4 DEF TUPLE
<1>8. Item("tuple", <<n>>) \in Items
  BY <1>4, NumberTyped
<1>9. Written(Item("tuple", <<n>>), <<TUPLE, n>>, parts)
  BY Zenon, <1>3, <1>5, <1>6, <1>7, <1>8 DEF Written, Opens, kind
<1> QED BY Zenon, <1>1, <1>9

-----------------------------------------------------------------------------
(* The writer's steps make the path longer.                                 *)

LEMMA StackAssociative ==
  \A x, y, z \in Stack : (x \o y) \o z = x \o (y \o z)
  BY SMTT(30), ConcatAssociative DEF Stack

(* A step of the writer, as the reader's stack follows it.                  *)
LEMMA PendingParts ==
  ASSUME NEW s \in Stack, s # <<>>, NEW p \in Stack
  PROVE  /\ p \o Pop(s) \in Stack
         /\ Pending(p) \in Plain
         /\ Pending(p \o Pop(s)) = Pending(p) \o Pop(Pending(s))
         /\ Pending(p \o Pop(s)) \in Plain
<1>1. Pop(s) \in Stack /\ Pending(Pop(s)) = Pop(Pending(s))
  BY PendingPop
<1>2. p \o Pop(s) \in Stack /\ Pending(p \o Pop(s)) = Pending(p) \o Pending(Pop(s))
  BY <1>1, PendingConcat
<1> QED BY <1>1, <1>2, PendingTasks

(* A node is added.                                                         *)
LEMMA PathExtended ==
  ASSUME NEW from, NEW items \in Seq(Items), NEW w \in Seq(Nat), NEW to \in Plain,
         Path(from, items, w, to), to # <<>>,
         NEW item \in Items, NEW bytes \in Seq(Nat), bytes # <<>>,
         NEW parts \in Plain, Opens(Head(to).kind, item, bytes, parts),
         parts \o Pop(to) \in Plain
  PROVE  Path(from, Append(items, item), w \o bytes, parts \o Pop(to))
<1>1. bytes \o <<>> = bytes
  BY ConcatEmptySeq
<1>2. Link(to, item, bytes, parts \o Pop(to), <<>>)
  BY Zenon, <1>1 DEF Link
<1> DEFINE t == parts \o Pop(to)
<1>3. t \in Plain /\ Link(to, item, bytes, t, <<>>)
  BY Zenon, <1>2
<1> HIDE DEF t
<1>4. Path(to, <<item>>, bytes, t)
  BY Zenon, <1>3, PathOne
<1>5. <<item>> \in Seq(Items)
  OBVIOUS
<1>6. Path(from, items \o <<item>>, w \o bytes, t)
  BY Zenon, <1>4, <1>5, PathConcat
<1>7. items \o <<item>> = Append(items, item)
  BY AppendIsConcat
<1> QED BY Zenon, <1>6, <1>7 DEF t

(* Types, and: out of a buffer nothing comes after it.                      *)
WireTyped ==
  /\ todo \in Stack
  /\ expected \in Plain
  /\ after \in Plain
  /\ wire \in Seq(Nat)
  /\ sent \in Seq(Items)
  /\ inner \in [open : BOOLEAN, bytes : Seq(Nat), items : Seq(Items), after : Stack]
  /\ left \in Int
  /\ left = -1 => after = <<>>

(* What is on the wire leads from what the reader expects to what the       *)
(* writer has left,                                                         *)
OnWire == ~inner.open => Path(expected \o after, sent, wire, Pending(todo))

(* or to the program whose buffer is being filled; and what is in the       *)
(* buffer leads on from its contents.                                       *)
Program(e) ==
  /\ e \in Plain /\ e # <<>>
  /\ Head(e).kind.form = "one" /\ Head(e).kind.of[1] = "Symbols"
  /\ Pop(e) = Pending(inner.after)
Inside == <<Task(Contents, 1, 0)>>
InBuffer ==
  inner.open =>
    \E e : /\ Program(e)
           /\ Path(expected \o after, sent, wire, e)
           /\ Path(Inside \o Pop(e), inner.items, inner.bytes,
                   Pending(todo \o inner.after))

WireInv == WireTyped /\ OnWire /\ InBuffer

(* A header written to the wire, or to the buffer.                          *)
LEMMA WrittenOnWire ==
  ASSUME WireInv, todo # <<>>, ~inner.open,
         NEW item, NEW bytes, NEW parts, Written(item, bytes, parts)
  PROVE  WireInv'
<1>1. /\ todo \in Stack /\ expected \in Plain /\ after \in Plain
      /\ wire \in Seq(Nat) /\ sent \in Seq(Items)
  BY DEF WireInv, WireTyped
<1>2. /\ item \in Items /\ bytes \in Seq(Nat) /\ bytes # <<>> /\ parts \in Stack
      /\ Opens(Head(todo).kind, item, bytes, Pending(parts))
  BY DEF Written
<1>3. /\ todo' = parts \o Pop(todo) /\ wire' = wire \o bytes
      /\ sent' = Append(sent, item)
      /\ UNCHANGED <<inner, expected, left, after>>
  BY DEF Written, Emit
<1>4. /\ todo' \in Stack
      /\ Pending(parts) \in Plain
      /\ Pending(parts \o Pop(todo)) = Pending(parts) \o Pop(Pending(todo))
      /\ Pending(parts) \o Pop(Pending(todo)) \in Plain
  BY <1>1, <1>2, <1>3, PendingParts
<1> DEFINE to == Pending(todo)
<1>5. to \in Plain /\ to # <<>> /\ Head(to).kind = Head(todo).kind
  BY <1>1, PendingTasks, PendingPop
<1>6. Path(expected \o after, sent, wire, to)
  BY DEF WireInv, OnWire
<1>7. Path(expected \o after, Append(sent, item), wire \o bytes,
           Pending(parts) \o Pop(to))
  <2> DEFINE q == Pending(parts)
  <2>1. q \in Plain /\ q \o Pop(to) \in Plain
    BY <1>4
  <2>2. Opens(Head(to).kind, item, bytes, q)
    BY Zenon, <1>2, <1>5
  <2> HIDE DEF q, to
  <2>3. Path(expected \o after, Append(sent, item), wire \o bytes, q \o Pop(to))
    BY Zenon, <1>1, <1>2, <1>5, <1>6, <2>1, <2>2, PathExtended
  <2> QED BY Zenon, <2>3 DEF q
<1>8. OnWire'
  <2>1. Pending(todo)' = Pending(todo')
    BY DEF Pending, Task
  <2>2. Path(expected \o after, sent, wire, Pending(todo))'
          <=> Path((expected \o after)', sent', wire', Pending(todo)')
    OBVIOUS
  <2>3. (expected \o after)' = expected \o after
    BY <1>3
  <2>4. Pending(todo)' = Pending(parts) \o Pop(to)
    BY Zenon, <1>3, <1>4, <2>1
  <2>5. Path((expected \o after)', sent', wire', Pending(todo)')
    BY Zenon, <1>3, <1>7, <2>3, <2>4
  <2> QED BY Zenon, <2>2, <2>5 DEF OnWire
<1>9. WireTyped'
  <2>1. wire' \in Seq(Nat)
    BY <1>1, <1>2, <1>3, ConcatProperties
  <2>2. sent' \in Seq(Items)
    BY <1>1, <1>2, <1>3, AppendProperties
  <2> QED BY <1>3, <1>4, <2>1, <2>2 DEF WireInv, WireTyped
<1>10. InBuffer'
  BY <1>3 DEF InBuffer
<1> QED BY <1>8, <1>9, <1>10 DEF WireInv

LEMMA WrittenInBuffer ==
  ASSUME WireInv, todo # <<>>, inner.open,
         NEW item, NEW bytes, NEW parts, Written(item, bytes, parts)
  PROVE  WireInv'
<1>1. /\ todo \in Stack
      /\ inner \in [open : BOOLEAN, bytes : Seq(Nat), items : Seq(Items), after : Stack]
  BY DEF WireInv, WireTyped
<1> DEFINE b == inner.bytes
<1> DEFINE it == inner.items
<1> DEFINE below == inner.after
<1>2. b \in Seq(Nat) /\ it \in Seq(Items) /\ below \in Stack
  BY <1>1
<1>3. /\ item \in Items /\ bytes \in Seq(Nat) /\ bytes # <<>> /\ parts \in Stack
      /\ Opens(Head(todo).kind, item, bytes, Pending(parts))
  BY DEF Written
<1>4. /\ todo' = parts \o Pop(todo)
      /\ inner' = [inner EXCEPT !.bytes = @ \o bytes, !.items = Append(@, item)]
      /\ UNCHANGED <<wire, sent, expected, left, after>>
  BY DEF Written, Emit
<1>5. /\ inner'.open = inner.open /\ inner'.after = below
      /\ inner'.bytes = b \o bytes /\ inner'.items = Append(it, item)
  BY <1>1, <1>4
<1>6. PICK e : /\ Program(e)
               /\ Path(expected \o after, sent, wire, e)
               /\ Path(Inside \o Pop(e), it, b, Pending(todo \o below))
  BY DEF WireInv, InBuffer
<1> DEFINE s == todo \o below
<1>7. s \in Stack /\ s # <<>> /\ Head(s) = Head(todo) /\ Pop(s) = Pop(todo) \o below
  <2>1. s \in Stack
    BY <1>1, <1>2, PendingConcat
  <2>2. s # <<>> /\ Head(s) = Head(todo) /\ Pop(s) = Pop(todo) \o below
    BY <1>1, <1>2, PopAbove DEF Stack
  <2> QED BY <2>1, <2>2
<1>8. Pop(todo) \in Stack
  BY <1>1, PendingPop
<1>9. parts \o Pop(s) = (parts \o Pop(todo)) \o below
  <2>1. (parts \o Pop(todo)) \o below = parts \o (Pop(todo) \o below)
    BY Zenon, <1>2, <1>3, <1>8, StackAssociative
  <2> QED BY Zenon, <1>7, <2>1
<1> HIDE DEF s
<1>10. /\ Pending(parts) \in Plain
       /\ Pending(parts \o Pop(s)) = Pending(parts) \o Pop(Pending(s))
       /\ Pending(parts) \o Pop(Pending(s)) \in Plain
  BY <1>3, <1>7, PendingParts
<1> DEFINE to == Pending(s)
<1>11. to \in Plain /\ to # <<>> /\ Head(to).kind = Head(todo).kind
  BY <1>7, PendingTasks, PendingPop
<1>12. Path(Inside \o Pop(e), Append(it, item), b \o bytes, Pending(parts) \o Pop(to))
  <2> DEFINE q == Pending(parts)
  <2>1. q \in Plain /\ q \o Pop(to) \in Plain
    BY <1>10
  <2>2. Opens(Head(to).kind, item, bytes, q)
    BY Zenon, <1>3, <1>11
  <2>3. Path(Inside \o Pop(e), it, b, to)
    BY Zenon, <1>6 DEF s
  <2> HIDE DEF q, to, it, b
  <2>4. it \in Seq(Items) /\ b \in Seq(Nat)
    BY Zenon, <1>2 DEF it, b
  <2>5. Path(Inside \o Pop(e), Append(it, item), b \o bytes, q \o Pop(to))
    BY Zenon, <1>3, <1>11, <2>1, <2>2, <2>3, <2>4, PathExtended
  <2> QED BY Zenon, <2>5 DEF q
<1>13. Pending(parts) \o Pop(to) = Pending(todo' \o below)
  BY Zenon, <1>4, <1>9, <1>10
<1>14. InBuffer'
  <2>1. Pending(todo \o inner.after)' = Pending(todo' \o below)
    <3>1. Pending(todo \o inner.after)' = Pending(todo' \o inner'.after)
      BY DEF Pending, Task
    <3> QED BY Zenon, <1>5, <3>1
  <2>2. Program(e)'
    <3>1. Pending(inner.after)' = Pending(inner'.after)
      BY DEF Pending, Task
    <3>2. Pending(inner.after)' = Pending(below)
      BY Zenon, <1>5, <3>1
    <3> QED BY <1>6, <3>2 DEF Program
  <2>3. Path(expected \o after, sent, wire, e)'
    <3>1. (expected \o after)' = expected \o after
      BY <1>4
    <3>2. Path(expected \o after, sent, wire, e)'
            <=> Path((expected \o after)', sent', wire', e)
      OBVIOUS
    <3> QED BY Zenon, <1>4, <1>6, <3>1, <3>2
  <2>4. Path(Inside \o Pop(e), inner.items, inner.bytes, Pending(todo \o inner.after))'
    <3>1. Path(Inside \o Pop(e), inner.items, inner.bytes, Pending(todo \o inner.after))'
            <=> Path(Inside \o Pop(e), inner'.items, inner'.bytes,
                     Pending(todo \o inner.after)')
      OBVIOUS
    <3>2. Path(Inside \o Pop(e), inner'.items, inner'.bytes,
               Pending(todo \o inner.after)')
      BY Zenon, <1>5, <1>12, <1>13, <2>1
    <3> QED BY Zenon, <3>1, <3>2
  <2> QED BY Zenon, <2>2, <2>3, <2>4 DEF InBuffer
<1>15. WireTyped'
  <2>1. b \o bytes \in Seq(Nat)
    <3> HIDE DEF b
    <3> QED BY <1>2, <1>3, ConcatProperties
  <2>2. Append(it, item) \in Seq(Items)
    <3> HIDE DEF it
    <3> QED BY <1>2, <1>3, AppendProperties
  <2>3. todo' \in Stack
    BY <1>1, <1>3, <1>4, PendingParts
  <2>4. inner' \in [open : BOOLEAN, bytes : Seq(Nat), items : Seq(Items), after : Stack]
    <3> HIDE DEF b, it
    <3>1. inner' = [inner EXCEPT !.bytes = b \o bytes, !.items = Append(it, item)]
      BY <1>4 DEF b, it
    <3> QED BY <1>1, <2>1, <2>2, <3>1
  <2>5. /\ expected' \in Plain /\ after' \in Plain /\ wire' \in Seq(Nat)
        /\ sent' \in Seq(Items) /\ left' \in Int /\ (left' = -1 => after' = <<>>)
    BY <1>4 DEF WireInv, WireTyped
  <2> QED BY <2>3, <2>4, <2>5 DEF WireTyped
<1>16. OnWire'
  BY <1>5 DEF OnWire
<1> QED BY <1>14, <1>15, <1>16 DEF WireInv

(* The buffer of Symbols: what comes next in it,                            *)
LEMMA InsidePop ==
  ASSUME NEW s \in Plain
  PROVE  /\ Inside \in Plain
         /\ Inside \o s \in Plain
         /\ Inside \o s # <<>>
         /\ Head(Inside \o s).kind = Contents
         /\ Pop(Inside \o s) = s
<1>1. Task(Contents, 1, 0) \in TasksOf({0})
  BY DEF Task, TasksOf
<1>2. Inside \in Plain /\ Inside # <<>> /\ Len(Inside) = 1
      /\ Head(Inside) = Task(Contents, 1, 0)
  BY <1>1 DEF Inside, Plain
<1>3. Inside \o s # <<>> /\ Head(Inside \o s) = Head(Inside)
      /\ Pop(Inside \o s) = Pop(Inside) \o s
  BY <1>2, PopAbove DEF Plain
<1>4. Pop(Inside) = <<>>
  <2>1. Head(Inside).count = 1
    BY <1>2 DEF Task
  <2>2. Pop(Inside) = Tail(Inside)
    BY <2>1 DEF Pop
  <2>3. Tail(Inside) = <<>>
    <3>1. Tail(Inside) \in Plain /\ Len(Tail(Inside)) = 0
      BY <1>2, HeadTailProperties DEF Plain
    <3> QED BY <3>1, EmptySeq DEF Plain
  <2> QED BY <2>2, <2>3
<1>5. <<>> \o s = s
  BY ConcatEmptySeq DEF Plain
<1>6. Inside \o s \in Plain
  BY <1>2, ConcatProperties DEF Plain
<1>7. Head(Inside \o s).kind = Contents
  BY <1>2, <1>3 DEF Task
<1> QED BY <1>2, <1>3, <1>4, <1>5, <1>6, <1>7

(* the functions and the sorts.                                             *)
LEMMA SymbolsFieldsTyped ==
  /\ SymbolsFields \in Seq(Kinds)
  /\ Tasks(SymbolsFields, 0) \in Plain
<1>1. Vec("FunDef") \in Kinds /\ Vec("ADTSort") \in Kinds
  <2>1. "FunDef" \in Sorts /\ "ADTSort" \in Sorts
    <3>1. {"FunDef", "ADTSort"} \subseteq DOMAIN Schema
      BY SMT, SchemaAssumption
    <3> QED BY <3>1 DEF Sorts
  <2>2. \A sort \in Sorts : Vec(sort) \in Kinds
    <3> SUFFICES ASSUME NEW sort \in Sorts PROVE Vec(sort) \in Kinds
      OBVIOUS
    <3>1. <<sort>> \in Seq(Sorts) /\ <<sort>> # <<>>
      OBVIOUS
    <3> QED BY <3>1 DEF Vec, Kinds
  <2> QED BY <2>1, <2>2
<1>2. SymbolsFields \in Seq(Kinds)
  BY <1>1 DEF SymbolsFields
<1>3. 0 \in Nat
  OBVIOUS
<1>4. Tasks(SymbolsFields, 0) \in Stack /\ Pending(Tasks(SymbolsFields, 0)) = Tasks(SymbolsFields, 0)
  BY <1>2, <1>3, TasksPending
<1>5. Tasks(SymbolsFields, 0) \in Plain
  BY <1>4, PendingTasks
<1> QED BY <1>2, <1>5

LEMMA SymbolsWritten ==
  ASSUME WireInv, WriteSymbols
  PROVE  WireInv'
<1>1. /\ todo \in Stack
      /\ inner \in [open : BOOLEAN, bytes : Seq(Nat), items : Seq(Items), after : Stack]
  BY DEF WireInv, WireTyped
<1>2. /\ todo # <<>> /\ Head(todo).kind.form = "one"
      /\ Head(todo).kind.of[1] = "Symbols" /\ ~inner.open
  BY DEF WriteSymbols, IsForm, SortOf
<1> DEFINE item == Item("tuple", <<2>>)
<1> DEFINE b == <<TUPLE, 2>>
<1> DEFINE below == Pop(todo)
<1>3. /\ inner' = [open |-> TRUE, bytes |-> b, items |-> <<item>>, after |-> below]
      /\ todo' = Tasks(SymbolsFields, Less(Head(todo).fuel))
      /\ UNCHANGED <<wire, expected, left, after, sent>>
  BY DEF WriteSymbols
<1>4. /\ inner'.open = TRUE /\ inner'.bytes = b
      /\ inner'.items = <<item>> /\ inner'.after = below
  BY <1>3
<1>5. below \in Stack /\ Pending(below) = Pop(Pending(todo))
  BY <1>1, <1>2, PendingPop
<1> DEFINE e == Pending(todo)
<1>6. e \in Plain /\ e # <<>> /\ Head(e).kind = Head(todo).kind
  BY <1>1, <1>2, PendingTasks, PendingPop
<1>7. Path(expected \o after, sent, wire, e)
  BY <1>2 DEF WireInv, OnWire
<1> DEFINE q == Tasks(SymbolsFields, 0)
<1>8. todo' \in Stack /\ Pending(todo') = q
  <2>1. Head(todo).fuel \in Nat
    BY <1>1, <1>2, HeadTask DEF Stack
  <2>2. Less(Head(todo).fuel) \in Nat
    BY <2>1, LessNat
  <2> QED BY <1>3, <2>2, SymbolsFieldsTyped, TasksPending
<1>9. item \in Items /\ b \in Seq(Nat) /\ b # <<>> /\ q \in Plain
  <2>1. item \in Items
    BY NumberTyped
  <2>2. b \in Seq(Nat) /\ b # <<>>
    BY DEF TUPLE
  <2> QED BY <2>1, <2>2, SymbolsFieldsTyped
<1>10. Pop(e) \in Plain
  BY <1>5, PendingTasks
<1>11. q \o Pop(e) \in Plain
  <2> HIDE DEF q, e
  <2> QED BY <1>9, <1>10, ConcatProperties DEF Plain
<1>12. Path(Inside \o Pop(e), <<item>>, b, q \o Pop(e))
  <2> DEFINE s == Inside \o Pop(e)
  <2>1. s \in Plain /\ s # <<>> /\ Head(s).kind = Contents /\ Pop(s) = Pop(e)
    BY <1>10, InsidePop
  <2>2. Opens(Contents, item, b, q)
    BY DEF Opens, OpensContents, Contents
  <2> HIDE DEF s, q, e, item, b
  <2>3. b \o <<>> = b
    BY <1>9, ConcatEmptySeq
  <2>4. Link(s, item, b, q \o Pop(e), <<>>)
    BY Zenon, <1>9, <2>1, <2>2, <2>3 DEF Link
  <2>5. Path(s, <<item>>, b, q \o Pop(e))
    BY Zenon, <1>9, <1>11, <2>1, <2>4, PathOne
  <2> QED BY Zenon, <2>5 DEF s
<1>13. Pending(todo' \o below) = q \o Pop(e)
  <2>1. Pending(todo' \o below) = Pending(todo') \o Pending(below)
    BY Zenon, <1>5, <1>8, PendingConcat
  <2> QED BY Zenon, <1>5, <1>8, <2>1
<1> HIDE DEF e, q, item, b, below
<1>14. InBuffer'
  <2>1. Pending(todo \o inner.after)' = Pending(todo' \o below)
    <3>1. Pending(todo \o inner.after)' = Pending(todo' \o inner'.after)
      BY DEF Pending, Task
    <3> QED BY Zenon, <1>4, <3>1
  <2>2. \A f : f = e => Program(f)'
    <3>1. Pending(inner.after)' = Pending(inner'.after)
      BY DEF Pending, Task
    <3>2. Pending(inner.after)' = Pending(below)
      BY Zenon, <1>4, <3>1
    <3>3. Pop(e) = Pending(below)
      BY <1>5 DEF e
    <3> QED BY <1>2, <1>6, <3>2, <3>3 DEF Program
  <2>3. (expected \o after)' = expected \o after
    BY <1>3
  <2>4. \A f : f = e => Path(expected \o after, sent, wire, f)'
    <3>1. \A f : Path(expected \o after, sent, wire, f)'
                   <=> Path((expected \o after)', sent', wire', f)
      OBVIOUS
    <3> QED BY Zenon, <1>3, <1>7, <2>3, <3>1
  <2>5. \A f : f = e => Path(Inside \o Pop(f), inner.items, inner.bytes,
                             Pending(todo \o inner.after))'
    <3>1. \A f : Path(Inside \o Pop(f), inner.items, inner.bytes,
                      Pending(todo \o inner.after))'
                   <=> Path(Inside \o Pop(f), inner'.items, inner'.bytes,
                            Pending(todo \o inner.after)')
      OBVIOUS
    <3>2. Path(Inside \o Pop(e), inner'.items, inner'.bytes,
               Pending(todo \o inner.after)')
      BY Zenon, <1>4, <1>12, <1>13, <2>1
    <3> QED BY Zenon, <3>1, <3>2
  <2> QED BY Zenon, <2>2, <2>4, <2>5 DEF InBuffer
<1>15. WireTyped'
  <2>1. <<item>> \in Seq(Items)
    BY <1>9
  <2>2. inner' \in [open : BOOLEAN, bytes : Seq(Nat), items : Seq(Items), after : Stack]
    <3>1. below \in Stack
      BY <1>5 DEF below
    <3> QED BY <1>3, <1>9, <2>1, <3>1
  <2>3. /\ expected' \in Plain /\ after' \in Plain /\ wire' \in Seq(Nat)
        /\ sent' \in Seq(Items) /\ left' \in Int /\ (left' = -1 => after' = <<>>)
    BY <1>3 DEF WireInv, WireTyped
  <2> QED BY <1>8, <2>2, <2>3 DEF WireTyped
<1>16. OnWire'
  BY <1>4 DEF OnWire
<1> QED BY <1>14, <1>15, <1>16 DEF WireInv

(* The buffer is put on the wire.                                           *)
LEMMA BufferWritten ==
  ASSUME WireInv, WriteBuffer
  PROVE  WireInv'
<1>1. /\ inner.open /\ todo = <<>>
      /\ inner' = Closed /\ todo' = inner.after
      /\ UNCHANGED <<expected, left, after>>
  BY DEF WriteBuffer
<1> DEFINE n == Len(inner.bytes)
<1>2. /\ n <= MaxInt
      /\ wire' = wire \o <<SERIALIZATION_BUFFER>> \o PrimitiveBytes("Int", <<n>>) \o inner.bytes
      /\ sent' = sent \o <<Item("buffer", <<n>>)>> \o inner.items
  BY DEF WriteBuffer
<1> DEFINE b == inner.bytes
<1> DEFINE it == inner.items
<1> DEFINE below == inner.after
<1>3. /\ b \in Seq(Nat) /\ it \in Seq(Items) /\ below \in Stack
      /\ wire \in Seq(Nat) /\ sent \in Seq(Items)
  BY DEF WireInv, WireTyped
<1>4. PICK e : /\ Program(e)
               /\ Path(expected \o after, sent, wire, e)
               /\ Path(Inside \o Pop(e), it, b, Pending(todo \o below))
  BY <1>1 DEF WireInv, InBuffer
<1>5. /\ e \in Plain /\ e # <<>> /\ Head(e).kind.form = "one"
      /\ Head(e).kind.of[1] = "Symbols" /\ Pop(e) = Pending(below)
  BY <1>4 DEF Program
<1>6. n \in 0 .. MaxInt /\ n \in Nat
  <2>1. n \in Nat
    <3> HIDE DEF b
    <3>1. Len(b) \in Nat
      BY <1>3, LenProperties
    <3> QED BY <3>1 DEF b
  <2>2. \A k \in Nat : k <= MaxInt => k \in 0 .. MaxInt
    BY MaxIntNat
  <2> QED BY Zenon, <1>2, <2>1, <2>2
<1> DEFINE item == Item("buffer", <<n>>)
<1> DEFINE p == PrimitiveBytes("Int", <<n>>)
<1> DEFINE h == <<SERIALIZATION_BUFFER>>
<1>7. item \in Items
  <2> HIDE DEF n
  <2> QED BY <1>6, NumberTyped
<1>8. h \in Seq(Nat) /\ h # <<>>
  BY DEF SERIALIZATION_BUFFER
<1>9. p \in Seq(Nat)
  <2> HIDE DEF n
  <2> QED BY <1>6, IntBytes
<1>10. OpensBuffer(Head(e).kind, item, h \o p, Inside)
  <2> HIDE DEF n
  <2> QED BY <1>5, <1>6 DEF OpensBuffer, Inside
<1> HIDE DEF n, item, p, h, b, it, below
<1>11. h \o p \in Seq(Nat) /\ h \o p # <<>>
  BY Zenon, <1>8, <1>9, MoreBytes
<1>12. Pop(e) \in Plain
  BY <1>3, <1>5, PendingTasks
<1>13. Inside \in Plain /\ Inside \o Pop(e) \in Plain
  BY <1>12, InsidePop
<1>14. Path(expected \o after, Append(sent, item), wire \o (h \o p), Inside \o Pop(e))
  <2> DEFINE bytes == h \o p
  <2>1. bytes \in Seq(Nat) /\ bytes # <<>>
    BY Zenon, <1>11
  <2>2. Opens(Head(e).kind, item, bytes, Inside)
    BY Zenon, <1>10 DEF Opens
  <2> HIDE DEF bytes
  <2>3. Path(expected \o after, Append(sent, item), wire \o bytes, Inside \o Pop(e))
    BY Zenon, <1>3, <1>4, <1>5, <1>7, <1>13, <2>1, <2>2, PathExtended
  <2> QED BY Zenon, <2>3 DEF bytes
<1>15. Append(sent, item) \in Seq(Items) /\ Append(sent, item) = sent \o <<item>>
  BY <1>3, <1>7, AppendProperties, AppendIsConcat
<1>16. wire \o (h \o p) \in Seq(Nat) /\ wire \o (h \o p) = (wire \o h) \o p
  <2> DEFINE bytes == h \o p
  <2>1. bytes \in Seq(Nat)
    BY Zenon, <1>11
  <2>2. (wire \o h) \o p = wire \o bytes
    BY Zenon, <1>3, <1>8, <1>9, Associative
  <2> HIDE DEF bytes
  <2>3. wire \o bytes \in Seq(Nat)
    BY <1>3, <2>1, ConcatProperties
  <2> QED BY Zenon, <2>2, <2>3 DEF bytes
<1>17. <<>> \o below = below
  BY <1>3, ConcatEmptySeq DEF Stack
<1>18. Path(expected \o after, Append(sent, item) \o it, (wire \o (h \o p)) \o b, Pending(below))
  <2>1. Path(Inside \o Pop(e), it, b, Pending(below))
    BY Zenon, <1>1, <1>4, <1>17
  <2> DEFINE v == wire \o (h \o p)
  <2> DEFINE x == Append(sent, item)
  <2>2. v \in Seq(Nat) /\ x \in Seq(Items) /\ Path(expected \o after, x, v, Inside \o Pop(e))
    BY Zenon, <1>14, <1>15, <1>16
  <2> HIDE DEF v, x
  <2>3. Path(expected \o after, x \o it, v \o b, Pending(below))
    BY Zenon, <1>3, <2>1, <2>2, PathConcat
  <2> QED BY Zenon, <2>3 DEF v, x
<1>19. sent' = Append(sent, item) \o it /\ wire' = (wire \o (h \o p)) \o b
  <2>1. sent' = (sent \o <<item>>) \o it
    BY <1>2 DEF item, it
  <2>2. wire' = ((wire \o h) \o p) \o b
    BY <1>2 DEF h, p, b, n
  <2> QED BY Zenon, <1>15, <1>16, <2>1, <2>2
<1>20. todo' = below
  BY <1>1 DEF below
<1>21. OnWire'
  <2>1. Pending(todo)' = Pending(below)
    <3>1. Pending(todo)' = Pending(todo')
      BY DEF Pending, Task
    <3> QED BY Zenon, <1>20, <3>1
  <2>2. (expected \o after)' = expected \o after
    BY <1>1
  <2>3. Path(expected \o after, sent, wire, Pending(todo))'
          <=> Path((expected \o after)', sent', wire', Pending(todo)')
    OBVIOUS
  <2>4. Path((expected \o after)', sent', wire', Pending(todo)')
    BY Zenon, <1>18, <1>19, <2>1, <2>2
  <2> QED BY Zenon, <2>3, <2>4 DEF OnWire
<1>22. WireTyped'
  <2>1. wire' \in Seq(Nat)
    <3> DEFINE v == wire \o (h \o p)
    <3>1. v \in Seq(Nat)
      BY Zenon, <1>16
    <3> HIDE DEF v
    <3>2. v \o b \in Seq(Nat)
      BY <1>3, <3>1, ConcatProperties
    <3> QED BY Zenon, <1>19, <3>2 DEF v
  <2>2. sent' \in Seq(Items)
    <3> DEFINE x == Append(sent, item)
    <3>1. x \in Seq(Items)
      BY Zenon, <1>15
    <3> HIDE DEF x
    <3>2. x \o it \in Seq(Items)
      BY <1>3, <3>1, ConcatProperties
    <3> QED BY Zenon, <1>19, <3>2 DEF x
  <2>3. todo' \in Stack
    BY <1>3, <1>20
  <2>4. inner' \in [open : BOOLEAN, bytes : Seq(Nat), items : Seq(Items), after : Stack]
    BY <1>1 DEF Closed, Stack
  <2>5. /\ expected' \in Plain /\ after' \in Plain
        /\ left' \in Int /\ (left' = -1 => after' = <<>>)
    BY <1>1 DEF WireInv, WireTyped
  <2> QED BY <2>1, <2>2, <2>3, <2>4, <2>5 DEF WireTyped
<1>23. InBuffer'
  <2>1. ~inner'.open
    BY <1>1 DEF Closed
  <2> QED BY <2>1 DEF InBuffer
<1> QED BY <1>21, <1>22, <1>23 DEF WireInv

-----------------------------------------------------------------------------
(* The reader's steps take the first node off the path.                     *)

(* The bytes of the next node are on the wire.                              *)
Comes(item, bytes, rest, parts) ==
  /\ bytes \in Seq(Nat) /\ bytes # <<>>
  /\ rest \in Seq(Nat)
  /\ parts \in Plain
  /\ wire = bytes \o rest
  /\ Opens(Head(expected).kind, item, bytes, parts)

(* What a wire begins with.                                                 *)
LEMMA WireStart ==
  ASSUME NEW a \in Seq(Nat), NEW c \in Seq(Nat)
  PROVE  /\ a \o c \in Seq(Nat)
         /\ Len(a \o c) = Len(a) + Len(c)
         /\ Len(a) \in Nat /\ Len(c) \in Nat
         /\ \A i \in 1 .. Len(a) : (a \o c)[i] = a[i]
<1>1. /\ a \o c \in Seq(Nat) /\ Len(a \o c) = Len(a) + Len(c)
      /\ \A i \in 1 .. Len(a) + Len(c) :
           (a \o c)[i] = IF i <= Len(a) THEN a[i] ELSE c[i - Len(a)]
  BY ConcatProperties
<1>2. Len(a) \in Nat /\ Len(c) \in Nat
  BY LenProperties
<1>3. \A i \in 1 .. Len(a) : i \in 1 .. Len(a) + Len(c) /\ i <= Len(a)
  BY <1>2
<1> QED BY <1>1, <1>2, <1>3

LEMMA PrefixStart ==
  ASSUME NEW a \in Seq(Nat), NEW w \in Seq(Nat), IsPrefix(a, w)
  PROVE  /\ Len(a) <= Len(w)
         /\ \A i \in 1 .. Len(a) : w[i] = a[i]
<1>1. Len(a) \in Nat /\ Len(w) \in Nat
  BY LenProperties
<1>2. Len(a) <= Len(w) /\ SubSeq(a, 1, Len(a)) = SubSeq(w, 1, Len(a))
  BY DEF IsPrefix
<1>3. SubSeq(a, 1, Len(a)) = a
  BY SubSeqFull
<1> DEFINE s == SubSeq(w, 1, Len(a))
<1>4. \A i \in 1 .. Len(a) : w[i] \in Nat
  BY <1>1, <1>2, ElementOfSeq
<1>5. \A i \in 1 .. Len(a) - 1 + 1 : s[i] = w[1 + i - 1]
  BY <1>1, <1>4, SubSeqProperties
<1>6. \A i \in 1 .. Len(a) : i \in 1 .. Len(a) - 1 + 1 /\ 1 + i - 1 = i
  BY <1>1
<1>7. s = a
  BY <1>2, <1>3
<1> HIDE DEF s
<1> QED BY <1>2, <1>5, <1>6, <1>7

(* A wire that begins with two numbers.                                     *)
LEMMA TwoStart ==
  ASSUME NEW a \in Nat, NEW b \in Nat, NEW w \in Seq(Nat), IsPrefix(<<a, b>>, w)
  PROVE  w[1] = a /\ w[2] = b /\ Len(w) >= 2
<1> DEFINE s == <<a, b>>
<1>1. s \in Seq(Nat) /\ Len(s) = 2 /\ s[1] = a /\ s[2] = b
  OBVIOUS
<1>2. IsPrefix(s, w)
  OBVIOUS
<1> HIDE DEF s
<1>3. Len(s) <= Len(w) /\ \A i \in 1 .. Len(s) : w[i] = s[i]
  BY <1>1, <1>2, PrefixStart
<1>4. Len(w) \in Nat
  BY LenProperties
<1> QED BY <1>1, <1>3, <1>4

LEMMA TwoBytes ==
  ASSUME NEW a \in Nat, NEW b \in Nat, NEW c \in Seq(Nat)
  PROVE  /\ <<a, b>> \o c \in Seq(Nat)
         /\ (<<a, b>> \o c)[1] = a /\ (<<a, b>> \o c)[2] = b
         /\ Len(<<a, b>>) = 2
<1> DEFINE s == <<a, b>>
<1>1. s \in Seq(Nat) /\ Len(s) = 2 /\ s[1] = a /\ s[2] = b
  OBVIOUS
<1> HIDE DEF s
<1>2. s \o c \in Seq(Nat) /\ \A i \in 1 .. Len(s) : (s \o c)[i] = s[i]
  BY <1>1, WireStart
<1> QED BY <1>1, <1>2 DEF s

(* What each of the reader's steps reads: what was written.                 *)
LEMMA ClassRead ==
  ASSUME expected \in Plain, ReadClass,
         NEW item, NEW bytes, NEW rest, NEW parts, Comes(item, bytes, rest, parts)
  PROVE  Receive(item, Len(bytes), parts)
<1> DEFINE kind == Head(expected).kind
<1> DEFINE sort == SortOf(expected)
<1>1. /\ expected # <<>> /\ kind.form = "one" /\ sort = kind.of[1]
      /\ sort \notin Primitives \cup {"Symbols"}
  BY DEF ReadClass, IsForm, SortOf
<1>2. kind \in Kinds
  BY <1>1, HeadTask DEF Plain
<1>3. sort \in Sorts
  BY <1>1, <1>2, KindParts
<1>4. OpensClass(kind, item, bytes, parts)
  BY <1>1 DEF Comes, Opens, OpensClass, OpensPrimitive, OpensOption, OpensSeq,
              OpensMap, OpensTuple, OpensBuffer, OpensContents
<1>5. PICK c \in Candidates(sort) :
        /\ item = Item(c, <<>>)
        /\ bytes = Header(c)
        /\ parts = Tasks(Schema[c].fields, 0)
  BY <1>1, <1>4 DEF OpensClass
<1>6. PICK d \in Candidates(sort) :
        /\ IsPrefix(Header(d), wire)
        /\ Receive(Item(d, <<>>), Len(Header(d)), Tasks(Schema[d].fields, 0))
  BY DEF ReadClass
<1>7. /\ Header(c) \in Seq(Nat) /\ Header(c) # <<>>
      /\ Head(Header(c)) = Schema[c].marker
      /\ Header(d) \in Seq(Nat) /\ Header(d) # <<>>
      /\ Head(Header(d)) = Schema[d].marker
  BY <1>1, <1>3, <1>5, <1>6, CandidateTyped
<1>8. wire[1] = Schema[c].marker
  <2> DEFINE h == Header(c)
  <2>1. wire = h \o rest /\ h \in Seq(Nat) /\ h # <<>> /\ rest \in Seq(Nat)
    BY <1>5, <1>7 DEF Comes
  <2>2. h[1] = Schema[c].marker
    BY <1>7
  <2> HIDE DEF h
  <2>3. 1 \in 1 .. Len(h)
    BY <2>1, EmptySeq, LenProperties
  <2>4. (h \o rest)[1] = h[1]
    BY <2>1, <2>3, WireStart
  <2> QED BY <2>1, <2>2, <2>4
<1>9. wire[1] = Schema[d].marker
  <2> DEFINE h == Header(d)
  <2>1. h \in Seq(Nat) /\ h # <<>> /\ IsPrefix(h, wire)
    BY <1>6, <1>7
  <2>2. h[1] = Schema[d].marker
    BY <1>7
  <2> HIDE DEF h
  <2>3. wire \in Seq(Nat)
    BY WireStart DEF Comes
  <2>4. 1 \in 1 .. Len(h)
    BY <2>1, EmptySeq, LenProperties
  <2>5. wire[1] = h[1]
    BY <2>1, <2>3, <2>4, PrefixStart
  <2> QED BY <2>2, <2>5
<1>10. c = d
  <2>1. CASE sort \in Enums
    <3>1. Schema[c].marker = Schema[d].marker
      BY <1>8, <1>9
    <3> QED BY <1>5, <1>6, <2>1, <3>1, SchemaAssumption
  <2>2. CASE sort \notin Enums
    <3>1. ClassesOf(sort) = {sort}
      BY <2>2 DEF ClassesOf, Enums
    <3> QED BY <1>5, <1>6, <2>2, <3>1 DEF Candidates
  <2> QED BY <2>1, <2>2
<1> QED BY Zenon, <1>5, <1>6, <1>10

LEMMA PrimitiveComes ==
  ASSUME expected \in Plain, ReadPrimitive,
         NEW item, NEW bytes, NEW rest, NEW parts, Comes(item, bytes, rest, parts)
  PROVE  Receive(item, Len(bytes), parts)
<1> DEFINE kind == Head(expected).kind
<1> DEFINE type == SortOf(expected)
<1>1. /\ expected # <<>> /\ kind.form = "one" /\ type = kind.of[1]
      /\ type \in Primitives
  BY DEF ReadPrimitive, IsForm, SortOf
<1>2. OpensPrimitive(kind, item, bytes, parts)
  <2>1. type # "Symbols"
    BY <1>1 DEF Primitives
  <2> QED BY <1>1, <2>1
          DEF Comes, Opens, OpensClass, OpensPrimitive, OpensOption, OpensSeq,
              OpensMap, OpensTuple, OpensBuffer, OpensContents
<1>3. PICK value \in Values(type) :
        /\ item = Item(type, value)
        /\ bytes = PrimitiveBytes(type, value)
        /\ parts = <<>>
  BY <1>1, <1>2 DEF OpensPrimitive
<1> DEFINE size == PayloadSize(type)
<1>4. Receive(Item(type, Decoded(type, SubSeq(wire, 3, 2 + size))), 2 + size, <<>>)
  BY DEF ReadPrimitive
<1>5. wire = PrimitiveBytes(type, value) \o rest /\ rest \in Seq(Nat)
  BY <1>3 DEF Comes
<1>6. \A t : t = type =>
        /\ PrimitiveId[t] \in Nat
        /\ Payload(t, value) \in Seq(Nat)
        /\ PayloadSize(t) = Len(Payload(t, value))
        /\ SubSeq(wire, 3, 2 + PayloadSize(t)) = Payload(t, value)
        /\ Decoded(t, Payload(t, value)) = value
  <2> SUFFICES ASSUME NEW t, t = type
               PROVE  /\ PrimitiveId[t] \in Nat
                      /\ Payload(t, value) \in Seq(Nat)
                      /\ PayloadSize(t) = Len(Payload(t, value))
                      /\ SubSeq(wire, 3, 2 + PayloadSize(t)) = Payload(t, value)
                      /\ Decoded(t, Payload(t, value)) = value
    OBVIOUS
  <2>1. /\ t \in Primitives /\ value \in Values(t)
        /\ wire = PrimitiveBytes(t, value) \o rest /\ rest \in Seq(Nat)
    BY Zenon, <1>1, <1>3, <1>5
  <2> HIDE DEF type
  <2> QED BY Zenon, <2>1, PrimitiveRead
<1> HIDE DEF type, kind
<1>7. Decoded(type, SubSeq(wire, 3, 2 + size)) = value
  BY Zenon, <1>6
<1>8. Len(bytes) = 2 + size
  <2> DEFINE p == Payload(type, value)
  <2> DEFINE id == PrimitiveId[type]
  <2>1. p \in Seq(Nat) /\ id \in Nat /\ size = Len(p)
    BY Zenon, <1>6
  <2>2. bytes = <<PRIMITIVE, id>> \o p
    BY Zenon, <1>3 DEF PrimitiveBytes
  <2> HIDE DEF p, id, size
  <2> DEFINE h == <<PRIMITIVE, id>>
  <2>3. h \in Seq(Nat) /\ Len(h) = 2
    BY <2>1 DEF PRIMITIVE
  <2> HIDE DEF h
  <2>4. Len(h \o p) = Len(h) + Len(p)
    BY <2>1, <2>3, WireStart
  <2> QED BY <2>1, <2>2, <2>3, <2>4 DEF h
<1> QED BY Zenon, <1>3, <1>4, <1>7, <1>8

LEMMA OptionRead ==
  ASSUME expected \in Plain, ReadOption,
         NEW item, NEW bytes, NEW rest, NEW parts, Comes(item, bytes, rest, parts)
  PROVE  Receive(item, Len(bytes), parts)
<1> DEFINE kind == Head(expected).kind
<1>1. expected # <<>> /\ kind.form = "option"
  BY DEF ReadOption, IsForm
<1>2. OpensOption(kind, item, bytes, parts)
  BY <1>1 DEF Comes, Opens, OpensClass, OpensPrimitive, OpensOption, OpensSeq,
              OpensMap, OpensTuple, OpensBuffer, OpensContents
<1>3. PICK n \in {0, 1} :
        /\ item = Item("option", <<n>>)
        /\ bytes = <<OPTION, n>>
        /\ parts = Repeated(kind, n, 0)
  BY <1>2 DEF OpensOption
<1>4. PICK m \in {0, 1} :
        /\ IsPrefix(<<OPTION, m>>, wire)
        /\ Receive(Item("option", <<m>>), 2, Repeated(kind, m, 0))
  BY DEF ReadOption
<1>5. m \in Nat /\ n \in Nat /\ OPTION \in Nat
  BY <1>3, <1>4 DEF OPTION
<1>6. wire = <<OPTION, n>> \o rest /\ rest \in Seq(Nat)
  BY <1>3 DEF Comes
<1>7. wire \in Seq(Nat) /\ wire[2] = n /\ Len(<<OPTION, n>>) = 2
  BY <1>5, <1>6, TwoBytes
<1>8. wire[2] = m
  BY <1>4, <1>5, <1>7, TwoStart
<1> QED BY <1>3, <1>4, <1>7, <1>8

(* Numbers in a row.                                                        *)
LEMMA JoinedRow ==
  ASSUME NEW s \in Seq(Nat), NEW t \in Seq(Nat), NEW u \in Seq(Nat),
         Len(u) = Len(s) + Len(t),
         \A i \in 1 .. Len(s) : u[i] = s[i],
         \A i \in 1 .. Len(t) : u[Len(s) + i] = t[i]
  PROVE  s \o t = u
<1> DEFINE w == s \o t
<1>1. /\ w \in Seq(Nat) /\ Len(w) = Len(s) + Len(t)
      /\ \A i \in 1 .. Len(s) + Len(t) :
           w[i] = IF i <= Len(s) THEN s[i] ELSE t[i - Len(s)]
  BY ConcatProperties
<1>2. Len(s) \in Nat /\ Len(t) \in Nat
  BY LenProperties
<1> HIDE DEF w
<1>3. \A i \in 1 .. Len(w) : w[i] = u[i]
  <2> SUFFICES ASSUME NEW i \in 1 .. Len(s) + Len(t) PROVE w[i] = u[i]
    BY <1>1
  <2>1. CASE i <= Len(s)
    <3>1. i \in 1 .. Len(s)
      BY <1>2, <2>1
    <3> QED BY <1>1, <2>1, <3>1
  <2>2. CASE ~(i <= Len(s))
    <3> DEFINE k == i - Len(s)
    <3>1. k \in 1 .. Len(t) /\ Len(s) + k = i
      BY <1>2, <2>2
    <3>2. w[i] = t[k]
      BY <1>1, <2>2
    <3> HIDE DEF k
    <3> QED BY <3>1, <3>2
  <2> QED BY <2>1, <2>2
<1> QED BY <1>1, <1>3, SeqEqual DEF w

LEMMA Joined ==
  ASSUME NEW a \in Nat, NEW b \in Nat
  PROVE  /\ <<a>> \o <<b>> = <<a, b>>
         /\ \A c \in Nat : <<a>> \o <<b, c>> = <<a, b, c>>
<1>1. <<a>> \o <<b>> = <<a, b>>
  <2> DEFINE s == <<a>>
  <2> DEFINE t == <<b>>
  <2> DEFINE u == <<a, b>>
  <2>1. /\ s \in Seq(Nat) /\ Len(s) = 1 /\ s[1] = a
        /\ t \in Seq(Nat) /\ Len(t) = 1 /\ t[1] = b
        /\ u \in Seq(Nat) /\ Len(u) = 2 /\ u[1] = a /\ u[2] = b
    OBVIOUS
  <2> HIDE DEF s, t, u
  <2>2. /\ Len(u) = Len(s) + Len(t)
        /\ \A i \in 1 .. Len(s) : u[i] = s[i]
        /\ \A i \in 1 .. Len(t) : u[Len(s) + i] = t[i]
    BY <2>1
  <2>3. s \o t = u
    BY <2>1, <2>2, JoinedRow
  <2> QED BY Zenon, <2>3 DEF s, t, u
<1>2. ASSUME NEW c \in Nat PROVE <<a>> \o <<b, c>> = <<a, b, c>>
  <2> DEFINE s == <<a>>
  <2> DEFINE t == <<b, c>>
  <2> DEFINE u == <<a, b, c>>
  <2>1. /\ s \in Seq(Nat) /\ Len(s) = 1 /\ s[1] = a
        /\ t \in Seq(Nat) /\ Len(t) = 2 /\ t[1] = b /\ t[2] = c
        /\ u \in Seq(Nat) /\ Len(u) = 3 /\ u[1] = a /\ u[2] = b /\ u[3] = c
    OBVIOUS
  <2> HIDE DEF s, t, u
  <2>2. /\ Len(u) = Len(s) + Len(t)
        /\ \A i \in 1 .. Len(s) : u[i] = s[i]
        /\ \A i \in 1 .. Len(t) : u[Len(s) + i] = t[i]
    BY <2>1
  <2>3. s \o t = u
    BY <2>1, <2>2, JoinedRow
  <2> QED BY Zenon, <2>3 DEF s, t, u
<1> QED BY Zenon, <1>1, <1>2

LEMMA JoinedPairs ==
  ASSUME NEW a \in Nat, NEW b \in Nat, NEW c \in Nat, NEW d \in Nat
  PROVE  <<a, b>> \o <<c, d>> = <<a, b, c, d>>
<1> DEFINE s == <<a, b>>
<1> DEFINE t == <<c, d>>
<1> DEFINE u == <<a, b, c, d>>
<1>1. /\ s \in Seq(Nat) /\ Len(s) = 2 /\ s[1] = a /\ s[2] = b
      /\ t \in Seq(Nat) /\ Len(t) = 2 /\ t[1] = c /\ t[2] = d
      /\ u \in Seq(Nat) /\ Len(u) = 4
      /\ u[1] = a /\ u[2] = b /\ u[3] = c /\ u[4] = d
  OBVIOUS
<1> HIDE DEF s, t, u
<1>2. /\ Len(u) = Len(s) + Len(t)
      /\ \A i \in 1 .. Len(s) : u[i] = s[i]
      /\ \A i \in 1 .. Len(t) : u[Len(s) + i] = t[i]
  BY <1>1
<1>3. s \o t = u
  BY <1>1, <1>2, JoinedRow
<1> QED BY Zenon, <1>3 DEF s, t, u

(* A length: the reader takes the form that was written.                    *)
LengthOnWire(marker, n, rest) == wire = (<<marker>> \o LengthBytes(n)) \o rest

LEMMA LengthComes ==
  ASSUME NEW marker \in Nat, NEW n \in 0 .. MaxInt, NEW rest \in Seq(Nat),
         LengthOnWire(marker, n, rest)
  PROVE  \A header \in LengthsRead(marker) :
           header.n = n /\ header.size = Len(<<marker>> \o LengthBytes(n))
<1>1. n \in Nat
  BY MaxIntNat
<1> SUFFICES ASSUME NEW header \in LengthsRead(marker)
             PROVE  header.n = n /\ header.size = Len(<<marker>> \o LengthBytes(n))
  OBVIOUS
<1> DEFINE long == <<marker, 255, PRIMITIVE, PrimitiveId["Int"]>>
<1>2. PrimitiveId["Int"] = 4 /\ PRIMITIVE = 5
  BY DEF PrimitiveId, PRIMITIVE
<1>3. long \in Seq(Nat) /\ Len(long) = 4
  BY <1>2
<1>6. long[2] = 255
  OBVIOUS
<1>4. CASE n < 255
  <2>1. <<marker>> \o LengthBytes(n) = <<marker, n>>
    <3>1. LengthBytes(n) = <<n>>
      BY Zenon, <1>4 DEF LengthBytes
    <3>2. <<marker>> \o <<n>> = <<marker, n>>
      BY Zenon, <1>1, Joined
    <3> QED BY Zenon, <3>1, <3>2
  <2>2. wire = <<marker, n>> \o rest
    BY Zenon, <2>1 DEF LengthOnWire
  <2>3. wire \in Seq(Nat) /\ wire[2] = n /\ Len(<<marker, n>>) = 2
    <3>1. /\ <<marker, n>> \o rest \in Seq(Nat)
          /\ (<<marker, n>> \o rest)[2] = n /\ Len(<<marker, n>>) = 2
      BY <1>1, TwoBytes
    <3> QED BY Zenon, <2>2, <3>1
  <2>4. ~IsPrefix(long, wire)
    <3> SUFFICES ASSUME IsPrefix(long, wire) PROVE FALSE
      OBVIOUS
    <3> HIDE DEF long
    <3>1. \A i \in 1 .. Len(long) : wire[i] = long[i]
      <4>1. wire \in Seq(Nat)
        BY Zenon, <2>3
      <4> QED BY <1>3, <4>1, PrefixStart
    <3>2. wire[2] = 255
      <4>1. 2 \in 1 .. Len(long)
        BY <1>3
      <4> QED BY <1>6, <3>1, <4>1
    <3> QED BY <1>1, <1>4, <2>3, <3>2
  <2>5. PICK b \in 0 .. 254 : IsPrefix(<<marker, b>>, wire) /\ header = [n |-> b, size |-> 2]
    <3> HIDE DEF long
    <3>1. LengthsRead(marker) = {[n |-> k, size |-> 2] :
             k \in {b \in 0 .. 254 : IsPrefix(<<marker, b>>, wire)}}
      BY Zenon, <2>4 DEF LengthsRead, long
    <3> QED BY <3>1
  <2>6. wire[2] = b
    <3>1. b \in Nat
      OBVIOUS
    <3>2. wire \in Seq(Nat)
      BY Zenon, <2>3
    <3> QED BY <2>5, <3>1, <3>2, TwoStart
  <2> QED BY <2>1, <2>3, <2>5, <2>6
<1>5. CASE ~(n < 255)
  <2> DEFINE p == BigEndian(n, 4)
  <2>1. (p \in Seq(Nat) /\ Len(p) = 4) /\ Signed(p) = n
    BY LengthRead
  <2>2. LengthBytes(n) = <<255>> \o (<<PRIMITIVE, 4>> \o p)
    BY Zenon, <1>5, IntBytes DEF LengthBytes
  <2> HIDE DEF p
  <2>3. <<marker>> \o LengthBytes(n) = long \o p
    <3> DEFINE x == <<marker>>
    <3> DEFINE y == <<255>>
    <3> DEFINE z == <<PRIMITIVE, 4>>
    <3>1. x \in Seq(Nat) /\ y \in Seq(Nat) /\ z \in Seq(Nat)
      BY <1>2
    <3>2. (x \o y) \o z = long
      <4>1. 255 \in Nat /\ 4 \in Nat /\ PRIMITIVE \in Nat
        BY <1>2
      <4>2. (<<marker>> \o <<255>>) \o <<PRIMITIVE, 4>> = <<marker, 255, PRIMITIVE, 4>>
        <5>1. <<marker>> \o <<255>> = <<marker, 255>>
          BY Zenon, <4>1, Joined
        <5>2. <<marker, 255>> \o <<PRIMITIVE, 4>> = <<marker, 255, PRIMITIVE, 4>>
          <6>1. \A a, b, c, d \in Nat : <<a, b>> \o <<c, d>> = <<a, b, c, d>>
            BY Zenon, JoinedPairs
          <6>2. \A d \in Nat : <<marker, 255>> \o <<PRIMITIVE, d>> = <<marker, 255, PRIMITIVE, d>>
            BY ZenonT(30), <4>1, <6>1
          <6> QED BY Zenon, <4>1, <6>2
        <5> QED BY Zenon, <5>1, <5>2
      <4> QED BY Zenon, <1>2, <4>2
    <3>3. x \o y \in Seq(Nat)
      BY <3>1, ConcatProperties
    <3> HIDE DEF x, y, z, long
    <3>4. (x \o y) \o (z \o p) = x \o (y \o (z \o p))
      <4>1. z \o p \in Seq(Nat)
        BY <2>1, <3>1, ConcatProperties
      <4> QED BY ZenonT(30), <3>1, <4>1, Associative
    <3>5. ((x \o y) \o z) \o p = (x \o y) \o (z \o p)
      BY Zenon, <2>1, <3>1, <3>3, Associative
    <3>6. x \o (y \o (z \o p)) = long \o p
      BY Zenon, <3>2, <3>4, <3>5
    <3> QED BY Zenon, <2>2, <3>6 DEF x, y, z
  <2>4. wire = (long \o p) \o rest
    BY Zenon, <2>3 DEF LengthOnWire
  <2> DEFINE s == long \o p
  <2>5. (s \in Seq(Nat) /\ Len(s) = 8) /\ s[2] = 255
    <3> HIDE DEF long
    <3>1. s \in Seq(Nat) /\ Len(s) = Len(long) + Len(p)
          /\ \A i \in 1 .. Len(long) : s[i] = long[i]
      BY <1>3, <2>1, WireStart
    <3> HIDE DEF s
    <3>2. s[2] = 255
      <4>1. 2 \in 1 .. Len(long)
        BY <1>3
      <4> QED BY <1>6, <3>1, <4>1
    <3>3. 4 + 4 = 8
      OBVIOUS
    <3>4. Len(s) = 8
      BY Zenon, <1>3, <2>1, <3>1, <3>3
    <3> QED BY Zenon, <3>1, <3>2, <3>4
  <2>6. wire[2] = 255 /\ wire \in Seq(Nat)
    <3>1. wire = s \o rest
      BY Zenon, <2>4
    <3> HIDE DEF s
    <3>2. wire \in Seq(Nat) /\ \A i \in 1 .. Len(s) : wire[i] = s[i]
      <4>1. s \in Seq(Nat)
        BY Zenon, <2>5
      <4> QED BY <3>1, <4>1, WireStart
    <3>3. 2 \in 1 .. Len(s)
      <4>1. Len(s) = 8
        BY Zenon, <2>5
      <4> QED BY <4>1
    <3> QED BY <2>5, <3>2, <3>3
  <2>7. SubSeq(wire, 5, 8) = p
    <3> HIDE DEF long
    <3>1. SubSeq((long \o p) \o rest, Len(long) + 1, Len(long) + Len(p)) = p
      BY <1>3, <2>1, PutBetween
    <3>2. 4 + 1 = 5 /\ 4 + 4 = 8
      OBVIOUS
    <3> QED BY Zenon, <1>3, <2>1, <2>4, <3>1, <3>2
  <2>8. header = [n |-> n, size |-> 8]
    <3>1. CASE IsPrefix(long, wire)
      <4> HIDE DEF long
      <4>1. LengthsRead(marker)
              = IF Len(wire) >= 8
                  THEN {[n |-> Signed(SubSeq(wire, 5, 8)), size |-> 8]} ELSE {}
        BY Zenon, <3>1 DEF LengthsRead, long
      <4>2. header = [n |-> Signed(SubSeq(wire, 5, 8)), size |-> 8]
        BY <4>1
      <4> QED BY Zenon, <2>1, <2>7, <4>2
    <3>2. CASE ~IsPrefix(long, wire)
      <4> HIDE DEF long
      <4>1. LengthsRead(marker) = {[n |-> k, size |-> 2] :
               k \in {b \in 0 .. 254 : IsPrefix(<<marker, b>>, wire)}}
        BY Zenon, <3>2 DEF LengthsRead, long
      <4>2. PICK b \in 0 .. 254 : IsPrefix(<<marker, b>>, wire)
        BY <4>1
      <4>3. b \in Nat /\ b # 255
        OBVIOUS
      <4>4. wire[2] = b
        <5>1. wire \in Seq(Nat)
          BY Zenon, <2>6
        <5> QED BY <4>2, <4>3, <5>1, TwoStart
      <4> QED BY <2>6, <4>3, <4>4
    <3> QED BY <3>1, <3>2
  <2> HIDE DEF s
  <2>9. Len(<<marker>> \o LengthBytes(n)) = 8
    BY <2>3, <2>5 DEF s
  <2> QED BY <2>8, <2>9
<1> QED BY <1>4, <1>5

LEMMA SeqRead ==
  ASSUME expected \in Plain, ReadSeq,
         NEW item, NEW bytes, NEW rest, NEW parts, Comes(item, bytes, rest, parts)
  PROVE  Receive(item, Len(bytes), parts)
<1> DEFINE kind == Head(expected).kind
<1>1. expected # <<>> /\ kind.form = "seq"
  BY DEF ReadSeq, IsForm
<1>2. OpensSeq(kind, item, bytes, parts)
  BY <1>1 DEF Comes, Opens, OpensClass, OpensPrimitive, OpensOption, OpensSeq,
              OpensMap, OpensTuple, OpensBuffer, OpensContents
<1>3. PICK n \in 0 .. MaxInt :
        /\ item = Item("seq", <<n>>)
        /\ bytes = <<SEQ>> \o LengthBytes(n)
        /\ parts = Repeated(kind, n, 0)
  BY <1>2 DEF OpensSeq
<1>4. PICK header \in LengthsRead(SEQ) :
        Receive(Item("seq", <<header.n>>), header.size, Repeated(kind, header.n, 0))
  BY DEF ReadSeq
<1>5. wire = (<<SEQ>> \o LengthBytes(n)) \o rest /\ rest \in Seq(Nat)
  BY Zenon, <1>3 DEF Comes
<1>6. SEQ \in Nat
  BY DEF SEQ
<1>7. header.n = n /\ header.size = Len(<<SEQ>> \o LengthBytes(n))
  BY Zenon, <1>4, <1>5, <1>6, LengthComes DEF LengthOnWire
<1> QED BY Zenon, <1>3, <1>4, <1>7

LEMMA MapRead ==
  ASSUME expected \in Plain, ReadMap,
         NEW item, NEW bytes, NEW rest, NEW parts, Comes(item, bytes, rest, parts)
  PROVE  Receive(item, Len(bytes), parts)
<1> DEFINE kind == Head(expected).kind
<1>1. expected # <<>> /\ kind.form = "map"
  BY DEF ReadMap, IsForm
<1>2. OpensMap(kind, item, bytes, parts)
  BY <1>1 DEF Comes, Opens, OpensClass, OpensPrimitive, OpensOption, OpensSeq,
              OpensMap, OpensTuple, OpensBuffer, OpensContents
<1>3. PICK n \in 0 .. MaxInt :
        /\ item = Item("map", <<n>>)
        /\ bytes = <<MAP>> \o LengthBytes(n)
        /\ parts = Entries(kind, n, 0)
  BY <1>2 DEF OpensMap
<1>4. PICK header \in LengthsRead(MAP) :
        Receive(Item("map", <<header.n>>), header.size, Entries(kind, header.n, 0))
  BY DEF ReadMap
<1>5. wire = (<<MAP>> \o LengthBytes(n)) \o rest /\ rest \in Seq(Nat)
  BY Zenon, <1>3 DEF Comes
<1>6. MAP \in Nat
  BY DEF MAP
<1>7. header.n = n /\ header.size = Len(<<MAP>> \o LengthBytes(n))
  BY Zenon, <1>4, <1>5, <1>6, LengthComes DEF LengthOnWire
<1> QED BY Zenon, <1>3, <1>4, <1>7

LEMMA TupleRead ==
  ASSUME expected \in Plain, ReadTuple,
         NEW item, NEW bytes, NEW rest, NEW parts, Comes(item, bytes, rest, parts)
  PROVE  Receive(item, Len(bytes), parts)
<1> DEFINE kind == Head(expected).kind
<1>1. expected # <<>> /\ kind.form = "tuple"
  BY DEF ReadTuple, IsForm
<1>2. OpensTuple(kind, item, bytes, parts)
  BY <1>1 DEF Comes, Opens, OpensClass, OpensPrimitive, OpensOption, OpensSeq,
              OpensMap, OpensTuple, OpensBuffer, OpensContents
<1>3. Receive(Item("tuple", <<Len(kind.of)>>), 2,
              [i \in DOMAIN kind.of |-> Task(One(kind.of[i]), 1, 0)])
  BY DEF ReadTuple
<1>4. Len(<<TUPLE, Len(kind.of)>>) = 2
  OBVIOUS
<1> HIDE DEF kind
<1> QED BY Zenon, <1>2, <1>3, <1>4 DEF OpensTuple

LEMMA ContentsRead ==
  ASSUME expected \in Plain, ReadContents,
         NEW item, NEW bytes, NEW rest, NEW parts, Comes(item, bytes, rest, parts)
  PROVE  Receive(item, Len(bytes), parts)
<1> DEFINE kind == Head(expected).kind
<1>1. expected # <<>> /\ kind.form = "contents"
  BY DEF ReadContents, IsForm
<1>2. OpensContents(kind, item, bytes, parts)
  BY <1>1 DEF Comes, Opens, OpensClass, OpensPrimitive, OpensOption, OpensSeq,
              OpensMap, OpensTuple, OpensBuffer, OpensContents
<1>3. Receive(Item("tuple", <<2>>), 2, Tasks(SymbolsFields, 0))
  BY DEF ReadContents
<1>4. Len(<<TUPLE, 2>>) = 2
  OBVIOUS
<1> HIDE DEF kind
<1> QED BY Zenon, <1>2, <1>3, <1>4 DEF OpensContents

(* The buffer's length, and that its contents come next.                    *)
LEMMA BufferRead ==
  ASSUME expected \in Plain, ReadBuffer,
         NEW item, NEW bytes, NEW rest, NEW parts, Comes(item, bytes, rest, parts)
  PROVE  /\ got' = item
         /\ wire' = rest
         /\ left' \in Nat
         /\ parts = Inside
<1> DEFINE kind == Head(expected).kind
<1>1. expected # <<>> /\ kind.form = "one" /\ kind.of[1] = "Symbols"
  BY DEF ReadBuffer, IsForm, SortOf
<1>2. OpensBuffer(kind, item, bytes, parts)
  <2>1. "Symbols" \notin Primitives
    BY DEF Primitives
  <2> QED BY <1>1, <2>1
          DEF Comes, Opens, OpensClass, OpensPrimitive, OpensOption, OpensSeq,
              OpensMap, OpensTuple, OpensBuffer, OpensContents
<1>3. PICK n \in 0 .. MaxInt :
        /\ item = Item("buffer", <<n>>)
        /\ bytes = <<SERIALIZATION_BUFFER>> \o PrimitiveBytes("Int", <<n>>)
        /\ parts = <<Task(Contents, 1, 0)>>
  BY <1>2 DEF OpensBuffer
<1>4. /\ left' = Signed(SubSeq(wire, 4, 7))
      /\ got' = Item("buffer", <<Signed(SubSeq(wire, 4, 7))>>)
      /\ wire' = SubSeq(wire, 8, Len(wire))
  BY DEF ReadBuffer
<1>5. n \in Nat
  BY MaxIntNat
<1> DEFINE p == BigEndian(n, 4)
<1> DEFINE h == <<SERIALIZATION_BUFFER, PRIMITIVE, 4>>
<1>6. p \in Seq(Nat) /\ Len(p) = 4 /\ Signed(p) = n
  BY LengthRead
<1>7. h \in Seq(Nat) /\ Len(h) = 3
  BY DEF SERIALIZATION_BUFFER, PRIMITIVE
<1>8. bytes = h \o p
  <2>1. PrimitiveBytes("Int", <<n>>) = <<PRIMITIVE, 4>> \o p
    BY IntBytes
  <2> DEFINE x == <<SERIALIZATION_BUFFER>>
  <2> DEFINE y == <<PRIMITIVE, 4>>
  <2>4. SERIALIZATION_BUFFER \in Nat /\ PRIMITIVE \in Nat /\ 4 \in Nat
    BY DEF SERIALIZATION_BUFFER, PRIMITIVE
  <2>5. x \o y = h
    BY Zenon, <2>4, Joined
  <2>2. x \in Seq(Nat) /\ y \in Seq(Nat) /\ x \o y = h
    BY <2>4, <2>5, FewBytes
  <2> HIDE DEF x, y, p, h
  <2>3. (x \o y) \o p = x \o (y \o p)
    BY Zenon, <1>6, <2>2, Associative
  <2> QED BY Zenon, <1>3, <2>1, <2>2, <2>3 DEF x, y
<1> HIDE DEF p, h
<1>9. wire = (h \o p) \o rest /\ rest \in Seq(Nat)
  BY Zenon, <1>8 DEF Comes
<1>10. SubSeq(wire, 4, 7) = p
  <2>1. SubSeq((h \o p) \o rest, Len(h) + 1, Len(h) + Len(p)) = p
    BY <1>6, <1>7, <1>9, PutBetween
  <2>2. 3 + 1 = 4 /\ 3 + 4 = 7
    OBVIOUS
  <2> QED BY Zenon, <1>6, <1>7, <1>9, <2>1, <2>2
<1>11. SubSeq(wire, 8, Len(wire)) = rest
  <2> DEFINE s == h \o p
  <2>1. s \in Seq(Nat) /\ Len(s) = Len(h) + Len(p)
    BY <1>6, <1>7, WireStart
  <2>2. Len(s) + 1 = 8
    <3> HIDE DEF s
    <3> QED BY <1>6, <1>7, <2>1
  <2>3. wire = s \o rest
    BY Zenon, <1>9
  <2> HIDE DEF s
  <2>4. SubSeq(s \o rest, Len(s) + 1, Len(s \o rest)) = rest
    BY <1>9, <2>1, PutBefore
  <2> QED BY Zenon, <2>2, <2>3, <2>4
<1>12. got' = item /\ left' = n
  BY Zenon, <1>3, <1>4, <1>6, <1>10
<1>13. wire' = rest
  BY Zenon, <1>4, <1>11
<1> QED BY Zenon, <1>3, <1>5, <1>12, <1>13 DEF Inside

(* Nothing is read off an empty wire.                                       *)
LEMMA PrefixNonempty ==
  ASSUME NEW a \in Seq(Nat), a # <<>>, NEW w \in Seq(Nat), IsPrefix(a, w)
  PROVE  w # <<>>
<1>1. Len(a) <= Len(w)
  BY PrefixStart
<1>2. Len(a) \in Nat \ {0}
  BY EmptySeq
<1> SUFFICES ASSUME w = <<>> PROVE FALSE
  OBVIOUS
<1>3. Len(w) = 0
  OBVIOUS
<1> QED BY <1>1, <1>2, <1>3

LEMMA LengthsNonempty ==
  ASSUME NEW marker \in Nat, wire \in Seq(Nat), NEW header \in LengthsRead(marker)
  PROVE  wire # <<>>
<1> DEFINE long == <<marker, 255, PRIMITIVE, PrimitiveId["Int"]>>
<1>1. long \in Seq(Nat) /\ long # <<>>
  BY DEF PrimitiveId, PRIMITIVE
<1> HIDE DEF long
<1>2. CASE IsPrefix(long, wire)
  BY <1>1, <1>2, PrefixNonempty
<1>3. CASE ~IsPrefix(long, wire)
  <2>1. LengthsRead(marker) = {[n |-> k, size |-> 2] :
           k \in {b \in 0 .. 254 : IsPrefix(<<marker, b>>, wire)}}
    BY Zenon, <1>3 DEF LengthsRead, long
  <2>2. PICK b \in 0 .. 254 : IsPrefix(<<marker, b>>, wire)
    BY <2>1
  <2>3. b \in Nat
    OBVIOUS
  <2>4. <<marker, b>> \in Seq(Nat) /\ <<marker, b>> # <<>>
    BY <2>3
  <2> QED BY <2>2, <2>4, PrefixNonempty
<1> QED BY <1>2, <1>3

(* A step of the reader that takes a header.                                *)
Take ==
  \/ ReadClass \/ ReadPrimitive \/ ReadOption \/ ReadSeq \/ ReadMap
  \/ ReadTuple \/ ReadContents

LEMMA TakesBytes ==
  ASSUME expected \in Plain, wire \in Seq(Nat), Take \/ ReadBuffer
  PROVE  expected # <<>> /\ wire # <<>>
<1>1. expected # <<>>
  BY DEF Take, ReadClass, ReadPrimitive, ReadOption, ReadSeq, ReadMap, ReadTuple,
         ReadContents, ReadBuffer, IsForm
<1>2. ASSUME ReadClass PROVE wire # <<>>
  <2> DEFINE sort == SortOf(expected)
  <2>1. /\ sort \notin Primitives \cup {"Symbols"}
        /\ Head(expected).kind.form = "one" /\ sort = Head(expected).kind.of[1]
    BY <1>2 DEF ReadClass, IsForm, SortOf
  <2>2. sort \in Sorts
    <3>1. Head(expected).kind \in Kinds
      BY <1>1, <2>1, HeadTask DEF Plain
    <3> QED BY <2>1, <3>1, KindParts
  <2>3. PICK d \in Candidates(sort) : IsPrefix(Header(d), wire)
    BY <1>2 DEF ReadClass
  <2>4. Header(d) \in Seq(Nat) /\ Header(d) # <<>>
    BY <2>1, <2>2, <2>3, CandidateTyped
  <2> QED BY <2>3, <2>4, PrefixNonempty
<1>3. ASSUME ReadPrimitive PROVE wire # <<>>
  <2> DEFINE type == SortOf(expected)
  <2>1. type \in Primitives /\ IsPrefix(<<PRIMITIVE, PrimitiveId[type]>>, wire)
    BY <1>3 DEF ReadPrimitive
  <2>2. PrimitiveId[type] \in Nat /\ PRIMITIVE \in Nat
    BY <2>1 DEF PrimitiveId, Primitives, PRIMITIVE
  <2>3. <<PRIMITIVE, PrimitiveId[type]>> \in Seq(Nat) /\ <<PRIMITIVE, PrimitiveId[type]>> # <<>>
    BY <2>2
  <2> QED BY <2>1, <2>3, PrefixNonempty
<1>4. ASSUME ReadOption PROVE wire # <<>>
  <2>1. PICK n \in {0, 1} : IsPrefix(<<OPTION, n>>, wire)
    BY <1>4 DEF ReadOption
  <2>2. <<OPTION, n>> \in Seq(Nat) /\ <<OPTION, n>> # <<>>
    BY DEF OPTION
  <2> QED BY <2>1, <2>2, PrefixNonempty
<1>5. ASSUME ReadSeq PROVE wire # <<>>
  <2>1. PICK header \in LengthsRead(SEQ) : TRUE
    BY <1>5 DEF ReadSeq
  <2>2. SEQ \in Nat
    BY DEF SEQ
  <2> QED BY <2>1, <2>2, LengthsNonempty
<1>6. ASSUME ReadMap PROVE wire # <<>>
  <2>1. PICK header \in LengthsRead(MAP) : TRUE
    BY <1>6 DEF ReadMap
  <2>2. MAP \in Nat
    BY DEF MAP
  <2> QED BY <2>1, <2>2, LengthsNonempty
<1>7. ASSUME ReadTuple PROVE wire # <<>>
  <2> DEFINE kind == Head(expected).kind
  <2>1. kind.form = "tuple" /\ IsPrefix(<<TUPLE, Len(kind.of)>>, wire)
    BY <1>7 DEF ReadTuple, IsForm
  <2>2. kind \in Kinds
    BY <1>1, <2>1, HeadTask DEF Plain
  <2>3. Len(kind.of) \in Nat
    BY <2>2, KindParts
  <2>4. <<TUPLE, Len(kind.of)>> \in Seq(Nat) /\ <<TUPLE, Len(kind.of)>> # <<>>
    BY <2>3 DEF TUPLE
  <2> QED BY <2>1, <2>4, PrefixNonempty
<1>8. ASSUME ReadContents PROVE wire # <<>>
  <2>1. IsPrefix(<<TUPLE, 2>>, wire)
    BY <1>8 DEF ReadContents
  <2>2. <<TUPLE, 2>> \in Seq(Nat) /\ <<TUPLE, 2>> # <<>>
    BY DEF TUPLE
  <2> QED BY <2>1, <2>2, PrefixNonempty
<1>9. ASSUME ReadBuffer PROVE wire # <<>>
  <2> DEFINE h == <<SERIALIZATION_BUFFER, PRIMITIVE, PrimitiveId["Int"]>>
  <2>1. IsPrefix(h, wire)
    BY <1>9 DEF ReadBuffer
  <2>2. h \in Seq(Nat) /\ h # <<>>
    BY DEF SERIALIZATION_BUFFER, PRIMITIVE, PrimitiveId
  <2> QED BY <2>1, <2>2, PrefixNonempty
<1> QED BY Zenon, <1>1, <1>2, <1>3, <1>4, <1>5, <1>6, <1>7, <1>8, <1>9 DEF Take

(* What comes next is the first node that was sent.                         *)
LEMMA PathRead ==
  ASSUME WireTyped, expected # <<>>, wire # <<>>,
         NEW to, Path(expected \o after, sent, wire, to)
  PROVE  /\ sent # <<>>
         /\ \E item, bytes, rest, parts :
              /\ item = Head(sent)
              /\ Comes(item, bytes, rest, parts)
              /\ Path(parts \o (Pop(expected) \o after), Tail(sent), rest, to)
<1>1. expected \in Plain /\ after \in Plain /\ sent \in Seq(Items)
  BY DEF WireTyped
<1>2. sent # <<>>
  BY Zenon, <1>1, PathEmpty
<1>3. PICK t \in Plain, rest \in Seq(Nat) :
        /\ Link(expected \o after, Head(sent), wire, t, rest)
        /\ Path(t, Tail(sent), rest, to)
  BY Zenon, <1>1, <1>2, PathHead
<1>4. Head(expected \o after) = Head(expected)
      /\ Pop(expected \o after) = Pop(expected) \o after
  BY <1>1, PopAbove DEF Plain
<1>5. PICK bytes \in Seq(Nat), parts \in Plain :
        /\ bytes # <<>>
        /\ wire = bytes \o rest
        /\ Opens(Head(expected \o after).kind, Head(sent), bytes, parts)
        /\ t = parts \o Pop(expected \o after)
  BY Zenon, <1>3 DEF Link
<1>6. Opens(Head(expected).kind, Head(sent), bytes, parts)
  BY Zenon, <1>4, <1>5
<1>7. Comes(Head(sent), bytes, rest, parts)
  BY Zenon, <1>3, <1>5, <1>6 DEF Comes
<1>8. Path(parts \o (Pop(expected) \o after), Tail(sent), rest, to)
  BY Zenon, <1>3, <1>4, <1>5
<1> QED BY Zenon, <1>2, <1>7, <1>8

(* The first node is read, and the rest of the path is left.                *)
Advances(to) ==
  /\ sent # <<>> /\ got' = Head(sent) /\ sent' = Tail(sent)
  /\ UNCHANGED <<todo, inner>>
  /\ Path((expected \o after)', sent', wire', to)
  /\ expected' \in Plain /\ after' \in Plain /\ wire' \in Seq(Nat)
  /\ sent' \in Seq(Items) /\ left' \in Int /\ (left' = -1 => after' = <<>>)

LEMMA PlainAssociative ==
  \A x, y, z \in Plain : (x \o y) \o z = x \o (y \o z)
  BY ConcatAssociative DEF Plain

LEMMA PlainConcat ==
  \A x, y \in Plain : x \o y \in Plain
  BY ConcatProperties DEF Plain

LEMMA PopPlain ==
  ASSUME NEW s \in Plain, s # <<>>
  PROVE  Pop(s) \in Plain
  BY PopTasks DEF Plain

LEMMA SentTail ==
  ASSUME sent \in Seq(Items), sent # <<>>
  PROVE  /\ SubSeq(sent, 2, Len(sent)) = Tail(sent)
         /\ Tail(sent) \in Seq(Items)
  BY TailIsSubSeq, HeadTailProperties

LEMMA TakeAdvances ==
  ASSUME WireTyped, Take, NEW to, Path(expected \o after, sent, wire, to)
  PROVE  Advances(to)
<1>1. /\ expected \in Plain /\ after \in Plain /\ sent \in Seq(Items)
      /\ wire \in Seq(Nat) /\ left \in Int
      /\ left = -1 => after = <<>>
  BY DEF WireTyped
<1>2. expected # <<>> /\ wire # <<>>
  BY <1>1, TakesBytes
<1>3. sent # <<>> /\ \E item, bytes, rest, parts :
        /\ item = Head(sent)
        /\ Comes(item, bytes, rest, parts)
        /\ Path(parts \o (Pop(expected) \o after), Tail(sent), rest, to)
  BY Zenon, <1>2, PathRead
<1>4. PICK item, bytes, rest, parts :
        /\ item = Head(sent)
        /\ Comes(item, bytes, rest, parts)
        /\ Path(parts \o (Pop(expected) \o after), Tail(sent), rest, to)
  BY Zenon, <1>3
<1>5. Receive(item, Len(bytes), parts)
  BY Zenon, <1>1, <1>4, ClassRead, PrimitiveComes, OptionRead, SeqRead, MapRead,
     TupleRead, ContentsRead DEF Take
<1>6. /\ bytes \in Seq(Nat) /\ rest \in Seq(Nat) /\ parts \in Plain
      /\ wire = bytes \o rest
  BY <1>4 DEF Comes
<1>7. /\ left = -1 \/ Len(bytes) <= left
      /\ left' = IF left = -1 THEN -1 ELSE left - Len(bytes)
      /\ wire' = SubSeq(wire, Len(bytes) + 1, Len(wire))
      /\ expected' = parts \o Pop(expected)
      /\ got' = item
      /\ sent' = SubSeq(sent, 2, Len(sent))
      /\ UNCHANGED <<todo, inner, after>>
  BY <1>5 DEF Receive
<1>8. wire' = rest
  <2>1. SubSeq(bytes \o rest, Len(bytes) + 1, Len(bytes \o rest)) = rest
    BY <1>6, PutBefore
  <2> QED BY Zenon, <1>6, <1>7, <2>1
<1>9. sent' = Tail(sent) /\ sent' \in Seq(Items)
  BY <1>1, <1>3, <1>7, SentTail
<1>10. Pop(expected) \in Plain
  BY <1>1, <1>2, PopPlain
<1>11. (expected \o after)' = parts \o (Pop(expected) \o after)
  <2>1. (expected \o after)' = expected' \o after'
    OBVIOUS
  <2>2. (parts \o Pop(expected)) \o after = parts \o (Pop(expected) \o after)
    BY Zenon, <1>1, <1>6, <1>10, PlainAssociative
  <2>3. after' = after
    BY <1>7
  <2> QED BY Zenon, <1>7, <2>1, <2>2, <2>3
<1>12. expected' \in Plain
  BY Zenon, <1>6, <1>7, <1>10, PlainConcat
<1>13. left' \in Int /\ (left' = -1 => after' = <<>>)
  <2>1. Len(bytes) \in Nat
    BY <1>6, LenProperties
  <2>2. left' \in Int /\ (left' = -1 => left = -1)
    BY <1>1, <1>7, <2>1
  <2>3. after' = after
    BY <1>7
  <2> QED BY <1>1, <2>2, <2>3
<1>14. Path((expected \o after)', sent', wire', to)
  BY Zenon, <1>4, <1>8, <1>9, <1>11
<1>15. got' = Head(sent) /\ UNCHANGED <<todo, inner>> /\ after' \in Plain
  BY <1>1, <1>4, <1>7
<1>16. wire' \in Seq(Nat)
  BY Zenon, <1>6, <1>8
<1> QED BY Zenon, <1>3, <1>9, <1>12, <1>13, <1>14, <1>15, <1>16 DEF Advances

LEMMA BufferAdvances ==
  ASSUME WireTyped, ReadBuffer, NEW to, Path(expected \o after, sent, wire, to)
  PROVE  Advances(to)
<1>1. /\ expected \in Plain /\ after \in Plain /\ sent \in Seq(Items)
      /\ wire \in Seq(Nat) /\ left \in Int
      /\ left = -1 => after = <<>>
  BY DEF WireTyped
<1>2. expected # <<>> /\ wire # <<>>
  BY <1>1, TakesBytes
<1>3. sent # <<>> /\ \E item, bytes, rest, parts :
        /\ item = Head(sent)
        /\ Comes(item, bytes, rest, parts)
        /\ Path(parts \o (Pop(expected) \o after), Tail(sent), rest, to)
  BY Zenon, <1>2, PathRead
<1>4. PICK item, bytes, rest, parts :
        /\ item = Head(sent)
        /\ Comes(item, bytes, rest, parts)
        /\ Path(parts \o (Pop(expected) \o after), Tail(sent), rest, to)
  BY Zenon, <1>3
<1>5. got' = item /\ wire' = rest /\ left' \in Nat /\ parts = Inside
  <2>1. expected \in Plain /\ Comes(item, bytes, rest, parts)
    BY Zenon, <1>1, <1>4
  <2> QED BY <2>1, BufferRead
<1>6. /\ left = -1
      /\ expected' = <<Task(Contents, 1, 0)>>
      /\ after' = Pop(expected)
      /\ sent' = SubSeq(sent, 2, Len(sent))
      /\ UNCHANGED <<todo, inner>>
  BY DEF ReadBuffer
<1>7. rest \in Seq(Nat) /\ parts \in Plain
  BY <1>4 DEF Comes
<1>8. sent' = Tail(sent) /\ sent' \in Seq(Items)
  BY <1>1, <1>3, <1>6, SentTail
<1>9. Pop(expected) \in Plain
  BY <1>1, <1>2, PopPlain
<1>10. Pop(expected) \o after = Pop(expected)
  <2>1. after = <<>>
    BY <1>1, <1>6
  <2> DEFINE q == Pop(expected)
  <2>2. q \in Plain
    BY <1>9
  <2> HIDE DEF q
  <2>3. q \o <<>> = q
    BY <2>2, ConcatEmptySeq DEF Plain
  <2> QED BY Zenon, <2>1, <2>3 DEF q
<1>11. (expected \o after)' = parts \o (Pop(expected) \o after)
  <2>1. (expected \o after)' = expected' \o after'
    OBVIOUS
  <2> QED BY Zenon, <1>5, <1>6, <1>10, <2>1 DEF Inside
<1>12. expected' \in Plain /\ after' \in Plain
  BY Zenon, <1>5, <1>6, <1>7, <1>9 DEF Inside
<1>13. left' \in Int /\ (left' = -1 => after' = <<>>)
  BY <1>5
<1>14. Path((expected \o after)', sent', wire', to)
  BY Zenon, <1>4, <1>5, <1>8, <1>11
<1>15. got' = Head(sent) /\ UNCHANGED <<todo, inner>>
  BY <1>4, <1>5, <1>6
<1> QED BY Zenon, <1>3, <1>5, <1>7, <1>8, <1>12, <1>13, <1>14, <1>15 DEF Advances

(* The end of the buffer.                                                   *)
LEMMA EndRead ==
  ASSUME WireTyped, ReadEnd
  PROVE  /\ UNCHANGED <<todo, inner, wire, sent, got>>
         /\ (expected \o after)' = expected \o after
         /\ expected' \in Plain /\ after' \in Plain
         /\ left' \in Int /\ (left' = -1 => after' = <<>>)
<1>1. /\ expected = <<>> /\ left' = -1 /\ expected' = after /\ after' = <<>>
      /\ UNCHANGED <<todo, inner, wire, sent, got>>
  BY DEF ReadEnd
<1>2. after \in Plain /\ <<>> \in Plain
  BY DEF WireTyped, Plain
<1>3. after \o <<>> = after /\ <<>> \o after = after
  BY <1>2, ConcatEmptySeq DEF Plain
<1>4. (expected \o after)' = expected' \o after'
  OBVIOUS
<1>5. (expected \o after)' = expected \o after
  BY Zenon, <1>1, <1>3, <1>4
<1> QED BY <1>1, <1>2, <1>5

-----------------------------------------------------------------------------
(* The wire as an invariant.                                                *)

LEMMA ReadKeeps ==
  ASSUME WireInv, Take \/ ReadBuffer
  PROVE  WireInv' /\ sent # <<>> /\ got' = Head(sent) /\ sent' = Tail(sent)
<1>1. WireTyped /\ OnWire /\ InBuffer
  BY DEF WireInv
<1>2. ASSUME NEW to, Path(expected \o after, sent, wire, to)
      PROVE  Advances(to)
  BY Zenon, <1>1, <1>2, TakeAdvances, BufferAdvances
<1>3. inner.open \in BOOLEAN /\ todo \in Stack
      /\ inner \in [open : BOOLEAN, bytes : Seq(Nat), items : Seq(Items), after : Stack]
  BY <1>1 DEF WireTyped
<1>4. CASE ~inner.open
  <2> DEFINE to == Pending(todo)
  <2>1. Path(expected \o after, sent, wire, to)
    BY <1>1, <1>4 DEF OnWire
  <2>2. Advances(to)
    BY Zenon, <1>2, <2>1
  <2>3. UNCHANGED <<todo, inner>>
    BY <2>2 DEF Advances
  <2>4. Pending(todo)' = to
    <3>1. Pending(todo)' = Pending(todo')
      BY DEF Pending, Task
    <3> QED BY Zenon, <2>3, <3>1
  <2>5. OnWire'
    <3>1. Path(expected \o after, sent, wire, Pending(todo))'
            <=> Path((expected \o after)', sent', wire', Pending(todo)')
      OBVIOUS
    <3> HIDE DEF to
    <3>2. Path((expected \o after)', sent', wire', to)
      BY Zenon, <2>2 DEF Advances
    <3> QED BY Zenon, <2>4, <3>1, <3>2 DEF OnWire
  <2>6. InBuffer'
    BY <1>4, <2>3 DEF InBuffer
  <2> HIDE DEF to
  <2>7. WireTyped'
    BY <1>3, <2>2, <2>3 DEF Advances, WireTyped
  <2>8. sent # <<>> /\ got' = Head(sent) /\ sent' = Tail(sent)
    BY <2>2 DEF Advances
  <2> QED BY <2>5, <2>6, <2>7, <2>8 DEF WireInv
<1>5. CASE inner.open
  <2>1. PICK e : /\ Program(e)
                 /\ Path(expected \o after, sent, wire, e)
                 /\ Path(Inside \o Pop(e), inner.items, inner.bytes,
                         Pending(todo \o inner.after))
    BY <1>1, <1>5 DEF InBuffer
  <2>2. Advances(e)
    BY Zenon, <1>2, <2>1
  <2>3. UNCHANGED <<todo, inner>>
    BY <2>2 DEF Advances
  <2>4. InBuffer'
    <3>1. Pending(inner.after)' = Pending(inner.after)
      <4>1. Pending(inner.after)' = Pending(inner'.after)
        BY DEF Pending, Task
      <4> QED BY Zenon, <2>3, <4>1
    <3>2. Program(e)'
      BY <2>1, <3>1 DEF Program
    <3>3. Path(expected \o after, sent, wire, e)'
      <4>1. Path(expected \o after, sent, wire, e)'
              <=> Path((expected \o after)', sent', wire', e)
        OBVIOUS
      <4> QED BY Zenon, <2>2, <4>1 DEF Advances
    <3>4. Path(Inside \o Pop(e), inner.items, inner.bytes,
               Pending(todo \o inner.after))'
      <4>1. Pending(todo \o inner.after)' = Pending(todo' \o inner'.after)
        BY DEF Pending, Task
      <4>2. Pending(todo \o inner.after)' = Pending(todo \o inner.after)
        BY Zenon, <2>3, <4>1
      <4>3. Path(Inside \o Pop(e), inner.items, inner.bytes, Pending(todo \o inner.after))'
              <=> Path(Inside \o Pop(e), inner'.items, inner'.bytes,
                       Pending(todo \o inner.after)')
        OBVIOUS
      <4> QED BY Zenon, <2>1, <2>3, <4>2, <4>3
    <3> QED BY Zenon, <3>2, <3>3, <3>4 DEF InBuffer
  <2>5. OnWire'
    BY <1>5, <2>3 DEF OnWire
  <2>6. WireTyped'
    BY <1>3, <2>2, <2>3 DEF Advances, WireTyped
  <2>7. sent # <<>> /\ got' = Head(sent) /\ sent' = Tail(sent)
    BY <2>2 DEF Advances
  <2> QED BY <2>4, <2>5, <2>6, <2>7 DEF WireInv
<1> QED BY <1>3, <1>4, <1>5

LEMMA EndKeeps ==
  ASSUME WireInv, ReadEnd
  PROVE  WireInv' /\ UNCHANGED <<sent, got>>
<1>1. WireTyped /\ OnWire /\ InBuffer
  BY DEF WireInv
<1>2. /\ UNCHANGED <<todo, inner, wire, sent, got>>
      /\ (expected \o after)' = expected \o after
      /\ expected' \in Plain /\ after' \in Plain
      /\ left' \in Int /\ (left' = -1 => after' = <<>>)
  BY <1>1, EndRead
<1>3. WireTyped'
  BY <1>1, <1>2 DEF WireTyped
<1>4. Pending(todo)' = Pending(todo) /\ Pending(inner.after)' = Pending(inner.after)
      /\ Pending(todo \o inner.after)' = Pending(todo \o inner.after)
  BY <1>2 DEF Pending, Task
<1>5. OnWire'
  <2>1. Path(expected \o after, sent, wire, Pending(todo))'
          <=> Path((expected \o after)', sent', wire', Pending(todo)')
    OBVIOUS
  <2>2. inner' = inner /\ sent' = sent /\ wire' = wire
    BY <1>2
  <2>3. SUFFICES ASSUME ~inner.open
                 PROVE  Path(expected \o after, sent, wire, Pending(todo))'
    BY <2>2 DEF OnWire
  <2>4. Path(expected \o after, sent, wire, Pending(todo))
    BY <1>1, <2>3 DEF OnWire
  <2> QED BY Zenon, <1>2, <1>4, <2>1, <2>2, <2>4
<1>6. InBuffer'
  <2>1. inner' = inner /\ sent' = sent /\ wire' = wire
    BY <1>2
  <2>2. SUFFICES ASSUME inner.open PROVE InBuffer'
    BY <2>1 DEF InBuffer
  <2>3. PICK e : /\ Program(e)
                 /\ Path(expected \o after, sent, wire, e)
                 /\ Path(Inside \o Pop(e), inner.items, inner.bytes,
                         Pending(todo \o inner.after))
    BY <1>1, <2>2 DEF InBuffer
  <2>4. Program(e)'
    BY <1>4, <2>3 DEF Program
  <2>5. Path(expected \o after, sent, wire, e)'
    <3>1. Path(expected \o after, sent, wire, e)'
            <=> Path((expected \o after)', sent', wire', e)
      OBVIOUS
    <3> QED BY Zenon, <1>2, <2>1, <2>3, <3>1
  <2>6. Path(Inside \o Pop(e), inner.items, inner.bytes, Pending(todo \o inner.after))'
    <3>1. Path(Inside \o Pop(e), inner.items, inner.bytes, Pending(todo \o inner.after))'
            <=> Path(Inside \o Pop(e), inner'.items, inner'.bytes,
                     Pending(todo \o inner.after)')
      OBVIOUS
    <3> QED BY Zenon, <1>4, <2>1, <2>3, <3>1
  <2> QED BY Zenon, <2>4, <2>5, <2>6 DEF InBuffer
<1> QED BY <1>2, <1>3, <1>5, <1>6 DEF WireInv

(* What the writer adds comes behind what was sent.                         *)
Adds == \E x \in Seq(Items) : x # <<>> /\ sent' = sent \o x

LEMMA WriteKeeps ==
  ASSUME WireInv,
         WriteClass \/ WritePrimitive \/ WriteOption \/ WriteSeq \/ WriteMap \/ WriteTuple
  PROVE  WireInv' /\ (Adds \/ UNCHANGED sent) /\ UNCHANGED got
<1>1. todo \in Stack /\ sent \in Seq(Items)
      /\ inner \in [open : BOOLEAN, bytes : Seq(Nat), items : Seq(Items), after : Stack]
  BY DEF WireInv, WireTyped
<1>2. todo # <<>> /\ \E item, bytes, parts : Written(item, bytes, parts)
  BY Zenon, <1>1, ClassWritten, PrimitiveWritten, OptionWritten, SeqWritten,
     MapWritten, TupleWritten
<1>3. PICK item, bytes, parts : Written(item, bytes, parts)
  BY Zenon, <1>2
<1>4. WireInv'
  BY Zenon, <1>2, <1>3, WrittenOnWire, WrittenInBuffer
<1>5. /\ item \in Items
      /\ UNCHANGED got
      /\ sent' = Append(sent, item) \/ UNCHANGED sent
  BY <1>3 DEF Written, Emit
<1>6. sent' = Append(sent, item) => Adds
  <2>1. <<item>> \in Seq(Items) /\ <<item>> # <<>>
    BY <1>5
  <2>2. Append(sent, item) = sent \o <<item>>
    BY <1>1, <1>5, AppendIsConcat
  <2> QED BY Zenon, <2>1, <2>2 DEF Adds
<1> QED BY <1>4, <1>5, <1>6

LEMMA BufferAdds ==
  ASSUME WireInv, WriteBuffer
  PROVE  Adds /\ UNCHANGED got
<1> DEFINE n == Len(inner.bytes)
<1> DEFINE it == inner.items
<1> DEFINE item == Item("buffer", <<n>>)
<1>1. sent \in Seq(Items) /\ it \in Seq(Items) /\ n \in Nat
  <2>1. inner.bytes \in Seq(Nat) /\ it \in Seq(Items) /\ sent \in Seq(Items)
    BY DEF WireInv, WireTyped
  <2> QED BY <2>1, LenProperties
<1>2. sent' = sent \o <<item>> \o it /\ UNCHANGED got
  BY DEF WriteBuffer
<1>3. item \in Items
  <2> HIDE DEF n
  <2> QED BY <1>1, NumberTyped
<1> HIDE DEF n, it, item
<1> DEFINE h == <<item>>
<1>4. h \in Seq(Items) /\ h # <<>>
  BY <1>3
<1> HIDE DEF h
<1>5. h \o it \in Seq(Items) /\ h \o it # <<>>
  BY <1>1, <1>4, ConcatProperties, ConcatEqualIffEmpty
<1>6. (sent \o h) \o it = sent \o (h \o it)
  BY <1>1, <1>4, ConcatAssociative
<1>7. sent' = sent \o (h \o it)
  BY Zenon, <1>2, <1>6 DEF h
<1> QED BY Zenon, <1>2, <1>5, <1>7 DEF Adds

-----------------------------------------------------------------------------
(* The specification.                                                       *)

(* At first nothing is on the wire, and the reader expects what is sent.    *)
LEMMA InitWire ==
  ASSUME Init
  PROVE  WireInv
<1>1. PICK kind \in Roots :
        /\ todo = <<Task(kind, 1, Fuel)>>
        /\ expected = <<Task(kind, 1, 0)>>
  BY DEF Init
<1>2. /\ inner = Closed /\ wire = <<>> /\ left = -1 /\ after = <<>> /\ sent = <<>>
  BY DEF Init
<1>3. kind \in Kinds /\ Fuel \in Nat
  BY SMT, ValuesAssumption
<1> DEFINE K == <<kind>>
<1>4. K \in Seq(Kinds) /\ DOMAIN K = 1 .. 1 /\ K[1] = kind
  BY <1>3
<1>5. \A i \in 1 .. 1 : i = 1
  OBVIOUS
<1>6. \A fuel : Tasks(K, fuel) = <<Task(kind, 1, fuel)>>
  <2> SUFFICES ASSUME NEW fuel PROVE Tasks(K, fuel) = <<Task(kind, 1, fuel)>>
    OBVIOUS
  <2>1. Tasks(K, fuel) = [i \in 1 .. 1 |-> Task(K[i], 1, fuel)]
    BY Zenon, <1>4 DEF Tasks
  <2>2. [i \in 1 .. 1 |-> Task(K[i], 1, fuel)] = [i \in 1 .. 1 |-> Task(kind, 1, fuel)]
    BY <1>4, <1>5
  <2>3. [i \in 1 .. 1 |-> Task(kind, 1, fuel)] = <<Task(kind, 1, fuel)>>
    BY <1>5
  <2> QED BY Zenon, <2>1, <2>2, <2>3
<1> HIDE DEF K
<1>7. todo \in Stack /\ Pending(todo) = expected
  <2>1. Tasks(K, Fuel) \in Stack /\ Pending(Tasks(K, Fuel)) = Tasks(K, 0)
    BY Zenon, <1>3, <1>4, TasksPending
  <2>2. Tasks(K, Fuel) = todo
    BY <1>1, <1>6
  <2>3. Tasks(K, 0) = expected
    BY <1>1, <1>6
  <2> QED BY Zenon, <2>1, <2>2, <2>3
<1>8. expected \in Plain
  BY <1>7, PendingTasks
<1>9. expected \o after = expected
  BY <1>2, <1>8, ConcatEmptySeq DEF Plain
<1>10. /\ Closed \in [open : BOOLEAN, bytes : Seq(Nat), items : Seq(Items), after : Stack]
       /\ ~Closed.open
  BY DEF Closed, Stack
<1>11. WireTyped
  <2>1. after \in Plain /\ sent \in Seq(Items) /\ wire \in Seq(Nat) /\ left \in Int
    BY <1>2 DEF Plain
  <2> QED BY <1>2, <1>7, <1>8, <1>10, <2>1 DEF WireTyped
<1>12. OnWire
  <2>1. Path(expected, <<>>, <<>>, expected)
    BY <1>8, PathNil
  <2> QED BY Zenon, <1>2, <1>7, <1>9, <2>1 DEF OnWire
<1>13. InBuffer
  BY <1>2, <1>10 DEF InBuffer
<1> QED BY <1>11, <1>12, <1>13 DEF WireInv

(* A step that changes nothing.                                             *)
LEMMA WireStutters ==
  ASSUME WireInv, UNCHANGED vars
  PROVE  WireInv'
<1>1. WireTyped /\ OnWire /\ InBuffer
  BY DEF WireInv
<1>2. /\ todo' = todo /\ inner' = inner /\ wire' = wire /\ expected' = expected
      /\ left' = left /\ after' = after /\ sent' = sent
  BY DEF vars
<1>3. WireTyped'
  BY <1>1, <1>2 DEF WireTyped
<1>4. Pending(todo)' = Pending(todo) /\ Pending(inner.after)' = Pending(inner.after)
      /\ Pending(todo \o inner.after)' = Pending(todo \o inner.after)
  BY <1>2 DEF Pending, Task
<1>5. (expected \o after)' = expected \o after
  BY <1>2
<1>6. OnWire'
  <2>1. Path(expected \o after, sent, wire, Pending(todo))'
          <=> Path((expected \o after)', sent', wire', Pending(todo)')
    OBVIOUS
  <2>2. SUFFICES ASSUME ~inner.open
                 PROVE  Path(expected \o after, sent, wire, Pending(todo))'
    BY <1>2 DEF OnWire
  <2>3. Path(expected \o after, sent, wire, Pending(todo))
    BY <1>1, <2>2 DEF OnWire
  <2> QED BY Zenon, <1>2, <1>4, <1>5, <2>1, <2>3
<1>7. InBuffer'
  <2>1. SUFFICES ASSUME inner.open PROVE InBuffer'
    BY <1>2 DEF InBuffer
  <2>2. PICK e : /\ Program(e)
                 /\ Path(expected \o after, sent, wire, e)
                 /\ Path(Inside \o Pop(e), inner.items, inner.bytes,
                         Pending(todo \o inner.after))
    BY <1>1, <2>1 DEF InBuffer
  <2>3. Program(e)'
    BY <1>4, <2>2 DEF Program
  <2>4. Path(expected \o after, sent, wire, e)'
    <3>1. Path(expected \o after, sent, wire, e)'
            <=> Path((expected \o after)', sent', wire', e)
      OBVIOUS
    <3> QED BY Zenon, <1>2, <1>5, <2>2, <3>1
  <2>5. Path(Inside \o Pop(e), inner.items, inner.bytes, Pending(todo \o inner.after))'
    <3>1. Path(Inside \o Pop(e), inner.items, inner.bytes, Pending(todo \o inner.after))'
            <=> Path(Inside \o Pop(e), inner'.items, inner'.bytes,
                     Pending(todo \o inner.after)')
      OBVIOUS
    <3> QED BY Zenon, <1>2, <1>4, <2>2, <3>1
  <2> QED BY Zenon, <2>3, <2>4, <2>5 DEF InBuffer
<1> QED BY <1>3, <1>6, <1>7 DEF WireInv

(* Every step keeps the invariant.                                          *)
LEMMA StepWire ==
  ASSUME WireInv, [Next]_vars
  PROVE  WireInv'
<1>1. CASE Write
  BY <1>1, WriteKeeps, SymbolsWritten, BufferWritten DEF Write
<1>2. CASE Read
  BY <1>2, ReadKeeps, EndKeeps DEF Read, Take
<1>3. CASE UNCHANGED vars
  BY <1>3, WireStutters
<1> QED BY <1>1, <1>2, <1>3 DEF Next

(* Nothing on the wire means that the ends are at the same place.           *)
LEMMA WireInStep ==
  ASSUME WireInv
  PROVE  InStep
<1>1. SUFFICES ASSUME wire = <<>>, ~inner.open
               PROVE  Pending(expected \o after) = Pending(todo)
  BY DEF InStep
<1>2. expected \in Plain /\ after \in Plain /\ sent \in Seq(Items)
  BY DEF WireInv, WireTyped
<1>3. Path(expected \o after, sent, wire, Pending(todo))
  BY <1>1 DEF WireInv, OnWire
<1> DEFINE s == expected \o after
<1> DEFINE t == Pending(todo)
<1>4. s \in Plain
  BY <1>2, PlainConcat
<1>5. Path(s, sent, wire, t)
  BY <1>3
<1> HIDE DEF s, t
<1>6. s = t
  BY Zenon, <1>1, <1>2, <1>5, PathEmpty
<1>7. Pending(s) = s
  BY <1>4, PlainPending
<1> QED BY Zenon, <1>6, <1>7 DEF s, t

(* A step is one of the channel's: nodes are added behind, or the oldest    *)
(* one is read.                                                             *)
LEMMA StepFaithful ==
  ASSUME WireInv, [Next]_vars
  PROVE  [Channel!Send \/ Channel!Receive]_(Channel!vars)
<1>1. sent \in Seq(Items)
  BY DEF WireInv, WireTyped
<1>2. ASSUME Adds, UNCHANGED got PROVE Channel!Send
  <2>1. PICK x \in Seq(Items) : x # <<>> /\ sent' = sent \o x
    BY <1>2 DEF Adds
  <2>2. SubSeq(sent', 1, Len(sent)) = sent
    BY <1>1, <2>1, PutBefore
  <2>3. Len(sent') > Len(sent)
    <3>1. Len(x) \in Nat /\ Len(x) # 0 /\ Len(sent) \in Nat
      BY <1>1, <2>1, LenProperties, EmptySeq
    <3>2. Len(sent') = Len(sent) + Len(x)
      BY <1>1, <2>1, ConcatProperties
    <3> QED BY <3>1, <3>2
  <2> QED BY <1>2, <2>2, <2>3 DEF Channel!Send
<1>3. ASSUME UNCHANGED <<sent, got>> PROVE UNCHANGED Channel!vars
  BY <1>3 DEF Channel!vars
<1>4. CASE WriteSymbols
  <2>1. UNCHANGED <<sent, got>>
    BY <1>4 DEF WriteSymbols
  <2> QED BY <1>3, <2>1
<1>5. CASE WriteBuffer
  BY <1>2, <1>5, BufferAdds
<1>6. CASE WriteClass \/ WritePrimitive \/ WriteOption \/ WriteSeq \/ WriteMap \/ WriteTuple
  <2>1. (Adds \/ UNCHANGED sent) /\ UNCHANGED got
    BY <1>6, WriteKeeps
  <2> QED BY <1>2, <1>3, <2>1
<1>7. CASE ReadEnd
  BY <1>3, <1>7, EndKeeps
<1>8. CASE Take \/ ReadBuffer
  <2>1. sent # <<>> /\ got' = Head(sent) /\ sent' = Tail(sent)
    BY <1>8, ReadKeeps
  <2> QED BY <2>1 DEF Channel!Receive
<1>9. CASE UNCHANGED vars
  BY <1>3, <1>9 DEF vars
<1> QED BY <1>4, <1>5, <1>6, <1>7, <1>8, <1>9 DEF Next, Write, Read, Take

-----------------------------------------------------------------------------
(* The theorems.                                                            *)

(* Whatever is serialized, the wire is at every moment a sequence of nodes  *)
(* that lead from what the reader expects to what the writer has left: the  *)
(* impls of Serializable write what their declarations announce.            *)
THEOREM WireIsPath == Spec => []WireInv
<1>1. Init => WireInv
  BY InitWire
<1>2. WireInv /\ [Next]_vars => WireInv'
  BY StepWire
<1> QED BY <1>1, <1>2, PTL DEF Spec

(* When all bytes written have been read, the reader expects exactly what   *)
(* serialize() has left to write.                                           *)
THEOREM EndsInStep == Spec => []InStep
<1>1. WireInv => InStep
  BY WireInStep
<1> QED BY <1>1, WireIsPath, PTL

(* The reader receives the nodes that serialize() is called for, unchanged, *)
(* in order and each once: the wire implements a channel of nodes.          *)
THEOREM WireFaithful == Spec => Faithful
<1>1. Init => Channel!Init
  BY DEF Init, Channel!Init
<1>2. WireInv /\ [Next]_vars => [Channel!Send \/ Channel!Receive]_(Channel!vars)
  BY StepFaithful
<1> QED BY <1>1, <1>2, WireIsPath, PTL DEF Spec, Faithful, Channel!Spec
=============================================================================
