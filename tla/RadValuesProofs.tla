-------------------------- MODULE RadValuesProofs ---------------------------
(* Proofs about the values of attributes: how far the loop of rad_salt_value *)
(* writes, that what is encrypted opens, and that what a server or           *)
(* rad_put_vendor_attr wrote is what the reading calls return, for every     *)
(* size of a byte and of a digest and for values of any length.              *)
EXTENDS RadValues, NaturalSets, SequenceTheorems, TLAPS

USE SaltAssumption DEF SaltAssumption

(* Multiplication with CHUNK keeps the order.                                *)
LEMMA TimesChunk ==
  ASSUME NEW a \in Nat, NEW b \in Nat, a <= b
  PROVE  CHUNK * a \in Nat /\ CHUNK * a <= CHUNK * b
<1>1. PICK d \in Nat : b = a + d
  BY b - a \in Nat, b = a + (b - a)
<1>2. CHUNK * b = CHUNK * a + CHUNK * d
  BY <1>1
<1>3. CHUNK * a \in Nat /\ CHUNK * d \in Nat /\ CHUNK * b \in Nat
  OBVIOUS
<1> QED BY <1>2, <1>3

(* Division by CHUNK.                                                        *)
LEMMA DivChunk ==
  ASSUME NEW n \in Nat
  PROVE  /\ n \div CHUNK \in Nat
         /\ CHUNK * (n \div CHUNK) <= n
         /\ n < CHUNK * (n \div CHUNK) + CHUNK
         /\ n % CHUNK = n - CHUNK * (n \div CHUNK)
  OBVIOUS

(* The quotient is the only number with these bounds.                        *)
LEMMA DivIsUnique ==
  ASSUME NEW n \in Nat, NEW q \in Nat, CHUNK * q <= n, n < CHUNK * q + CHUNK
  PROVE  n \div CHUNK = q
<1> DEFINE d == n \div CHUNK
<1>1. d \in Nat /\ CHUNK * d <= n /\ n < CHUNK * d + CHUNK
  BY DivChunk
<1> HIDE DEF d
<1>2. CASE d < q
  <2>1. CHUNK * (d + 1) <= CHUNK * q
    BY <1>1, <1>2, TimesChunk
  <2>2. CHUNK * (d + 1) = CHUNK * d + CHUNK
    BY <1>1
  <2> QED BY <2>1, <2>2, <1>1
<1>3. CASE q < d
  <2>1. CHUNK * (q + 1) <= CHUNK * d
    BY <1>1, <1>3, TimesChunk
  <2>2. CHUNK * (q + 1) = CHUNK * q + CHUNK
    OBVIOUS
  <2> QED BY <2>1, <2>2, <1>1
<1>4. d = q
  BY <1>1, <1>2, <1>3
<1> QED BY <1>4 DEF d

(* The padded length is the length, or the next multiple of CHUNK.           *)
LEMMA RoundUpIs ==
  ASSUME NEW len \in Nat
  PROVE  RoundUp(len) = IF len % CHUNK = 0 THEN CHUNK * (len \div CHUNK)
                        ELSE CHUNK * (len \div CHUNK) + CHUNK
<1> DEFINE q == len \div CHUNK
           n == len + CHUNK - 1
<1>1. /\ q \in Nat /\ CHUNK * q <= len /\ len < CHUNK * q + CHUNK
      /\ len % CHUNK = len - CHUNK * q
  BY DivChunk
<1>2. n \in Nat /\ CHUNK * q \in Nat
  BY <1>1
<1>3. CHUNK * (q + 1) = CHUNK * q + CHUNK
  BY <1>1
<1>4. CASE len % CHUNK = 0
  <2>1. CHUNK * q <= n /\ n < CHUNK * q + CHUNK
    BY <1>1, <1>2, <1>4
  <2>2. n \div CHUNK = q
    BY <2>1, <1>1, <1>2, DivIsUnique
  <2> QED BY <2>2, <1>4 DEF RoundUp
<1>5. CASE len % CHUNK # 0
  <2>1. CHUNK * (q + 1) <= n /\ n < CHUNK * (q + 1) + CHUNK
    BY <1>1, <1>2, <1>3, <1>5
  <2>2. n \div CHUNK = q + 1
    BY <2>1, <1>1, <1>2, DivIsUnique
  <2> QED BY <2>2, <1>3, <1>5 DEF RoundUp
<1> QED BY <1>4, <1>5

(* The loop is behind the input after the first chunk that reaches past it.  *)
LEMMA InPosReaches ==
  ASSUME NEW len \in Nat, NEW k \in Nat
  PROVE  InPos(len, k) >= len <=> CHUNK * k > len
<1>1. CHUNK * k \in Nat
  OBVIOUS
<1> QED BY <1>1 DEF InPos

(* The number of chunks written.                                             *)
LEMMA ChunksAre ==
  ASSUME NEW len \in Nat
  PROVE  Chunks(len) = len \div CHUNK + 1
<1> DEFINE q == len \div CHUNK
           Ends(k) == /\ InPos(len, k) >= len
                      /\ \A j \in 1..(k - 1) : InPos(len, j) < len
<1>1. q \in Nat /\ CHUNK * q <= len /\ len < CHUNK * q + CHUNK
  BY DivChunk
<1> HIDE DEF q
<1>2. CHUNK * (q + 1) = CHUNK * q + CHUNK /\ CHUNK * q \in Nat
  BY <1>1
<1>3. \A j \in Nat : j <= q => InPos(len, j) < len
  <2> TAKE j \in Nat
  <2> HAVE j <= q
  <2>1. CHUNK * j <= CHUNK * q /\ CHUNK * j \in Nat
    BY <1>1, TimesChunk
  <2>2. ~(CHUNK * j > len)
    BY <2>1, <1>1, <1>2
  <2>3. InPos(len, j) \in Int
    BY <2>1 DEF InPos
  <2> QED BY <2>2, <2>3, InPosReaches
<1>4. InPos(len, q + 1) >= len
  BY <1>1, <1>2, InPosReaches
<1>5. InPos(len, q + 1) \in Int
  BY <1>1, <1>2 DEF InPos
<1>6. q <= len
  <2>1. CASE q = 0
    BY <2>1
  <2>2. CASE q > 0
    <3>1. CHUNK * q = q + (CHUNK - 1) * q /\ (CHUNK - 1) * q \in Nat
      BY <1>1
    <3> QED BY <3>1, <1>1
  <2> QED BY <2>1, <2>2, <1>1
<1>7. q + 1 \in 1..(len + 1) /\ Ends(q + 1)
  BY <1>1, <1>3, <1>4, <1>6
<1>8. \A k \in 1..(len + 1) : Ends(k) => k = q + 1
  <2> TAKE k \in 1..(len + 1)
  <2> HAVE Ends(k)
  <2>1. ~(k <= q)
    <3>1. k \in Nat /\ CHUNK * k \in Nat
      OBVIOUS
    <3>2. InPos(len, k) \in Int /\ InPos(len, k) >= len
      BY <3>1 DEF InPos
    <3> QED BY <3>1, <3>2, <1>3
  <2>2. ~(k > q + 1)
    <3>1. SUFFICES ASSUME k > q + 1 PROVE FALSE
      OBVIOUS
    <3>2. q + 1 \in 1..(k - 1)
      BY <3>1, <1>1
    <3> QED BY <3>2, <1>4, <1>5
  <2> QED BY <2>1, <2>2, <1>1
<1> HIDE DEF Ends
<1>9. (CHOOSE k \in 1..(len + 1) : Ends(k)) = q + 1
  BY <1>7, <1>8
<1> QED BY <1>9 DEF Chunks, Ends, q

(* Exactly one chunk more than was allocated is written for a value of whole *)
(* chunks, and nothing for any other.                                        *)
LEMMA WrittenIs ==
  ASSUME NEW len \in Nat
  PROVE  Written(len) = Allocated(len) + (IF len % CHUNK = 0 THEN CHUNK ELSE 0)
<1>1. len \div CHUNK \in Nat /\ CHUNK * (len \div CHUNK) \in Nat
  BY DivChunk
<1>2. CHUNK * (len \div CHUNK + 1) = CHUNK * (len \div CHUNK) + CHUNK
  BY <1>1
<1>3. Written(len) = 3 + CHUNK * (len \div CHUNK) + CHUNK
  BY <1>1, <1>2, ChunksAre DEF Written
<1>4. CASE len % CHUNK = 0
  <2>1. RoundUp(len) = CHUNK * (len \div CHUNK)
    BY <1>4, RoundUpIs
  <2> QED BY <2>1, <1>1, <1>3, <1>4 DEF Allocated
<1>5. CASE len % CHUNK # 0
  <2>1. RoundUp(len) = CHUNK * (len \div CHUNK) + CHUNK
    BY <1>5, RoundUpIs
  <2> QED BY <2>1, <1>1, <1>3, <1>5 DEF Allocated
<1> QED BY <1>4, <1>5

-----------------------------------------------------------------------------
(* Sequences of bytes.                                                       *)

IsByte(b) == b = [byte |-> b.byte, pads |-> b.pads] /\ b.byte \in 0..(BYTE - 1)
IsBytes(s) == s \in Seq(ToSet(s)) /\ \A i \in 1..Len(s) : IsByte(s[i])

(* A sequence of bytes is one, whatever set it is a sequence over.           *)
LEMMA BytesOf ==
  ASSUME NEW T, NEW s \in Seq(T), \A i \in 1..Len(s) : IsByte(s[i])
  PROVE  IsBytes(s)
  BY DEF IsBytes, ToSet

(* So is a function on 1..n whose values are bytes.                          *)
LEMMA BytesFrom ==
  ASSUME NEW n \in Nat, NEW s, s = [i \in 1..n |-> s[i]], \A i \in 1..n : IsByte(s[i])
  PROVE  IsBytes(s) /\ Len(s) = n
<1> DEFINE T == {s[i] : i \in 1..n}
<1>1. s \in [1..n -> T]
  OBVIOUS
<1> HIDE DEF T
<1>2. s \in Seq(T) /\ Len(s) = n
  BY <1>1
<1> QED BY <1>2, BytesOf

(* Its length is a number.                                                   *)
LEMMA BytesHaveLength ==
  ASSUME NEW s, IsBytes(s) PROVE Len(s) \in Nat
  BY DEF IsBytes

(* Equal lengths and equal bytes make equal values.                          *)
LEMMA SameBytes ==
  ASSUME NEW s, NEW t, IsBytes(s), IsBytes(t), Len(s) = Len(t),
         \A i \in 1..Len(s) : s[i] = t[i]
  PROVE  s = t
<1> DEFINE T == ToSet(s) \cup ToSet(t)
<1>1. s \in Seq(T) /\ t \in Seq(T)
  BY DEF IsBytes
<1> HIDE DEF T
<1> QED BY <1>1, SeqEqual

(* Joining two values.                                                       *)
LEMMA BytesJoined ==
  ASSUME NEW s, NEW t, IsBytes(s), IsBytes(t)
  PROVE  /\ IsBytes(s \o t)
         /\ Len(s) \in Nat /\ Len(t) \in Nat /\ Len(s \o t) = Len(s) + Len(t)
         /\ \A i \in 1..Len(s) : (s \o t)[i] = s[i]
         /\ \A i \in 1..Len(t) : (s \o t)[Len(s) + i] = t[i]
<1> DEFINE T == ToSet(s) \cup ToSet(t)
<1>1. s \in Seq(T) /\ t \in Seq(T)
  BY DEF IsBytes
<1> HIDE DEF T
<1>2. /\ s \o t \in Seq(T)
      /\ Len(s) \in Nat /\ Len(t) \in Nat /\ Len(s \o t) = Len(s) + Len(t)
      /\ \A i \in 1..Len(s) : (s \o t)[i] = s[i]
      /\ \A i \in 1..Len(t) : (s \o t)[Len(s) + i] = t[i]
  BY <1>1
<1>3. ASSUME NEW i \in 1..Len(s \o t) PROVE IsByte((s \o t)[i])
  <2>1. CASE i <= Len(s)
    BY <1>2, <2>1 DEF IsBytes
  <2>2. CASE i > Len(s)
    <3>1. i - Len(s) \in 1..Len(t) /\ i = Len(s) + (i - Len(s))
      BY <1>2, <2>2
    <3>2. (s \o t)[i] = t[i - Len(s)]
      BY <1>2, <3>1
    <3> QED BY <3>1, <3>2 DEF IsBytes
  <2> QED BY <1>2, <2>1, <2>2
<1>4. IsBytes(s \o t)
  BY <1>2, <1>3, BytesOf
<1> QED BY <1>2, <1>4

(* A part of a value.                                                        *)
LEMMA PartOfBytes ==
  ASSUME NEW s, IsBytes(s), NEW m \in Nat, NEW n \in Nat, m + n <= Len(s)
  PROVE  /\ IsBytes(SubSeq(s, m + 1, m + n))
         /\ Len(SubSeq(s, m + 1, m + n)) = n
         /\ \A i \in 1..n : SubSeq(s, m + 1, m + n)[i] = s[m + i]
<1> DEFINE T == ToSet(s)
           sub == SubSeq(s, m + 1, m + n)
<1>1. s \in Seq(T) /\ Len(s) \in Nat
  BY DEF IsBytes
<1> HIDE DEF T
<1>2. sub \in Seq(T) /\ Len(sub) = n /\ \A i \in 1..n : sub[i] = s[m + i]
  BY <1>1
<1>3. ASSUME NEW i \in 1..n PROVE IsByte(s[m + i])
  <2>1. m + i \in 1..Len(s)
    BY <1>1
  <2> QED BY <2>1 DEF IsBytes
<1> HIDE DEF sub
<1>4. IsBytes(sub)
  BY <1>2, <1>3, BytesOf
<1> QED BY <1>2, <1>4 DEF sub

(* Plain bytes.                                                              *)
LEMMA TextIsBytes ==
  ASSUME NEW s \in Seq(0..(BYTE - 1))
  PROVE  /\ IsBytes(Text(s)) /\ Len(Text(s)) = Len(s)
         /\ \A i \in 1..Len(s) : Text(s)[i] = Plain(s[i])
<1>1. PICK n \in Nat : n = Len(s)
  OBVIOUS
<1>2. \A i \in 1..n : IsByte(Plain(s[i]))
  BY <1>1 DEF IsByte, Plain
<1>3. PICK t : t = Text(s)
  OBVIOUS
<1>4. t = [i \in 1..n |-> Plain(s[i])]
  BY <1>1, <1>3 DEF Text
<1>5. \A i \in 1..n : t[i] = Plain(s[i])
  BY <1>4
<1>6. t = [i \in 1..n |-> t[i]]
  BY <1>4
<1>7. IsBytes(t) /\ Len(t) = n
  BY <1>2, <1>5, <1>6, BytesFrom
<1> QED BY <1>1, <1>3, <1>5, <1>7

(* XORing with a pad keeps the bytes.                                        *)
LEMMA XorIsBytes ==
  ASSUME NEW s, IsBytes(s), NEW b
  PROVE  /\ IsBytes(Xor(s, b)) /\ Len(Xor(s, b)) = Len(s)
         /\ \A i \in 1..Len(s) : Xor(s, b)[i].byte = s[i].byte
         /\ \A i \in 1..Len(s) : Xor(s, b)[i].pads = SymDiff(s[i].pads, {[md5 |-> b, at |-> i]})
<1>1. PICK n \in Nat : n = Len(s)
  BY BytesHaveLength
<1> DEFINE pad(i) == {[md5 |-> b, at |-> i]}
<1>2. PICK t : t = Xor(s, b)
  OBVIOUS
<1>3. t = [i \in 1..n |-> [s[i] EXCEPT !.pads = SymDiff(s[i].pads, pad(i))]]
  BY <1>1, <1>2 DEF Xor
<1>4. \A i \in 1..n : t[i] = [s[i] EXCEPT !.pads = SymDiff(s[i].pads, pad(i))]
  BY <1>3
<1>5. t = [i \in 1..n |-> t[i]]
  BY <1>3
<1> HIDE DEF pad
<1>6. ASSUME NEW i \in 1..n
      PROVE  t[i] = [byte |-> s[i].byte, pads |-> SymDiff(s[i].pads, pad(i))]
  <2>1. PICK c : c = s[i]
    OBVIOUS
  <2>2. IsByte(c)
    BY <1>1, <2>1 DEF IsBytes
  <2>3. PICK byte, pads : c = [byte |-> byte, pads |-> pads] /\ byte = c.byte /\ pads = c.pads
    BY <2>2 DEF IsByte
  <2>4. [c EXCEPT !.pads = SymDiff(pads, pad(i))]
          = [byte |-> byte, pads |-> SymDiff(pads, pad(i))]
    BY <2>3
  <2> QED BY <1>4, <2>1, <2>3, <2>4
<1>7. ASSUME NEW i \in 1..n
      PROVE  /\ IsByte(t[i])
             /\ t[i].byte = s[i].byte
             /\ t[i].pads = SymDiff(s[i].pads, pad(i))
  <2>1. s[i].byte \in 0..(BYTE - 1)
    BY <1>1 DEF IsBytes, IsByte
  <2>2. PICK D : D = SymDiff(s[i].pads, pad(i))
    OBVIOUS
  <2>3. t[i] = [byte |-> s[i].byte, pads |-> D]
    BY <1>6, <2>2
  <2>4. t[i].byte = s[i].byte /\ t[i].pads = D
    BY <2>3
  <2> QED BY <2>1, <2>2, <2>3, <2>4 DEF IsByte
<1>8. IsBytes(t) /\ Len(t) = n
  BY <1>5, <1>7, BytesFrom
<1> QED BY <1>1, <1>2, <1>7, <1>8 DEF pad

(* A pad taken twice is gone.                                                *)
LEMMA SymDiffTwice ==
  ASSUME NEW P, NEW Q PROVE SymDiff(SymDiff(P, Q), Q) = P
  BY DEF SymDiff

(* XORing with the same pad twice changes nothing.                           *)
LEMMA XorUndone ==
  ASSUME NEW s, IsBytes(s), NEW b
  PROVE  Xor(Xor(s, b), b) = s
<1>1. PICK n \in Nat : n = Len(s)
  BY BytesHaveLength
<1>2. PICK t : t = Xor(s, b)
  OBVIOUS
<1>3. PICK u : u = Xor(t, b)
  OBVIOUS
<1>4. /\ IsBytes(t) /\ Len(t) = n
      /\ \A i \in 1..n : t[i].byte = s[i].byte
      /\ \A i \in 1..n : t[i].pads = SymDiff(s[i].pads, {[md5 |-> b, at |-> i]})
  BY <1>1, <1>2, XorIsBytes
<1>5. /\ IsBytes(u) /\ Len(u) = n
      /\ \A i \in 1..n : u[i].byte = t[i].byte
      /\ \A i \in 1..n : u[i].pads = SymDiff(t[i].pads, {[md5 |-> b, at |-> i]})
  <2>1. IsBytes(t) /\ Len(t) = n
    BY <1>4
  <2>2. /\ IsBytes(u) /\ Len(u) = Len(t)
        /\ \A i \in 1..Len(t) : u[i].byte = t[i].byte
        /\ \A i \in 1..Len(t) : u[i].pads = SymDiff(t[i].pads, {[md5 |-> b, at |-> i]})
    BY <1>3, <2>1, XorIsBytes
  <2> QED BY <2>1, <2>2
<1>6. ASSUME NEW i \in 1..n PROVE u[i].byte = s[i].byte /\ u[i].pads = s[i].pads
  <2>1. PICK Q : Q = {[md5 |-> b, at |-> i]}
    OBVIOUS
  <2>2. t[i].pads = SymDiff(s[i].pads, Q) /\ u[i].pads = SymDiff(t[i].pads, Q)
    BY <1>4, <1>5, <2>1
  <2>3. u[i].pads = s[i].pads
    BY <2>2, SymDiffTwice
  <2> QED BY <1>4, <1>5, <2>3
<1>7. \A i \in 1..n : IsByte(u[i]) /\ IsByte(s[i])
  BY <1>1, <1>5 DEF IsBytes
<1>8. \A i \in 1..n : u[i] = s[i]
  BY <1>6, <1>7 DEF IsByte
<1>9. u = s
  BY <1>1, <1>5, <1>8, SameBytes
<1> QED BY <1>2, <1>3, <1>9

-----------------------------------------------------------------------------
(* Chunks.                                                                   *)

(* Where the chunks of a value of n chunks lie.                              *)
LEMMA PositionOfChunk ==
  ASSUME NEW n \in Nat, NEW k \in 1..n
  PROVE  /\ CHUNK * (k - 1) \in Nat /\ CHUNK * n \in Nat
         /\ CHUNK * k = CHUNK * (k - 1) + CHUNK
         /\ CHUNK * (k - 1) + CHUNK <= CHUNK * n
<1>1. CHUNK * k <= CHUNK * n /\ CHUNK * n \in Nat
  BY TimesChunk
<1>2. k - 1 \in Nat
  OBVIOUS
<1>3. CHUNK * (k - 1) \in Nat
  BY <1>2
<1>4. CHUNK * k = CHUNK * (k - 1) + CHUNK
  BY <1>2
<1> QED BY <1>1, <1>3, <1>4

(* Every position is in one of them.                                         *)
LEMMA ChunkOfPosition ==
  ASSUME NEW n \in Nat, NEW i \in 1..(CHUNK * n)
  PROVE  \E k \in 1..n, j \in 1..CHUNK : i = CHUNK * (k - 1) + j
<1>1. CHUNK * n \in Nat
  OBVIOUS
<1>2. PICK p \in Nat : p = i - 1
  BY <1>1
<1>7. PICK q \in Nat : q = p \div CHUNK
  BY DivChunk
<1>3. CHUNK * q \in Nat /\ CHUNK * q <= i - 1 /\ i - 1 < CHUNK * q + CHUNK
  BY <1>2, <1>7, DivChunk
<1>4. q < n
  <2>1. SUFFICES ASSUME q >= n PROVE FALSE
    OBVIOUS
  <2>2. CHUNK * n <= CHUNK * q
    BY <2>1, TimesChunk
  <2> QED BY <1>1, <1>3, <2>2
<1>5. PICK k \in 1..n : k - 1 = q
  BY <1>4
<1>6. PICK j \in 1..CHUNK : i = CHUNK * q + j
  BY <1>1, <1>2, <1>3
<1> QED BY <1>5, <1>6

(* A chunk of a value.                                                       *)
LEMMA ChunkIs ==
  ASSUME NEW s, IsBytes(s), NEW n \in Nat, CHUNK * n <= Len(s), NEW k \in 1..n
  PROVE  /\ IsBytes(ChunkOf(s, k)) /\ Len(ChunkOf(s, k)) = CHUNK
         /\ \A j \in 1..CHUNK : ChunkOf(s, k)[j] = s[CHUNK * (k - 1) + j]
<1>1. PICK m \in Nat : m = CHUNK * (k - 1)
  BY PositionOfChunk
<1>2. CHUNK * k = m + CHUNK /\ m + CHUNK <= CHUNK * n /\ CHUNK * n \in Nat
  BY <1>1, PositionOfChunk
<1>3. Len(s) \in Nat
  BY BytesHaveLength
<1>4. m + CHUNK <= Len(s)
  BY <1>2, <1>3
<1>5. ChunkOf(s, k) = SubSeq(s, m + 1, m + CHUNK)
  BY <1>1, <1>2 DEF ChunkOf
<1>6. CHUNK \in Nat
  OBVIOUS
<1>7. /\ IsBytes(SubSeq(s, m + 1, m + CHUNK))
      /\ Len(SubSeq(s, m + 1, m + CHUNK)) = CHUNK
      /\ \A j \in 1..CHUNK : SubSeq(s, m + 1, m + CHUNK)[j] = s[m + j]
  BY <1>4, <1>6, PartOfBytes
<1> QED BY <1>1, <1>5, <1>7, Zenon

(* FlattenSeq of chunks is a value, and has them as its chunks.              *)
LEMMA FlattenChunks ==
  ASSUME NEW n \in Nat, NEW chunks, chunks = [k \in 1..n |-> chunks[k]],
         \A k \in 1..n : IsBytes(chunks[k]) /\ Len(chunks[k]) = CHUNK
  PROVE  /\ IsBytes(FlattenSeq(chunks)) /\ Len(FlattenSeq(chunks)) = CHUNK * n
         /\ \A k \in 1..n : ChunkOf(FlattenSeq(chunks), k) = chunks[k]
<1> DEFINE B == UNION {ToSet(chunks[k]) : k \in 1..n}
<1>1. \A k \in 1..n : chunks[k] \in Seq(B)
  <2> SUFFICES ASSUME NEW k \in 1..n PROVE chunks[k] \in Seq(B)
    OBVIOUS
  <2>1. ToSet(chunks[k]) \subseteq B
    OBVIOUS
  <2>2. chunks[k] \in Seq(ToSet(chunks[k]))
    BY DEF IsBytes
  <2> HIDE DEF B
  <2> QED BY <2>1, <2>2
<1>2. \A b \in B : IsByte(b)
  <2> SUFFICES ASSUME NEW k \in 1..n, NEW b \in ToSet(chunks[k]) PROVE IsByte(b)
    OBVIOUS
  <2>1. PICK i \in 1..Len(chunks[k]) : b = chunks[k][i]
    BY DEF IsBytes, ToSet
  <2> QED BY <2>1 DEF IsBytes
<1> HIDE DEF B
<1>3. PICK f \in [1..n -> Seq(B)] : f = chunks
  BY <1>1
<1>4. PICK flat \in Seq(B) : flat = FlattenSeq(f)
  BY FlattenIs
<1>5. PICK at \in [0..n -> Nat] : LieIn(flat, n, f, at)
  <2>1. \E at \in [0..n -> Nat] : LieIn(FlattenSeq(f), n, f, at)
    BY FlattenIs
  <2> QED BY <1>4, <2>1
<1>6. IsBytes(flat)
  <2>1. \A i \in 1..Len(flat) : flat[i] \in B
    OBVIOUS
  <2> QED BY <1>2, <2>1, BytesOf
<1> DEFINE S == {k \in Nat : k <= n => at[k] = CHUNK * k}
<1>7. 0 \in S
  BY <1>5 DEF LieIn
<1>8. ASSUME NEW k \in Nat, k \in S PROVE k + 1 \in S
  <2>1. SUFFICES ASSUME k + 1 <= n PROVE at[k + 1] = CHUNK * (k + 1)
    OBVIOUS
  <2>2. PICK i \in 1..n : i = k + 1 /\ i - 1 = k
    BY <2>1
  <2>3. at[i] = at[k] + CHUNK
    BY <1>3, <1>5, <2>2 DEF LieIn
  <2>4. at[k] = CHUNK * k
    BY <1>8, <2>1
  <2>5. CHUNK * i = CHUNK * k + CHUNK
    BY <2>2, PositionOfChunk
  <2> QED BY <2>2, <2>3, <2>4, <2>5
<1>9. \A k \in Nat : k \in S
  <2> HIDE DEF S
  <2> QED BY <1>7, <1>8, SetInduction
<1>10. \A k \in 0..n : at[k] = CHUNK * k
  BY <1>9
<1> HIDE DEF S
<1>11. Len(flat) = CHUNK * n
  BY <1>5, <1>10 DEF LieIn
<1>12. ASSUME NEW k \in 1..n PROVE ChunkOf(flat, k) = chunks[k]
  <2>1. CHUNK * n <= Len(flat)
    BY <1>11, PositionOfChunk
  <2>2. PICK c : c = ChunkOf(flat, k)
    OBVIOUS
  <2>3. /\ IsBytes(c) /\ Len(c) = CHUNK
        /\ \A j \in 1..CHUNK : c[j] = flat[CHUNK * (k - 1) + j]
    BY <1>6, <2>1, <2>2, ChunkIs
  <2>4. PICK d : d = chunks[k] /\ IsBytes(d) /\ Len(d) = CHUNK
    OBVIOUS
  <2>5. \A j \in 1..CHUNK : flat[at[k - 1] + j] = d[j]
    BY <1>3, <1>5, <2>4 DEF LieIn
  <2>6. at[k - 1] = CHUNK * (k - 1)
    BY <1>10
  <2>7. \A j \in 1..CHUNK : c[j] = d[j]
    BY <2>3, <2>5, <2>6
  <2>8. c = d
    BY <2>3, <2>4, <2>7, SameBytes
  <2> QED BY <2>2, <2>4, <2>8
<1> QED BY <1>3, <1>4, <1>6, <1>11, <1>12

-----------------------------------------------------------------------------
(* What is encrypted opens to what it was.                                   *)

Pad(secret, auth_, salt, cipher, k) ==
  IF k = 1 THEN FirstMD5(secret, auth_, salt) ELSE LaterMD5(secret, cipher[k - 1])

(* The encrypted chunks, each XORed with an MD5 of the one before it.        *)
IsCipher(cipher, secret, auth_, salt, text, n) ==
  /\ cipher = [k \in 1..n |-> cipher[k]]
  /\ \A k \in 1..n :
       cipher[k] = Xor(ChunkOf(text, k), Pad(secret, auth_, salt, cipher, k))

(* The chain of encrypted chunks exists, for any number of chunks.           *)
LEMMA CipherExists ==
  ASSUME NEW secret, NEW auth_, NEW salt, NEW text, NEW n \in Nat
  PROVE  \E cipher : IsCipher(cipher, secret, auth_, salt, text, n)
<1> DEFINE From(f, k) == Xor(ChunkOf(text, k), Pad(secret, auth_, salt, f, k))
           Is(f, n_) == IsCipher(f, secret, auth_, salt, text, n_)
           Built(k) == \E f : Is(f, k)
           S == {k \in Nat : Built(k)}
<1>1. 0 \in S
  <2> DEFINE f == [k \in 1..0 |-> << >>]
  <2>1. f = [k \in 1..0 |-> f[k]] /\ \A k \in 1..0 : FALSE
    OBVIOUS
  <2> HIDE DEF f
  <2>2. Is(f, 0)
    BY <2>1 DEF IsCipher
  <2>3. Built(0)
    <3> HIDE DEF Is
    <3> QED BY <2>2
  <2> HIDE DEF Built
  <2> QED BY <2>3
<1>2. ASSUME NEW m \in Nat, m \in S PROVE m + 1 \in S
  <2>1. PICK g : Is(g, m)
    <3>1. Built(m)
      <4> HIDE DEF Built
      <4> QED BY <1>2
    <3> HIDE DEF Is
    <3> QED BY <3>1
  <2> DEFINE f == [k \in 1..(m + 1) |-> IF k = m + 1 THEN From(g, k) ELSE g[k]]
  <2>2. \A k \in 1..m : g[k] = From(g, k)
    BY <2>1 DEF IsCipher
  <2> HIDE DEF From
  <2>3. \A k \in 1..m : f[k] = g[k]
    OBVIOUS
  <2>4. f[m + 1] = From(g, m + 1)
    OBVIOUS
  <2>5. f = [k \in 1..(m + 1) |-> f[k]]
    OBVIOUS
  <2> HIDE DEF f
  <2>6. ASSUME NEW k \in 1..(m + 1) PROVE f[k] = From(f, k)
    <3>1. From(f, k) = From(g, k)
      <4>1. CASE k = 1
        BY <4>1 DEF From, Pad
      <4>2. CASE k # 1
        <5>1. f[k - 1] = g[k - 1]
          BY <2>3, <4>2
        <5> QED BY <4>2, <5>1 DEF From, Pad
      <4> QED BY <4>1, <4>2
    <3>2. CASE k = m + 1
      BY <2>4, <3>1, <3>2
    <3>3. CASE k # m + 1
      <4>1. k \in 1..m
        BY <3>3
      <4> QED BY <2>2, <2>3, <3>1, <4>1
    <3> QED BY <3>2, <3>3
  <2>7. Is(f, m + 1)
    BY <2>5, <2>6 DEF IsCipher, From
  <2>8. Built(m + 1)
    <3> HIDE DEF Is
    <3> QED BY <2>7
  <2> HIDE DEF Built
  <2> QED BY <2>8
<1>3. n \in S
  <2> HIDE DEF S
  <2> QED BY <1>1, <1>2, SetInduction
<1> HIDE DEF Is
<1>4. \E f : Is(f, n)
  BY <1>3
<1> QED BY <1>4 DEF Is

(* Encrypt is made of that chain.                                            *)
LEMMA CipherIs ==
  ASSUME NEW secret, NEW auth_, NEW salt, NEW text, IsBytes(text),
         NEW n \in Nat, n = Len(text) \div CHUNK
  PROVE  \E cipher :
           /\ IsCipher(cipher, secret, auth_, salt, text, n)
           /\ Encrypt(secret, auth_, salt, text) = FlattenSeq(cipher)
           /\ \A k \in 1..n : IsBytes(cipher[k]) /\ Len(cipher[k]) = CHUNK
<1> DEFINE F(f) == [k \in 1..n |-> Xor(ChunkOf(text, k),
                      IF k = 1 THEN FirstMD5(secret, auth_, salt)
                               ELSE LaterMD5(secret, f[k - 1]))]
           c == CHOOSE f : f = F(f)
<1>1. PICK f : IsCipher(f, secret, auth_, salt, text, n)
  BY CipherExists
<1>2. f = F(f)
  BY <1>1 DEF IsCipher, Pad
<1>3. c = F(c)
  <2> HIDE DEF F
  <2> QED BY <1>2
<1>4. Encrypt(secret, auth_, salt, text) = FlattenSeq(c)
  BY DEF Encrypt
<1> HIDE DEF c
<1>5. IsCipher(c, secret, auth_, salt, text, n)
  BY <1>3 DEF IsCipher, Pad
<1>6. CHUNK * n <= Len(text)
  BY BytesHaveLength, DivChunk
<1>7. ASSUME NEW k \in 1..n PROVE IsBytes(c[k]) /\ Len(c[k]) = CHUNK
  <2>1. PICK b : c[k] = Xor(ChunkOf(text, k), b)
    BY <1>5 DEF IsCipher
  <2>2. IsBytes(ChunkOf(text, k)) /\ Len(ChunkOf(text, k)) = CHUNK
    BY <1>6, ChunkIs
  <2> QED BY <2>1, <2>2, XorIsBytes
<1> QED BY <1>4, <1>5, <1>7

(* A whole number of chunks has the length of them.                          *)
LEMMA WholeChunks ==
  ASSUME NEW n \in Nat PROVE (CHUNK * n) \div CHUNK = n /\ (CHUNK * n) % CHUNK = 0
<1>1. CHUNK * n \in Nat
  OBVIOUS
<1>2. (CHUNK * n) \div CHUNK = n
  BY <1>1, DivIsUnique
<1> QED BY <1>1, <1>2, DivChunk

(* The first chunks of a value.                                              *)
LEMMA FirstChunks ==
  ASSUME NEW s, IsBytes(s), NEW m \in Nat, CHUNK * m <= Len(s)
  PROVE  /\ IsBytes(SubSeq(s, 1, CHUNK * m))
         /\ Len(SubSeq(s, 1, CHUNK * m)) = CHUNK * m
         /\ \A k \in 1..m : ChunkOf(SubSeq(s, 1, CHUNK * m), k) = ChunkOf(s, k)
<1>1. PICK n \in Nat : n = CHUNK * m
  BY TimesChunk
<1>2. PICK p : p = SubSeq(s, 1, n)
  OBVIOUS
<1>3. IsBytes(p) /\ Len(p) = n /\ \A i \in 1..n : p[i] = s[i]
  <2>1. Len(s) \in Nat /\ 0 \in Nat /\ 0 + n <= Len(s)
    BY <1>1, BytesHaveLength
  <2>2. /\ IsBytes(SubSeq(s, 0 + 1, 0 + n)) /\ Len(SubSeq(s, 0 + 1, 0 + n)) = n
        /\ \A i \in 1..n : SubSeq(s, 0 + 1, 0 + n)[i] = s[0 + i]
    BY ZenonT(30), <2>1, PartOfBytes
  <2>3. 0 + 1 = 1 /\ 0 + n = n /\ \A i \in 1..n : 0 + i = i
    OBVIOUS
  <2>4. IsBytes(p) /\ Len(p) = n
    BY <1>2, <2>2, <2>3, Zenon
  <2>5. ASSUME NEW i \in 1..n PROVE p[i] = s[i]
    BY <1>2, <2>2, <2>3, Zenon
  <2> QED BY <2>4, <2>5
<1>4. ASSUME NEW k \in 1..m PROVE ChunkOf(p, k) = ChunkOf(s, k)
  <2>1. PICK c : c = ChunkOf(p, k)
    OBVIOUS
  <2>2. PICK d : d = ChunkOf(s, k)
    OBVIOUS
  <2>3. PICK q \in Nat : q = CHUNK * (k - 1)
    BY PositionOfChunk
  <2>4. q + CHUNK <= n
    BY <1>1, <2>3, PositionOfChunk
  <2>5. IsBytes(c) /\ Len(c) = CHUNK /\ \A j \in 1..CHUNK : c[j] = p[q + j]
    <3>1. CHUNK * m <= Len(p)
      BY <1>1, <1>3
    <3> QED BY ZenonT(30), <1>3, <2>1, <2>3, <3>1, ChunkIs
  <2>6. IsBytes(d) /\ Len(d) = CHUNK /\ \A j \in 1..CHUNK : d[j] = s[q + j]
    BY <2>2, <2>3, ChunkIs
  <2>7. \A j \in 1..CHUNK : p[q + j] = s[q + j]
    BY <1>3, <2>4
  <2>8. c = d
    BY <2>5, <2>6, <2>7, SameBytes
  <2> QED BY <2>1, <2>2, <2>8
<1> QED BY <1>1, <1>2, <1>3, <1>4

(* Equal chunks make equal values.                                           *)
LEMMA SameChunks ==
  ASSUME NEW m \in Nat, NEW s, IsBytes(s), Len(s) = CHUNK * m,
         NEW t, IsBytes(t), Len(t) = CHUNK * m,
         \A k \in 1..m : ChunkOf(s, k) = ChunkOf(t, k)
  PROVE  s = t
<1>1. CHUNK * m \in Nat /\ CHUNK * m <= Len(s) /\ CHUNK * m <= Len(t)
  BY TimesChunk
<1>2. ASSUME NEW i \in 1..Len(s) PROVE s[i] = t[i]
  <2>1. PICK k \in 1..m, j \in 1..CHUNK : i = CHUNK * (k - 1) + j
    <3>1. i \in 1..(CHUNK * m)
      OBVIOUS
    <3> QED BY <3>1, ChunkOfPosition
  <2>2. ChunkOf(s, k)[j] = s[i]
    BY <1>1, <2>1, ChunkIs
  <2>3. ChunkOf(t, k)[j] = t[i]
    BY <1>1, <2>1, ChunkIs
  <2> QED BY <2>2, <2>3
<1> QED BY <1>2, SameBytes

(* rad_demangle undoes the encryption of a server, and rad_salt_value's is   *)
(* undone by a server: for any secret, authenticator and salt, and for any   *)
(* number of whole chunks of what was encrypted.                             *)
LEMMA EncryptedOpensUpTo ==
  ASSUME NEW secret, NEW auth_, NEW salt, NEW text, IsBytes(text),
         NEW n \in Nat, Len(text) = CHUNK * n, NEW m \in Nat, m <= n
  PROVE  /\ IsBytes(Encrypt(secret, auth_, salt, text))
         /\ Len(Encrypt(secret, auth_, salt, text)) = Len(text)
         /\ Decrypt(secret, auth_, salt,
                    SubSeq(Encrypt(secret, auth_, salt, text), 1, CHUNK * m))
              = SubSeq(text, 1, CHUNK * m)
<1>1. CHUNK * n \in Nat
  BY TimesChunk
<1>2. n = Len(text) \div CHUNK
  BY WholeChunks
<1>3. CHUNK * n <= Len(text) /\ CHUNK * m <= Len(text)
  BY <1>1, TimesChunk
<1>4. PICK cipher :
        /\ IsCipher(cipher, secret, auth_, salt, text, n)
        /\ Encrypt(secret, auth_, salt, text) = FlattenSeq(cipher)
        /\ \A k \in 1..n : IsBytes(cipher[k]) /\ Len(cipher[k]) = CHUNK
  BY <1>2, CipherIs
<1>5. PICK full : full = Encrypt(secret, auth_, salt, text)
  OBVIOUS
<1>6. /\ IsBytes(full) /\ Len(full) = CHUNK * n
      /\ \A k \in 1..n : ChunkOf(full, k) = cipher[k]
  <2>1. cipher = [k \in 1..n |-> cipher[k]]
    BY <1>4 DEF IsCipher
  <2>2. /\ IsBytes(FlattenSeq(cipher)) /\ Len(FlattenSeq(cipher)) = CHUNK * n
        /\ \A k \in 1..n : ChunkOf(FlattenSeq(cipher), k) = cipher[k]
    BY <1>4, <2>1, FlattenChunks
  <2> QED BY <1>4, <1>5, <2>2
<1>8. PICK mangled : mangled = SubSeq(full, 1, CHUNK * m)
  OBVIOUS
<1>9. PICK part : part = SubSeq(text, 1, CHUNK * m)
  OBVIOUS
<1>10. /\ IsBytes(mangled) /\ Len(mangled) = CHUNK * m
       /\ \A k \in 1..m : ChunkOf(mangled, k) = cipher[k]
  <2>1. CHUNK * m <= Len(full)
    BY <1>3, <1>6
  <2>2. /\ IsBytes(mangled) /\ Len(mangled) = CHUNK * m
        /\ \A k \in 1..m : ChunkOf(mangled, k) = ChunkOf(full, k)
    BY <1>6, <1>8, <2>1, FirstChunks
  <2> QED BY <1>6, <2>2
<1>11. /\ IsBytes(part) /\ Len(part) = CHUNK * m /\ CHUNK * m <= Len(part)
       /\ \A k \in 1..m : ChunkOf(part, k) = ChunkOf(text, k)
  <2>1. CHUNK * m \in Nat
    BY TimesChunk
  <2>2. /\ IsBytes(part) /\ Len(part) = CHUNK * m
        /\ \A k \in 1..m : ChunkOf(part, k) = ChunkOf(text, k)
    BY <1>3, <1>9, FirstChunks
  <2> QED BY <2>1, <2>2
<1>12. Len(mangled) \div CHUNK = m
  BY <1>10, WholeChunks
<1> DEFINE opened == [k \in 1..m |-> ChunkOf(text, k)]
<1>13. ASSUME NEW k \in 1..m
       PROVE  Xor(ChunkOf(mangled, k), IF k = 1 THEN FirstMD5(secret, auth_, salt)
                                       ELSE LaterMD5(secret, ChunkOf(mangled, k - 1)))
                = ChunkOf(text, k)
  <2>1. PICK b : b = Pad(secret, auth_, salt, cipher, k)
    OBVIOUS
  <2>2. b = IF k = 1 THEN FirstMD5(secret, auth_, salt)
            ELSE LaterMD5(secret, ChunkOf(mangled, k - 1))
    <3>1. CASE k = 1
      BY <2>1, <3>1 DEF Pad
    <3>2. CASE k # 1
      <4>1. k - 1 \in 1..m
        BY <3>2
      <4> QED BY <1>10, <2>1, <3>2, <4>1 DEF Pad
    <3> QED BY <3>1, <3>2
  <2>3. k \in 1..n
    OBVIOUS
  <2>4. ChunkOf(mangled, k) = Xor(ChunkOf(text, k), b)
    BY <1>4, <1>10, <2>1, <2>3 DEF IsCipher
  <2>5. IsBytes(ChunkOf(text, k))
    BY <1>3, <2>3, ChunkIs
  <2> QED BY <2>2, <2>4, <2>5, XorUndone
<1>14. Decrypt(secret, auth_, salt, mangled) = FlattenSeq(opened)
  BY <1>12, <1>13 DEF Decrypt
<1>15. /\ IsBytes(FlattenSeq(opened)) /\ Len(FlattenSeq(opened)) = CHUNK * m
       /\ \A k \in 1..m : ChunkOf(FlattenSeq(opened), k) = ChunkOf(part, k)
  <2>1. \A k \in 1..m : opened[k] = ChunkOf(part, k)
    BY <1>11
  <2>2. opened = [k \in 1..m |-> opened[k]]
    OBVIOUS
  <2>3. \A k \in 1..m : IsBytes(opened[k]) /\ Len(opened[k]) = CHUNK
    <3> SUFFICES ASSUME NEW k \in 1..m PROVE IsBytes(opened[k]) /\ Len(opened[k]) = CHUNK
      OBVIOUS
    <3>1. IsBytes(ChunkOf(part, k)) /\ Len(ChunkOf(part, k)) = CHUNK
      BY <1>11, ChunkIs
    <3> QED BY <2>1, <3>1
  <2> HIDE DEF opened
  <2> QED BY <2>1, <2>2, <2>3, FlattenChunks
<1> HIDE DEF opened
<1>16. PICK flat : flat = FlattenSeq(opened)
  OBVIOUS
<1>17. flat = part
  <2>1. IsBytes(flat) /\ Len(flat) = CHUNK * m
    BY <1>15, <1>16
  <2>2. \A k \in 1..m : ChunkOf(flat, k) = ChunkOf(part, k)
    BY <1>15, <1>16
  <2> QED BY <1>11, <2>1, <2>2, SameChunks
<1> QED BY <1>3, <1>5, <1>6, <1>8, <1>9, <1>14, <1>16, <1>17

(* All of it.                                                                *)
LEMMA EncryptedOpens ==
  ASSUME NEW secret, NEW auth_, NEW salt, NEW text, IsBytes(text),
         NEW n \in Nat, Len(text) = CHUNK * n
  PROVE  /\ IsBytes(Encrypt(secret, auth_, salt, text))
         /\ Len(Encrypt(secret, auth_, salt, text)) = Len(text)
         /\ Decrypt(secret, auth_, salt, Encrypt(secret, auth_, salt, text)) = text
<1> HIDE SaltAssumption DEF SaltAssumption
<1>1. \A m \in Nat : m <= n =>
        /\ IsBytes(Encrypt(secret, auth_, salt, text))
        /\ Len(Encrypt(secret, auth_, salt, text)) = Len(text)
        /\ Decrypt(secret, auth_, salt,
                   SubSeq(Encrypt(secret, auth_, salt, text), 1, CHUNK * m))
             = SubSeq(text, 1, CHUNK * m)
  BY EncryptedOpensUpTo
<1>2. n <= n
  OBVIOUS
<1>3. /\ IsBytes(Encrypt(secret, auth_, salt, text))
      /\ Len(Encrypt(secret, auth_, salt, text)) = Len(text)
      /\ Decrypt(secret, auth_, salt,
                 SubSeq(Encrypt(secret, auth_, salt, text), 1, CHUNK * n))
           = SubSeq(text, 1, CHUNK * n)
  BY <1>1, <1>2
<1>4. PICK full : full = Encrypt(secret, auth_, salt, text)
  OBVIOUS
<1>5. SubSeq(full, 1, Len(full)) = full /\ SubSeq(text, 1, Len(text)) = text
  BY <1>3, <1>4 DEF IsBytes
<1>6. Decrypt(secret, auth_, salt, full) = text
  BY <1>3, <1>4, <1>5
<1> QED BY <1>3, <1>4, <1>6

(* What rad_demangle makes of any value is a value of bytes.                 *)
LEMMA DecryptIsBytes ==
  ASSUME NEW secret, NEW auth_, NEW salt, NEW mangled, IsBytes(mangled)
  PROVE  IsBytes(Decrypt(secret, auth_, salt, mangled))
<1>1. PICK l \in Nat : l = Len(mangled)
  BY BytesHaveLength
<1>2. PICK n \in Nat : n = l \div CHUNK
  BY DivChunk
<1>3. CHUNK * n <= Len(mangled)
  BY <1>1, <1>2, DivChunk
<1> DEFINE pad(k) == IF k = 1 THEN FirstMD5(secret, auth_, salt)
                     ELSE LaterMD5(secret, ChunkOf(mangled, k - 1))
           opened == [k \in 1..n |-> Xor(ChunkOf(mangled, k), pad(k))]
<1>4. Decrypt(secret, auth_, salt, mangled) = FlattenSeq(opened)
  BY <1>1, <1>2 DEF Decrypt
<1>5. \A k \in 1..n : opened[k] = Xor(ChunkOf(mangled, k), pad(k))
  OBVIOUS
<1>6. opened = [k \in 1..n |-> opened[k]]
  OBVIOUS
<1> HIDE DEF pad, opened
<1>7. \A k \in 1..n : IsBytes(opened[k]) /\ Len(opened[k]) = CHUNK
  <2> SUFFICES ASSUME NEW k \in 1..n PROVE IsBytes(opened[k]) /\ Len(opened[k]) = CHUNK
    OBVIOUS
  <2>1. IsBytes(ChunkOf(mangled, k)) /\ Len(ChunkOf(mangled, k)) = CHUNK
    BY <1>3, ChunkIs
  <2>2. opened[k] = Xor(ChunkOf(mangled, k), pad(k))
    BY <1>5
  <2> QED BY <2>1, <2>2, XorIsBytes
<1>8. IsBytes(FlattenSeq(opened))
  BY <1>6, <1>7, FlattenChunks
<1> QED BY <1>4, <1>8

(* From here on the steps name what they need of the assumption.             *)
HIDE SaltAssumption DEF SaltAssumption

-----------------------------------------------------------------------------
(* What each call leaves in result.                                          *)

(* Results know which call they are of.                                      *)
LEMMA CallOfResults ==
  /\ NoResult.call = "none"
  /\ \A call : Refused(call).call = call /\ Refused(call).ok = FALSE
  /\ \A why : Crash(why).call = "crash" /\ Crash(why).why = why
  BY DEF NoResult, Refused, Crash

(* Each call leaves a result of its own.  Of rad_get_vendor_attr:            *)
LEMMA GetVendorResult ==
  ASSUME GetVendorAttr
  PROVE  \/ result'.call = "vendor" \/ result' = Crash("overlong")
<1>1. \/ result' = Refused("vendor")
      \/ result' = Crash("overlong")
      \/ \E attrib_len \in Reads(held[HEADER]) :
           result' = [call |-> "vendor", ok |-> TRUE, on |-> stage,
                      vendor |-> SubSeq(held, 1, 4), type |-> held[5],
                      text |-> VendorData(held, attrib_len)]
  BY Zenon DEF GetVendorAttr
<1>2. \A text, type, raw : [call |-> "vendor", ok |-> TRUE, on |-> stage,
                           vendor |-> raw, type |-> type, text |-> text].call = "vendor"
  OBVIOUS
<1>3. Refused("vendor").call = "vendor"
  BY CallOfResults
<1> QED BY <1>1, <1>2, <1>3, Zenon

(* Of rad_demangle.                                                          *)
LEMMA DemangleResult ==
  ASSUME Demangle
  PROVE  \/ result'.call = "demangle"
         \/ ServerSecret = NoSecret /\ result' = Crash("no secret")
<1>1. \/ result' = Refused("demangle")
      \/ ServerSecret = NoSecret /\ result' = Crash("no secret")
      \/ \E text : result' = [call |-> "demangle", ok |-> TRUE, on |-> stage, text |-> text]
  BY Zenon DEF Demangle
<1>2. \A text : [call |-> "demangle", ok |-> TRUE, on |-> stage, text |-> text].call
                  = "demangle"
  OBVIOUS
<1> QED BY <1>1, <1>2, CallOfResults, Zenon

(* Of rad_demangle_mppe_key.                                                 *)
LEMMA DemangleKeyResult ==
  ASSUME DemangleMppeKey
  PROVE  \/ result'.call = "key"
         \/ ServerSecret = NoSecret /\ result' = Crash("no secret")
<1>1. \/ result' = Refused("key")
      \/ ServerSecret = NoSecret /\ result' = Crash("no secret")
      \/ \E text : result' = [call |-> "key", ok |-> TRUE, on |-> stage, text |-> text]
  BY Zenon DEF DemangleMppeKey
<1>2. \A text : [call |-> "key", ok |-> TRUE, on |-> stage, text |-> text].call = "key"
  OBVIOUS
<1> QED BY <1>1, <1>2, CallOfResults, Zenon

(* Of the conversions.                                                       *)
LEMMA ConvertResult ==
  /\ GetTag => result'.call = "tag"
  /\ ConvertInt => result'.call = "int"
  /\ ConvertString => result'.call = "string"
<1>1. GetTag => result'.call = "tag"
  BY CallOfResults DEF GetTag
<1>2. ConvertInt => result'.call = "int"
  BY DEF ConvertInt
<1>3. ConvertString => result'.call = "string"
  BY DEF ConvertString
<1> QED BY <1>1, <1>2, <1>3

(* Of radius_salt_encrypt_attr.                                              *)
SaltOk(len, random, behind) ==
  [call |-> "salt", ok |-> TRUE, on |-> stage, len |-> len, behind |-> behind,
   text |-> IF len = 0 THEN << >>
            ELSE Salted(ServerSecret, auth, random, Value(len), behind)]

LEMMA SaltResult ==
  ASSUME SaltValue
  PROVE  /\ result'.call = "salt"
         /\ \/ result' = Refused("salt")
            \/ \E len \in Lengths, random \in Randoms, behind \in Behind :
                 result' = SaltOk(len, random, behind)
<1>1. \/ result' = Refused("salt")
      \/ \E len \in Lengths, random \in Randoms, behind \in Behind :
           result' = SaltOk(len, random, behind)
  BY Zenon DEF SaltValue, SaltOk
<1>2. \A len, random, behind : SaltOk(len, random, behind).call = "salt"
  BY DEF SaltOk
<1>3. Refused("salt").call = "salt"
  BY CallOfResults
<1>4. result'.call = "salt"
  BY <1>1, <1>2, <1>3
<1> QED BY <1>1, <1>4

(* Every call names itself in result.                                        *)
LEMMA ResultOfStep ==
  ASSUME [Next]_vars
  PROVE  \/ UNCHANGED vars
         \/ Handle /\ result' = NoResult
         \/ SaltValue /\ result'.call = "salt"
         \/ GetVendorAttr /\ (result'.call = "vendor" \/ result' = Crash("overlong"))
         \/ Demangle /\ (\/ result'.call = "demangle"
                         \/ ServerSecret = NoSecret /\ result' = Crash("no secret"))
         \/ DemangleMppeKey /\ (\/ result'.call = "key"
                                \/ ServerSecret = NoSecret /\ result' = Crash("no secret"))
         \/ GetTag /\ result'.call = "tag"
         \/ ConvertInt /\ result'.call = "int"
         \/ ConvertString /\ result'.call = "string"
<1>1. Handle => result' = NoResult
  BY DEF Handle, AddServer, CreateRequest, SendAnswered, SendFails
<1>2. SaltValue => result'.call = "salt"
  BY SaltResult
<1> QED BY <1>1, <1>2, GetVendorResult, DemangleResult, DemangleKeyResult, ConvertResult,
           Zenon DEF Next, Convert

(* The length of a salted value is one the script may choose.                *)
SaltedInv == result.call = "salt" /\ result.ok => result.len \in Lengths

(* OverrunIsOneChunk for every digest size, every length and any calls: the  *)
(* loop of rad_salt_value leaves its buffer for values of whole chunks, by   *)
(* one chunk, and for no others.                                             *)
THEOREM OverrunIsExact == Spec => []OverrunIsOneChunk
<1>1. Init => SaltedInv
  BY DEF Init, SaltedInv, NoResult
<1>2. SaltedInv /\ [Next]_vars => SaltedInv'
  <2> SUFFICES ASSUME SaltedInv, [Next]_vars PROVE SaltedInv'
    OBVIOUS
  <2>1. CASE SaltValue
    <3>1. \A len, random, behind : SaltOk(len, random, behind).len = len
      BY DEF SaltOk
    <3> QED BY <2>1, <3>1, SaltResult, CallOfResults DEF SaltedInv
  <2>2. CASE result'.call # "salt"
    BY <2>2 DEF SaltedInv
  <2>3. CASE UNCHANGED vars
    BY <2>3 DEF vars, SaltedInv
  <2> QED BY <2>1, <2>2, <2>3, ResultOfStep, CallOfResults
<1>3. SaltedInv => OverrunIsOneChunk
  <2>1. Lengths \subseteq Nat
    BY ValuesAssumption DEF ValuesAssumption
  <2> QED BY <2>1, WrittenIs DEF SaltedInv, OverrunIsOneChunk
<1> QED BY <1>1, <1>2, <1>3, PTL DEF Spec

-----------------------------------------------------------------------------
(* The secret the encryption uses.                                           *)

(* The server contacted last is the first, or one of the table.              *)
SecretInv ==
  /\ secrets \in Seq(Secrets)
  /\ srv \in Nat \ {0}
  /\ srv = 1 \/ srv <= Len(secrets)

(* A secret is missing only while there is no server.                        *)
LEMMA SecretIsThere ==
  ASSUME SecretInv
  PROVE  /\ ServerSecret = NoSecret <=> secrets = << >>
         /\ secrets # << >> => ServerSecret = secrets[srv] /\ srv \in 1..Len(secrets)
<1>1. CASE secrets = << >>
  BY <1>1 DEF SecretInv, ServerSecret
<1>2. CASE secrets # << >>
  <2>1. srv \in 1..Len(secrets)
    BY <1>2 DEF SecretInv
  <2>2. secrets[srv] \in Secrets
    BY <2>1 DEF SecretInv
  <2>3. ServerSecret = secrets[srv]
    BY <2>1 DEF ServerSecret
  <2>4. NoSecret \notin Secrets
    BY ValuesAssumption DEF ValuesAssumption
  <2> QED BY <1>2, <2>1, <2>2, <2>3, <2>4
<1> QED BY <1>1, <1>2

(* SecretInv is inductive.                                                   *)
LEMMA SecretInvIsKept ==
  ASSUME SecretInv, [Next]_vars
  PROVE  SecretInv'
<1>1. CASE Handle /\ result' = NoResult
  <2>2. CASE AddServer
    <3>1. PICK secret \in Secrets : secrets' = Append(secrets, secret)
      BY <2>2 DEF AddServer
    <3>2. secrets' \in Seq(Secrets) /\ Len(secrets') = Len(secrets) + 1
      BY <3>1 DEF SecretInv
    <3>3. srv' = srv
      BY <2>2 DEF AddServer
    <3>4. srv <= Len(secrets')
      BY <3>2 DEF SecretInv
    <3> QED BY <3>2, <3>3, <3>4 DEF SecretInv
  <2>3. CASE CreateRequest
    BY <2>3 DEF CreateRequest, SecretInv
  <2>4. CASE SendAnswered \/ SendFails
    <3>1. PICK s \in 1..Len(secrets) : srv' = s
      BY <2>4 DEF SendAnswered, SendFails, Contact
    <3>2. secrets' = secrets
      BY <2>4 DEF SendAnswered, SendFails
    <3> QED BY <3>1, <3>2 DEF SecretInv
  <2> QED BY <1>1, <2>2, <2>3, <2>4 DEF Handle
<1>2. CASE UNCHANGED handleVars
  BY <1>2 DEF handleVars, SecretInv
<1>4. CASE UNCHANGED vars
  BY <1>4 DEF vars, handleVars, SecretInv
<1>5. /\ SaltValue \/ GetVendorAttr \/ Demangle \/ DemangleMppeKey \/ GetTag
           \/ ConvertInt \/ ConvertString
        => UNCHANGED handleVars
  BY DEF SaltValue, GetVendorAttr, Demangle, DemangleMppeKey, GetTag, ConvertInt,
         ConvertString
<1> QED BY <1>1, <1>2, <1>4, <1>5, ResultOfStep, Zenon

-----------------------------------------------------------------------------
(* What is written: padding, salts, numbers, tags and vendor attributes.     *)

(* Joined values and parts of values.                                        *)
IsJoin(u, s, t) ==
  /\ IsBytes(u)
  /\ Len(s) \in Nat /\ Len(t) \in Nat /\ Len(u) = Len(s) + Len(t)
  /\ \A i \in 1..Len(s) : u[i] = s[i]
  /\ \A i \in 1..Len(t) : u[Len(s) + i] = t[i]
IsPart(p, s, m, n) ==
  IsBytes(p) /\ Len(p) = n /\ \A i \in 1..n : p[i] = s[m + i]

(* Joining two sequences of bytes.                                           *)
LEMMA JoinedBytes ==
  ASSUME NEW s, NEW t, IsBytes(s), IsBytes(t)
  PROVE  IsJoin(s \o t, s, t)
  BY BytesJoined DEF IsJoin

(* A part of a sequence of bytes.                                            *)
LEMMA BytesOfPart ==
  ASSUME NEW s, IsBytes(s), NEW m \in Nat, NEW n \in Nat, m + n <= Len(s)
  PROVE  IsPart(SubSeq(s, m + 1, m + n), s, m, n)
  BY PartOfBytes DEF IsPart

(* What a byte is made of.                                                   *)
LEMMA ByteIs ==
  /\ BYTE \in Nat \ {0} /\ BYTE % 2 = 0
  /\ BYTE \div 2 \in Nat /\ BYTE = 2 * (BYTE \div 2)
  BY SaltAssumption DEF SaltAssumption

(* A plain byte is one without pads.                                         *)
LEMMA PlainIsByte ==
  ASSUME NEW b \in 0..(BYTE - 1)
  PROVE  IsByte(Plain(b)) /\ Plain(b).byte = b /\ Plain(b).pads = {}
  BY DEF IsByte, Plain

(* The padded length: whole chunks that hold the value.                      *)
LEMMA RoundUpHolds ==
  ASSUME NEW n \in Nat
  PROVE  \E m \in Nat : RoundUp(n) = CHUNK * m /\ RoundUp(n) \in Nat /\ n <= RoundUp(n)
<1> USE SaltAssumption DEF SaltAssumption
<1>1. PICK q \in Nat : q = n \div CHUNK
  BY DivChunk
<1>2. CHUNK * q \in Nat /\ CHUNK * q <= n /\ n < CHUNK * q + CHUNK
  BY <1>1, DivChunk
<1>3. CASE n % CHUNK = 0
  <2>1. RoundUp(n) = CHUNK * q
    BY <1>1, <1>3, RoundUpIs
  <2>2. n % CHUNK = n - CHUNK * q
    BY <1>1, DivChunk
  <2> QED BY <1>2, <1>3, <2>1, <2>2
<1>4. CASE n % CHUNK # 0
  <2>1. RoundUp(n) = CHUNK * q + CHUNK
    BY <1>1, <1>4, RoundUpIs
  <2>2. CHUNK * (q + 1) = CHUNK * q + CHUNK
    OBVIOUS
  <2> QED BY <1>2, <2>1, <2>2
<1> QED BY <1>3, <1>4

(* Padding makes whole chunks and keeps the text.                            *)
LEMMA PaddedIs ==
  ASSUME NEW text, IsBytes(text)
  PROVE  /\ IsBytes(Padded(text)) /\ Len(Padded(text)) = RoundUp(Len(text))
         /\ \A i \in 1..Len(text) : Padded(text)[i] = text[i]
<1>1. PICK n \in Nat : n = Len(text)
  BY BytesHaveLength
<1>2. PICK z \in Nat : RoundUp(n) = n + z
  <2>1. RoundUp(n) \in Nat /\ n <= RoundUp(n)
    BY RoundUpHolds
  <2>2. RoundUp(n) - n \in Nat /\ RoundUp(n) = n + (RoundUp(n) - n)
    BY <2>1
  <2> QED BY <2>2
<1>3. RoundUp(Len(text)) - Len(text) = z
  BY <1>1, <1>2
<1>4. PICK zeros : zeros = [i \in 1..z |-> Plain(0)]
  OBVIOUS
<1>5. IsBytes(zeros) /\ Len(zeros) = z
  <2>1. \A i \in 1..z : IsByte(zeros[i])
    BY <1>4, ByteIs, PlainIsByte
  <2>2. zeros = [i \in 1..z |-> zeros[i]]
    BY <1>4
  <2> QED BY <2>1, <2>2, BytesFrom
<1>6. Padded(text) = text \o zeros
  BY <1>3, <1>4 DEF Padded
<1> QED BY <1>1, <1>2, <1>5, <1>6, BytesJoined

(* Behind the value there are zeros.                                         *)
LEMMA PaddedBehind ==
  ASSUME NEW text, IsBytes(text),
         NEW i \in 1..RoundUp(Len(text)), i > Len(text)
  PROVE  Padded(text)[i] = Plain(0)
<1>1. PICK n \in Nat : n = Len(text)
  BY BytesHaveLength
<1>2. PICK z \in Nat : RoundUp(n) = n + z
  <2>1. RoundUp(n) \in Nat /\ n <= RoundUp(n)
    BY RoundUpHolds
  <2>2. RoundUp(n) - n \in Nat /\ RoundUp(n) = n + (RoundUp(n) - n)
    BY <2>1
  <2> QED BY <2>2
<1>3. RoundUp(Len(text)) - Len(text) = z
  BY <1>1, <1>2
<1>4. PICK zeros : zeros = [j \in 1..z |-> Plain(0)]
  OBVIOUS
<1>5. IsBytes(zeros) /\ Len(zeros) = z
  <2>1. \A j \in 1..z : IsByte(zeros[j])
    BY <1>4, ByteIs, PlainIsByte
  <2>2. zeros = [j \in 1..z |-> zeros[j]]
    BY <1>4
  <2> QED BY <2>1, <2>2, BytesFrom
<1>6. Padded(text) = text \o zeros
  BY <1>3, <1>4 DEF Padded
<1>7. IsJoin(Padded(text), text, zeros)
  BY <1>5, <1>6, JoinedBytes
<1>8. PICK j \in 1..z : i = n + j
  <2>1. i - n \in 1..z /\ i = n + (i - n)
    BY <1>1, <1>2
  <2> QED BY <2>1
<1> QED BY <1>1, <1>4, <1>5, <1>7, <1>8 DEF IsJoin

(* A salt is two bytes.                                                      *)
LEMMA SaltOfIs ==
  ASSUME NEW random \in Nat
  PROVE  IsBytes(SaltOf(random)) /\ Len(SaltOf(random)) = SALT_LEN
<1>1. PICK low \in 0..(BYTE - 1) : low = random % BYTE
  BY ByteIs
<1>2. random \div BYTE \in Nat
  BY ByteIs
<1>3. PICK high \in 0..(BYTE - 1) : high = (random \div BYTE) % BYTE
  BY <1>2, ByteIs
<1>4. PICK first \in 0..(BYTE - 1) :
        first = IF low >= BYTE \div 2 THEN low ELSE low + BYTE \div 2
  BY <1>1, ByteIs
<1>5. SaltOf(random) = Text(<<first, high>>)
  BY <1>1, <1>3, <1>4 DEF SaltOf
<1>6. <<first, high>> \in Seq(0..(BYTE - 1)) /\ Len(<<first, high>>) = 2
  OBVIOUS
<1> QED BY <1>5, <1>6, TextIsBytes DEF SALT_LEN

(* Division by BYTE, and how far it goes.                                    *)
LEMMA DivByte ==
  ASSUME NEW n \in Nat
  PROVE  \E q \in Nat, r \in 0..(BYTE - 1) :
           n \div BYTE = q /\ n % BYTE = r /\ n = q * BYTE + r
<1>1. BYTE \in Nat /\ BYTE > 0
  BY ByteIs
<1>2. PICK q \in Nat : q = n \div BYTE
  BY <1>1
<1>3. PICK r \in 0..(BYTE - 1) : r = n % BYTE
  BY <1>1
<1>4. n % BYTE = n - BYTE * (n \div BYTE)
  BY <1>1
<1>5. r = n - BYTE * q
  BY <1>2, <1>3, <1>4, Zenon
<1>6. n = q * BYTE + r
  <2>1. BYTE * q = q * BYTE /\ BYTE * q \in Nat
    BY <1>1
  <2> QED BY <1>5, <2>1
<1> QED BY <1>2, <1>3, <1>6, Zenon

(* Comparing numbers by their quotients.                                     *)
LEMMA BelowWhenDivided ==
  ASSUME NEW q \in Nat, NEW r \in Nat, NEW w \in Nat, q * BYTE + r < w * BYTE
  PROVE  q < w
<1>1. SUFFICES ASSUME w <= q PROVE FALSE
  OBVIOUS
<1>2. PICK d \in Nat : q = w + d
  BY <1>1, q - w \in Nat, q = w + (q - w)
<1>3. q * BYTE = w * BYTE + d * BYTE /\ w * BYTE \in Nat /\ d * BYTE \in Nat /\ q * BYTE \in Nat
  BY <1>2, ByteIs
<1> QED BY <1>3

(* A number written in four bytes is read back, modulo what four bytes       *)
(* hold.                                                                     *)
LEMMA WordIs ==
  ASSUME NEW n \in Int
  PROVE  /\ IsBytes(Word(n)) /\ Len(Word(n)) = 4
         /\ \A i \in 1..4 : Word(n)[i].pads = {}
         /\ WordValue(Word(n)) = n % WORD
         /\ WORD \in Nat \ {0} /\ WORD % 2 = 0 /\ n % WORD \in 0..(WORD - 1)
<1>1. PICK B2 \in Nat \ {0} : B2 = BYTE * BYTE
  BY ByteIs
<1>2. PICK B3 \in Nat \ {0} : B3 = B2 * BYTE
  BY ByteIs
<1>3. WORD = B3 * BYTE /\ WORD \in Nat \ {0}
  BY <1>1, <1>2, ByteIs DEF WORD
<1>4. WORD % 2 = 0
  <2>1. PICK h \in Nat : BYTE = 2 * h
    BY ByteIs
  <2>2. WORD = 2 * (B3 * h) /\ B3 * h \in Nat
    BY <1>3, <2>1
  <2>3. \A x \in Nat : (2 * x) % 2 = 0
    OBVIOUS
  <2> QED BY <2>2, <2>3
<1>5. PICK a \in Nat : a = n % WORD /\ a < B3 * BYTE
  BY <1>3
<1>6. PICK b \in Nat, x \in 0..(BYTE - 1) :
        a \div BYTE = b /\ a % BYTE = x /\ a = b * BYTE + x
  BY DivByte
<1>7. b < B2 * BYTE
  BY <1>2, <1>5, <1>6, BelowWhenDivided
<1>8. PICK c \in Nat, y \in 0..(BYTE - 1) :
        b \div BYTE = c /\ b % BYTE = y /\ b = c * BYTE + y
  BY DivByte
<1>9. c < BYTE * BYTE
  BY <1>1, <1>7, <1>8, BelowWhenDivided
<1>10. PICK d \in Nat, z \in 0..(BYTE - 1) :
         c \div BYTE = d /\ c % BYTE = z /\ c = d * BYTE + z
  BY DivByte
<1>11. d < BYTE
  BY <1>9, <1>10, ByteIs, BelowWhenDivided
<1>12. d \in 0..(BYTE - 1)
  BY <1>11, ByteIs
<1>13. PICK s : s = <<d, z, y, x>>
  OBVIOUS
<1>14. /\ s \in Seq(0..(BYTE - 1)) /\ Len(s) = 4
       /\ s[1] = d /\ s[2] = z /\ s[3] = y /\ s[4] = x
  BY <1>12, <1>13
<1>15. PICK t : t = Text(s)
  OBVIOUS
<1>16. Word(n) = t
  BY <1>5, <1>6, <1>8, <1>10, <1>13, <1>15, Zenon DEF Word
<1>17. IsBytes(t) /\ Len(t) = 4 /\ \A i \in 1..4 : t[i] = Plain(s[i])
  BY <1>14, <1>15, TextIsBytes
<1>18. \A i \in 1..4 : t[i].pads = {} /\ t[i].byte = s[i]
  BY <1>17 DEF Plain
<1>19. t[1].byte = d /\ t[2].byte = z /\ t[3].byte = y /\ t[4].byte = x
  BY <1>14, <1>18
<1>20. WordValue(t) = a
  BY <1>6, <1>8, <1>10, <1>19 DEF WordValue
<1>21. n % WORD \in 0..(WORD - 1)
  BY <1>3
<1> QED BY <1>3, <1>4, <1>5, <1>16, <1>17, <1>18, <1>20, <1>21

(* A tag and the text behind it.                                             *)
LEMMA PutTagIs ==
  ASSUME NEW tag \in 0..(BYTE - 1), NEW text, IsBytes(text)
  PROVE  /\ IsBytes(PutTag(tag, text)) /\ Len(PutTag(tag, text)) = 1 + Len(text)
         /\ PutTag(tag, text)[1] = Plain(tag)
         /\ \A i \in 1..Len(text) : PutTag(tag, text)[i + 1] = text[i]
<1>1. tag % BYTE = tag
  BY ByteIs
<1>2. PICK s : s = <<tag>>
  OBVIOUS
<1>3. s \in Seq(0..(BYTE - 1)) /\ Len(s) = 1 /\ s[1] = tag
  BY <1>2
<1>4. PICK head : head = Text(s)
  OBVIOUS
<1>5. IsBytes(head) /\ Len(head) = 1 /\ head[1] = Plain(tag)
  BY <1>3, <1>4, TextIsBytes
<1>6. PutTag(tag, text) = head \o text
  BY <1>1, <1>2, <1>4, Zenon DEF PutTag
<1>7. \A i \in 1..Len(text) : 1 + i = i + 1
  BY BytesHaveLength
<1>8. PICK all : all = head \o text
  OBVIOUS
<1>9. /\ IsBytes(all) /\ Len(all) = Len(head) + Len(text)
      /\ \A i \in 1..Len(head) : all[i] = head[i]
      /\ \A i \in 1..Len(text) : all[Len(head) + i] = text[i]
  <2>1. IsBytes(head)
    BY <1>5
  <2>2. IsJoin(all, head, text)
    BY <2>1, <1>8, JoinedBytes
  <2> QED BY <2>2 DEF IsJoin
<1> QED BY <1>5, <1>6, <1>7, <1>8, <1>9

(* A vendor attribute: what rad_get_vendor_attr finds in it.                 *)
IsVendorAttr(raw, vendor, type, text) ==
  /\ IsBytes(raw) /\ Len(raw) = HEADER + Len(text)
  /\ SubSeq(raw, 1, 4) = Word(vendor)
  /\ raw[5].byte = type % BYTE
  /\ Reads(raw[HEADER]) = {Len(text) + 2}
  /\ VendorData(raw, Len(text) + 2) = text

(* rad_put_vendor_attr writes vendor, type, length and data at their         *)
(* places.                                                                   *)
LEMMA PutVendorIs ==
  ASSUME NEW vendor \in Int, NEW type \in Nat, NEW text, IsBytes(text),
         2 + Len(text) < BYTE,
         NEW raw, raw = PutVendor(vendor, type, text)
  PROVE  IsVendorAttr(raw, vendor, type, text)
<1>1. PICK n \in Nat : n = Len(text)
  BY BytesHaveLength
<1>2. PICK word : word = Word(vendor)
  OBVIOUS
<1>3. IsBytes(word) /\ Len(word) = 4
  BY <1>2, WordIs
<1>4. PICK t \in 0..(BYTE - 1) : t = type % BYTE
  BY ByteIs
<1>5. PICK len \in 0..(BYTE - 1) : len = n + 2 /\ (n + 2) % BYTE = len
  BY <1>1, ByteIs
<1>6. PICK s : s = <<t, len>>
  OBVIOUS
<1>7. s \in Seq(0..(BYTE - 1)) /\ Len(s) = 2 /\ s[1] = t /\ s[2] = len
  BY <1>6
<1>8. PICK head : head = Text(s)
  OBVIOUS
<1>9. IsBytes(head) /\ Len(head) = 2 /\ head[1] = Plain(t) /\ head[2] = Plain(len)
  BY <1>7, <1>8, TextIsBytes
<1>10. PICK front : front = word \o head
  OBVIOUS
<1>11. /\ IsBytes(front) /\ Len(front) = 6
       /\ \A i \in 1..4 : front[i] = word[i]
       /\ front[5] = Plain(t) /\ front[6] = Plain(len)
  <2>1. /\ IsBytes(front) /\ Len(front) = Len(word) + Len(head)
        /\ \A i \in 1..Len(word) : front[i] = word[i]
        /\ \A i \in 1..Len(head) : front[Len(word) + i] = head[i]
    <3>1. IsBytes(word) /\ IsBytes(head)
      BY <1>3, <1>9
    <3>2. IsJoin(front, word, head)
      BY <1>10, <3>1, JoinedBytes
    <3> QED BY <3>2 DEF IsJoin
  <2> QED BY <1>3, <1>9, <2>1
<1>12. raw = front \o text
  BY <1>1, <1>2, <1>4, <1>5, <1>6, <1>8, <1>10, Zenon DEF PutVendor
<1>13. /\ IsBytes(raw) /\ Len(raw) = 6 + n
       /\ \A i \in 1..6 : raw[i] = front[i]
       /\ \A i \in 1..n : raw[6 + i] = text[i]
  <2>1. IsBytes(front)
    BY <1>11
  <2>2. /\ IsBytes(raw) /\ Len(raw) = Len(front) + Len(text)
        /\ \A i \in 1..Len(front) : raw[i] = front[i]
        /\ \A i \in 1..Len(text) : raw[Len(front) + i] = text[i]
    <3>1. IsJoin(raw, front, text)
      BY <1>12, <2>1, JoinedBytes
    <3> QED BY <3>1 DEF IsJoin
  <2> QED BY <1>1, <1>11, <2>2
<1>14. SubSeq(raw, 1, 4) = word
  <2>1. 0 + 4 <= Len(raw) /\ 0 \in Nat /\ 4 \in Nat
    BY <1>13
  <2>2. PICK w : w = SubSeq(raw, 0 + 1, 0 + 4)
    OBVIOUS
  <2>3. IsBytes(w) /\ Len(w) = 4 /\ \A i \in 1..4 : w[i] = raw[0 + i]
    <3>1. IsBytes(raw)
      BY <1>13
    <3>2. IsPart(w, raw, 0, 4)
      BY <2>1, <2>2, <3>1, BytesOfPart
    <3> QED BY <3>2 DEF IsPart
  <2>4. \A i \in 1..Len(w) : w[i] = word[i]
    BY <1>11, <1>13, <2>3
  <2>5. w = word
    BY <1>3, <2>3, <2>4, SameBytes
  <2> QED BY <2>2, <2>5
<1>15. VendorData(raw, n + 2) = text
  <2>1. 6 + n <= Len(raw) /\ 6 \in Nat
    BY <1>13
  <2>2. PICK w : w = SubSeq(raw, 6 + 1, 6 + n)
    OBVIOUS
  <2>3. IsBytes(w) /\ Len(w) = n /\ \A i \in 1..n : w[i] = raw[6 + i]
    <3>1. IsBytes(raw)
      BY <1>13
    <3>2. IsPart(w, raw, 6, n)
      BY <2>1, <2>2, <3>1, BytesOfPart
    <3> QED BY <3>2 DEF IsPart
  <2>4. w = text
    BY <1>1, <1>13, <2>3, SameBytes
  <2>5. VendorData(raw, n + 2) = w
    BY <2>2 DEF VendorData, HEADER
  <2> QED BY <2>4, <2>5
<1>16. raw[5].byte = t /\ raw[6].byte = len /\ raw[6].pads = {}
  BY <1>11, <1>13 DEF Plain
<1>17. Reads(raw[6]) = {n + 2}
  BY <1>5, <1>16 DEF Reads
<1> QED BY <1>1, <1>2, <1>4, <1>13, <1>14, <1>15, <1>16, <1>17 DEF IsVendorAttr, HEADER

-----------------------------------------------------------------------------
(* What a server writes for a letter.                                        *)

(* m opens to the padded text.                                               *)
IsMangled(m, secret, auth_, salt, text) ==
  /\ IsBytes(m) /\ Len(m) = RoundUp(Len(text))
  /\ Decrypt(secret, auth_, salt, m) = Padded(text)

(* A padded text that is encrypted opens to itself.                          *)
LEMMA PaddedOpens ==
  ASSUME NEW secret, NEW auth_, NEW salt, NEW text, IsBytes(text)
  PROVE  IsMangled(Encrypt(secret, auth_, salt, Padded(text)), secret, auth_, salt, text)
<1>1. PICK p : p = Padded(text)
  OBVIOUS
<1>2. IsBytes(p) /\ Len(p) = RoundUp(Len(text))
  BY <1>1, PaddedIs
<1>3. PICK n \in Nat : RoundUp(Len(text)) = CHUNK * n
  BY BytesHaveLength, RoundUpHolds
<1>4. IsBytes(p) /\ Len(p) = CHUNK * n
  BY <1>2, <1>3
<1>5. /\ IsBytes(Encrypt(secret, auth_, salt, p))
      /\ Len(Encrypt(secret, auth_, salt, p)) = Len(p)
      /\ Decrypt(secret, auth_, salt, Encrypt(secret, auth_, salt, p)) = p
  BY <1>4, EncryptedOpens
<1>6. PICK m : m = Encrypt(secret, auth_, salt, p)
  OBVIOUS
<1>7. IsMangled(m, secret, auth_, salt, text)
  BY <1>1, <1>2, <1>5, <1>6 DEF IsMangled
<1> QED BY <1>1, <1>6, <1>7

(* The plain key of a letter: its length in front of it.                     *)
PlainKey(text) == Text(<<Len(text)>> \o text)
IsPlainKey(p, text) ==
  /\ IsBytes(p) /\ Len(p) = 1 + Len(text)
  /\ p[1] = Plain(Len(text))
  /\ \A i \in 1..Len(text) : p[i + 1] = Plain(text[i])

(* A key before encryption: its length, the key, and padding.                *)
LEMMA PlainKeyIs ==
  ASSUME NEW text \in Seq(0..(BYTE - 1)), Len(text) < BYTE
  PROVE  IsPlainKey(PlainKey(text), text)
<1>1. PICK n \in 0..(BYTE - 1) : n = Len(text)
  BY ByteIs
<1>2. PICK s : s = <<n>> \o text
  OBVIOUS
<1>3. /\ s \in Seq(0..(BYTE - 1)) /\ Len(s) = 1 + n /\ s[1] = n
      /\ \A i \in 1..n : s[i + 1] = text[i]
  BY <1>1, <1>2
<1>4. PICK p : p = Text(s)
  OBVIOUS
<1>5. IsBytes(p) /\ Len(p) = Len(s) /\ \A i \in 1..Len(s) : p[i] = Plain(s[i])
  BY <1>3, <1>4, TextIsBytes
<1>6. 1 \in 1..Len(s) /\ \A i \in 1..n : i + 1 \in 1..Len(s)
  BY <1>1, <1>3
<1>7. IsPlainKey(p, text)
  BY <1>1, <1>3, <1>5, <1>6 DEF IsPlainKey
<1> QED BY <1>1, <1>2, <1>4, <1>7 DEF PlainKey

(* w opens to a key as rad_demangle_mppe_key expects it.                     *)
IsKey(w, secret, auth_, text) ==
  /\ IsBytes(w) /\ Len(w) = SALT_LEN + RoundUp(1 + Len(text))
  /\ Decrypt(secret, auth_, SubSeq(w, 1, SALT_LEN),
             SubSeq(w, SALT_LEN + 1, Len(w))) = Padded(PlainKey(text))

(* A key as the server encrypts it opens to its length and its bytes.        *)
LEMMA KeyOpens ==
  ASSUME NEW secret, NEW auth_, NEW random \in Nat,
         NEW text \in Seq(0..(BYTE - 1)), Len(text) < BYTE,
         NEW w, w = SaltOf(random) \o
                      Encrypt(secret, auth_, SaltOf(random), Padded(PlainKey(text)))
  PROVE  IsKey(w, secret, auth_, text)
<1>1. PICK salt : salt = SaltOf(random)
  OBVIOUS
<1>2. IsBytes(salt) /\ Len(salt) = 2
  BY <1>1, SaltOfIs DEF SALT_LEN
<1>3. PICK p : p = PlainKey(text)
  OBVIOUS
<1>4. IsBytes(p) /\ Len(p) = 1 + Len(text)
  BY <1>3, PlainKeyIs DEF IsPlainKey
<1>5. PICK m : m = Encrypt(secret, auth_, salt, Padded(p))
  OBVIOUS
<1>6. IsMangled(m, secret, auth_, salt, p)
  BY <1>4, <1>5, PaddedOpens
<1>7. IsBytes(m) /\ Len(m) = RoundUp(1 + Len(text))
  BY <1>4, <1>6 DEF IsMangled
<1>8. PICK k \in Nat : k = Len(m)
  BY <1>7, BytesHaveLength
<1>9. IsJoin(w, salt, m)
  BY <1>1, <1>2, <1>3, <1>5, <1>7, JoinedBytes
<1>10. /\ IsBytes(w) /\ Len(w) = 2 + k
       /\ \A i \in 1..2 : w[i] = salt[i]
       /\ \A i \in 1..k : w[2 + i] = m[i]
  BY <1>2, <1>8, <1>9 DEF IsJoin
<1>11. SubSeq(w, 1, 2) = salt
  <2>1. PICK x : x = SubSeq(w, 0 + 1, 0 + 2)
    OBVIOUS
  <2>2. 0 + 2 <= Len(w) /\ 0 \in Nat /\ 2 \in Nat
    BY <1>10
  <2>3. IsPart(x, w, 0, 2)
    BY <1>10, <2>1, <2>2, BytesOfPart
  <2>4. IsBytes(x) /\ Len(x) = 2 /\ \A i \in 1..2 : x[i] = salt[i]
    BY <1>10, <2>3 DEF IsPart
  <2>5. x = salt
    BY <1>2, <2>4, SameBytes
  <2>6. 0 + 1 = 1 /\ 0 + 2 = 2
    OBVIOUS
  <2> QED BY <2>1, <2>5, <2>6, Zenon
<1>12. SubSeq(w, 3, Len(w)) = m
  <2>1. PICK x : x = SubSeq(w, 2 + 1, 2 + k)
    OBVIOUS
  <2>2. 2 + k <= Len(w) /\ 2 \in Nat
    BY <1>10
  <2>3. IsPart(x, w, 2, k)
    BY <1>10, <2>1, <2>2, BytesOfPart
  <2>4. IsBytes(x) /\ Len(x) = k /\ \A i \in 1..k : x[i] = m[i]
    BY <1>10, <2>3 DEF IsPart
  <2>5. x = m
    BY <1>7, <1>8, <2>4, SameBytes
  <2> QED BY <1>10, <2>1, <2>5
<1>13. Decrypt(secret, auth_, salt, m) = Padded(p)
  BY <1>6 DEF IsMangled
<1>14. Len(w) = 2 + RoundUp(1 + Len(text))
  BY <1>7, <1>8, <1>10
<1>15. Decrypt(secret, auth_, SubSeq(w, 1, 2), SubSeq(w, 2 + 1, Len(w)))
         = Padded(PlainKey(text))
  <2>1. 2 + 1 = 3
    OBVIOUS
  <2> QED BY <1>3, <1>11, <1>12, <1>13, <2>1
<1> QED BY <1>10, <1>14, <1>15 DEF IsKey, SALT_LEN

(* What w tells of the letter without a secret, and what it opens to.        *)
IsWire(w, l) ==
  /\ IsBytes(w) /\ Len(w) = WireLen(l)
  /\ l.form = "tagged" => w = PutTag(l.tag, Text(l.text))
  /\ l.form = "string" => w = Text(l.text)
  /\ l.form = "number" => w = Word(l.number)
OpensTo(w, l, secret, auth_) ==
  /\ l.form = "key" => IsKey(w, secret, auth_, l.text)
  /\ l.form = "mangled" => IsMangled(w, secret, auth_, << >>, Text(l.text))

(* The letters of the model are ones a server can write.                     *)
LEMMA LetterIs ==
  ASSUME NEW l \in Letters
  PROVE  IsLetter(l) /\ \A random \in Randoms : random \in Nat
  BY ValuesAssumption DEF ValuesAssumption

(* What a server writes has the form, and opens to the text, of its letter.  *)
LEMMA WireIs ==
  ASSUME NEW l \in Letters, NEW secret, NEW auth_, NEW random \in Randoms,
         NEW w, w = WireValue(l, secret, auth_, random)
  PROVE  IsWire(w, l) /\ OpensTo(w, l, secret, auth_)
<1>1. IsLetter(l) /\ random \in Nat
  BY LetterIs
<1>2. CASE l.form = "key"
  <2>1. PICK text \in Seq(0..(BYTE - 1)) : text = l.text
    BY <1>1, <1>2 DEF IsLetter
  <2>2. w = SaltOf(random) \o
              Encrypt(secret, auth_, SaltOf(random), Padded(PlainKey(text)))
    BY <1>2, <2>1 DEF WireValue, PlainKey
  <2>3. WireLen(l) = SALT_LEN + RoundUp(1 + Len(text))
    BY <1>2, <2>1 DEF WireLen
  <2>4. Len(text) < BYTE
    <3>1. 2 + (SALT_LEN + RoundUp(1 + Len(text))) < BYTE
      BY <1>1, <2>3 DEF IsLetter
    <3>2. 1 + Len(text) \in Nat
      BY <2>1
    <3>3. RoundUp(1 + Len(text)) \in Nat /\ 1 + Len(text) <= RoundUp(1 + Len(text))
      BY <3>2, RoundUpHolds
    <3> QED BY <3>1, <3>2, <3>3, ByteIs DEF SALT_LEN
  <2>5. IsKey(w, secret, auth_, text)
    BY <1>1, <2>2, <2>4, KeyOpens
  <2>6. IsBytes(w) /\ Len(w) = WireLen(l)
    BY <2>3, <2>5 DEF IsKey
  <2> QED BY <1>2, <2>1, <2>5, <2>6 DEF IsWire, OpensTo
<1>3. CASE l.form = "mangled"
  <2>1. PICK text \in Seq(0..(BYTE - 1)) : text = l.text
    BY <1>1, <1>3 DEF IsLetter
  <2>2. w = Encrypt(secret, auth_, << >>, Padded(Text(text)))
    BY <1>3, <2>1 DEF WireValue
  <2>3. IsBytes(Text(text)) /\ Len(Text(text)) = Len(text)
    BY TextIsBytes
  <2>4. IsMangled(w, secret, auth_, << >>, Text(text))
    BY <2>2, <2>3, PaddedOpens
  <2>5. IsBytes(w) /\ Len(w) = RoundUp(Len(text))
    BY <2>3, <2>4 DEF IsMangled
  <2>6. WireLen(l) = RoundUp(Len(text))
    BY <1>3, <2>1 DEF WireLen
  <2> QED BY <1>3, <2>1, <2>4, <2>5, <2>6 DEF IsWire, OpensTo
<1>4. CASE l.form = "tagged"
  <2>1. PICK text \in Seq(0..(BYTE - 1)) : text = l.text
    BY <1>1, <1>4 DEF IsLetter
  <2>2. IsBytes(Text(text)) /\ Len(Text(text)) = Len(text)
    BY TextIsBytes
  <2>3. w = PutTag(l.tag, Text(text)) /\ l.tag \in 0..(BYTE - 1)
    BY <1>1, <1>4, <2>1 DEF WireValue, IsLetter
  <2>4. IsBytes(w) /\ Len(w) = 1 + Len(text)
    BY <2>2, <2>3, PutTagIs
  <2>5. WireLen(l) = 1 + Len(text)
    BY <1>4, <2>1 DEF WireLen
  <2> QED BY <1>4, <2>1, <2>3, <2>4, <2>5 DEF IsWire, OpensTo
<1>5. CASE l.form = "string"
  <2>1. PICK text \in Seq(0..(BYTE - 1)) : text = l.text
    BY <1>1, <1>5 DEF IsLetter
  <2>2. w = Text(text) /\ WireLen(l) = Len(text)
    BY <1>5, <2>1 DEF WireValue, WireLen
  <2>3. IsBytes(w) /\ Len(w) = Len(text)
    BY <2>2, TextIsBytes
  <2> QED BY <1>5, <2>1, <2>2, <2>3 DEF IsWire, OpensTo
<1>6. CASE l.form = "number"
  <2>1. l.number \in Int
    BY <1>1, <1>6 DEF IsLetter
  <2>2. w = Word(l.number) /\ WireLen(l) = 4
    BY <1>6 DEF WireValue, WireLen
  <2>3. IsBytes(w) /\ Len(w) = 4
    BY <2>1, <2>2, WordIs
  <2> QED BY <1>6, <2>2, <2>3 DEF IsWire, OpensTo
<1> QED BY <1>1, <1>2, <1>3, <1>4, <1>5, <1>6 DEF IsLetter

-----------------------------------------------------------------------------
(* What the script holds.                                                    *)

(* It is what the server wrote, or the data in it, and while it is fresh it  *)
(* opens with the secret and the authenticator of the moment.                *)
HeldInv ==
  /\ stage \in {"none", "attr", "data"} /\ fresh \in BOOLEAN
  /\ IsBytes(held)
  /\ stage # "none" =>
       /\ letter.what \in Letters /\ letter.form = letter.what.form
       /\ letter.vendor \in Int /\ letter.type \in Nat
       /\ IsWire(letter.data, letter.what)
  /\ stage = "attr" => held = PutVendor(letter.vendor, letter.type, letter.data)
  /\ stage = "data" => held = letter.data
  /\ fresh =>
       /\ stage # "none"
       /\ srv \in 1..Len(secrets)
       /\ OpensTo(letter.data, letter.what, secrets[srv], auth)

(* The script can open the attribute of an answer.                           *)
LEMMA AttrIs ==
  ASSUME HeldInv, stage = "attr"
  PROVE  /\ IsVendorAttr(held, letter.vendor, letter.type, letter.data)
         /\ letter.vendor \in Int /\ letter.type \in Nat
         /\ IsBytes(letter.data) /\ Len(letter.data) \in Nat
<1>1. PICK data : data = letter.data
  OBVIOUS
<1>2. PICK vendor \in Int, type \in Nat : vendor = letter.vendor /\ type = letter.type
  BY DEF HeldInv
<1>3. PICK raw : raw = held
  OBVIOUS
<1>4. PICK l \in Letters : l = letter.what
  BY DEF HeldInv
<1>5. IsBytes(data) /\ Len(data) = WireLen(l)
  BY <1>1, <1>4 DEF HeldInv, IsWire
<1>6. 2 + Len(data) < BYTE
  BY <1>5, LetterIs DEF IsLetter
<1>7. raw = PutVendor(vendor, type, data)
  BY <1>1, <1>2, <1>3 DEF HeldInv
<1>8. IsVendorAttr(raw, vendor, type, data)
  BY <1>5, <1>6, <1>7, PutVendorIs
<1>9. Len(data) \in Nat
  BY <1>5, BytesHaveLength
<1> QED BY <1>1, <1>2, <1>3, <1>5, <1>8, <1>9

(* The calls that read what the script holds leave it alone, but for opening *)
(* a vendor attribute.                                                       *)
LEMMA CallsReadOnly ==
  SaltValue \/ Demangle \/ DemangleMppeKey \/ GetTag \/ ConvertInt \/ ConvertString
    => UNCHANGED <<handleVars, scriptVars>>
  BY DEF SaltValue, Demangle, DemangleMppeKey, GetTag, ConvertInt, ConvertString

(* rad_get_vendor_attr takes the data out of the attribute, or changes       *)
(* nothing.                                                                  *)
LEMMA VendorOpens ==
  ASSUME HeldInv, GetVendorAttr
  PROVE  /\ UNCHANGED <<handleVars, letter, fresh>>
         /\ \/ UNCHANGED <<held, stage>>
            \/ stage = "attr" /\ stage' = "data" /\ held' = letter.data
<1>1. UNCHANGED <<handleVars, letter, fresh>>
  BY DEF GetVendorAttr
<1>2. \/ UNCHANGED <<held, stage>>
      \/ \E attrib_len \in Reads(held[HEADER]) :
           stage = "attr" /\ stage' = "data" /\ held' = VendorData(held, attrib_len)
  BY Zenon DEF GetVendorAttr
<1>3. ASSUME NEW attrib_len \in Reads(held[HEADER]), stage = "attr",
             held' = VendorData(held, attrib_len)
      PROVE  held' = letter.data
  <2>1. IsVendorAttr(held, letter.vendor, letter.type, letter.data)
    BY <1>3, AttrIs
  <2>2. attrib_len = Len(letter.data) + 2
    BY <1>3, <2>1 DEF IsVendorAttr
  <2> QED BY <1>3, <2>1, <2>2 DEF IsVendorAttr
<1> QED BY <1>1, <1>2, <1>3, Zenon

(* HeldInv is inductive on top of SecretInv.                                 *)
LEMMA HeldInvIsKept ==
  ASSUME SecretInv, HeldInv, [Next]_vars
  PROVE  HeldInv'
<1>1. CASE AddServer
  <2>1. UNCHANGED <<srv, auth, held, stage, letter, fresh>>
    BY <1>1 DEF AddServer, scriptVars
  <2>2. PICK secret \in Secrets : secrets' = Append(secrets, secret)
    BY <1>1 DEF AddServer
  <2>3. /\ Len(secrets) \in Nat /\ Len(secrets') = Len(secrets) + 1
        /\ \A i \in 1..Len(secrets) : secrets'[i] = secrets[i]
    BY <2>2 DEF SecretInv
  <2>4. srv \in 1..Len(secrets) =>
          srv \in 1..Len(secrets') /\ secrets'[srv] = secrets[srv]
    BY <2>3 DEF SecretInv
  <2> QED BY <2>1, <2>4 DEF HeldInv
<1>2. CASE CreateRequest
  BY <1>2 DEF CreateRequest, HeldInv
<1>3. CASE SendFails
  BY <1>3 DEF SendFails, HeldInv
<1>4. CASE SendAnswered
  <2>1. PICK s \in 1..Len(secrets), l \in Letters, v \in Vendors, random \in Randoms :
          /\ Contact(s)
          /\ held' = PutVendor(v[1], v[2], WireValue(l, secrets[s], auth', random))
          /\ letter' = [form |-> l.form, what |-> l, vendor |-> v[1], type |-> v[2],
                        data |-> WireValue(l, secrets[s], auth', random)]
    BY <1>4 DEF SendAnswered
  <2>2. PICK secret, a : secret = secrets[s] /\ a = auth'
    OBVIOUS
  <2>3. PICK w : w = WireValue(l, secret, a, random)
    OBVIOUS
  <2>4. IsWire(w, l) /\ OpensTo(w, l, secret, a)
    BY <2>3, WireIs
  <2>5. PICK vendor \in Int, type \in Nat : vendor = v[1] /\ type = v[2]
    BY ValuesAssumption DEF ValuesAssumption
  <2>6. held' = PutVendor(vendor, type, w)
    BY <2>1, <2>2, <2>3, <2>5, Zenon
  <2>7. letter' = [form |-> l.form, what |-> l, vendor |-> vendor, type |-> type,
                   data |-> w]
    BY <2>1, <2>2, <2>3, <2>5, Zenon
  <2>8. /\ letter'.form = l.form /\ letter'.what = l /\ letter'.vendor = vendor
        /\ letter'.type = type /\ letter'.data = w
    BY <2>7
  <2>9. srv' = s /\ secrets' = secrets /\ stage' = "attr" /\ fresh' = TRUE
    BY <1>4, <2>1 DEF SendAnswered, Contact
  <2>10. secrets'[srv'] = secret /\ srv' \in 1..Len(secrets')
    BY <2>2, <2>9
  <2>11. IsBytes(held')
    <3>1. IsBytes(w) /\ 2 + Len(w) < BYTE
      BY <2>4, LetterIs DEF IsWire, IsLetter
    <3>2. PICK raw : raw = PutVendor(vendor, type, w)
      OBVIOUS
    <3>3. IsBytes(raw)
      BY <3>1, <3>2, PutVendorIs DEF IsVendorAttr
    <3> QED BY <2>6, <3>2, <3>3
  <2>12. OpensTo(letter'.data, letter'.what, secrets'[srv'], auth')
    BY <2>2, <2>4, <2>8, <2>10
  <2>13. IsWire(letter'.data, letter'.what)
    BY <2>4, <2>8
  <2> QED BY <2>6, <2>8, <2>9, <2>10, <2>11, <2>12, <2>13 DEF HeldInv
<1>5. CASE UNCHANGED <<handleVars, scriptVars>>
  BY <1>5 DEF handleVars, scriptVars, HeldInv
<1>6. CASE GetVendorAttr
  <2>1. /\ UNCHANGED <<handleVars, letter, fresh>>
        /\ \/ UNCHANGED <<held, stage>>
           \/ stage = "attr" /\ stage' = "data" /\ held' = letter.data
    BY <1>6, VendorOpens
  <2>2. CASE UNCHANGED <<held, stage>>
    BY <2>1, <2>2 DEF handleVars, HeldInv
  <2>3. CASE stage = "attr" /\ stage' = "data" /\ held' = letter.data
    BY <2>1, <2>3 DEF handleVars, HeldInv, IsWire
  <2> QED BY <2>1, <2>2, <2>3
<1>7. UNCHANGED vars => UNCHANGED <<handleVars, scriptVars>>
  BY DEF vars
<1> QED BY <1>1, <1>2, <1>3, <1>4, <1>5, <1>6, <1>7, CallsReadOnly
        DEF Next, Handle, Convert

-----------------------------------------------------------------------------
(* The theorems about values.                                                *)

ValuesInv == SecretInv /\ HeldInv

(* Both hold in every reachable state.                                       *)
LEMMA ValuesInvHolds ==
  Spec => []ValuesInv
<1>1. Init => ValuesInv
  <2> SUFFICES ASSUME Init PROVE ValuesInv
    OBVIOUS
  <2>1. SecretInv
    BY DEF Init, SecretInv
  <2>2. IsBytes(held)
    BY DEF Init, IsBytes
  <2>3. HeldInv
    BY <2>2 DEF Init, HeldInv
  <2> QED BY <2>1, <2>3 DEF ValuesInv
<1>2. ValuesInv /\ [Next]_vars => ValuesInv'
  BY SecretInvIsKept, HeldInvIsKept DEF ValuesInv
<1> QED BY <1>1, <1>2, PTL DEF Spec

(* The bounds of the counters, and what the last call was.                   *)
CountsInv ==
  /\ Len(secrets) <= MAXSERVERS
  /\ acct \in BOOLEAN
  /\ nonce \in 0..MaxCreates
  /\ result.call \in Calls \cup {"none", "crash"}

(* CountsInv is inductive.                                                   *)
LEMMA CountsInvIsKept ==
  ASSUME SecretInv, CountsInv, [Next]_vars
  PROVE  CountsInv'
<1>1. MAXSERVERS \in Nat /\ MaxCreates \in Nat
  BY ValuesAssumption DEF ValuesAssumption
<1>2. result'.call \in Calls \cup {"none", "crash"}
  <2>1. UNCHANGED vars => result' = result
    BY DEF vars
  <2> QED BY ZenonT(30), <2>1, ResultOfStep, CallOfResults DEF CountsInv, Calls
<1>3. CASE AddServer
  <2>1. PICK secret \in Secrets : secrets' = Append(secrets, secret)
    BY <1>3 DEF AddServer
  <2>2. Len(secrets) \in Nat /\ Len(secrets') = Len(secrets) + 1
    BY <2>1 DEF SecretInv
  <2>3. Len(secrets') <= MAXSERVERS
    BY <1>1, <1>3, <2>2 DEF AddServer
  <2> QED BY <1>2, <1>3, <2>3 DEF AddServer, CountsInv
<1>4. CASE CreateRequest
  <2>1. nonce' \in 0..MaxCreates
    BY <1>1, <1>4 DEF CreateRequest, CountsInv
  <2> QED BY <1>2, <1>4, <2>1 DEF CreateRequest, CountsInv
<1>5. CASE SendAnswered \/ SendFails
  BY <1>2, <1>5 DEF SendAnswered, SendFails, CountsInv
<1>6. CASE UNCHANGED handleVars
  BY <1>2, <1>6 DEF handleVars, CountsInv
<1>7. GetVendorAttr => UNCHANGED handleVars
  BY DEF GetVendorAttr
<1>8. UNCHANGED vars => UNCHANGED handleVars
  BY DEF vars
<1> QED BY <1>3, <1>4, <1>5, <1>6, <1>7, <1>8, CallsReadOnly DEF Next, Handle, Convert

(* ValuesTypeOK for every size of a byte and a digest, any number of servers *)
(* and letters of any length that fits: what the script holds is made of     *)
(* bytes, also after it has opened a vendor attribute.                       *)
THEOREM ValuesTypeCorrect == Spec => []ValuesTypeOK
<1>1. Init => CountsInv
  <2> SUFFICES ASSUME Init PROVE CountsInv
    OBVIOUS
  <2>1. MAXSERVERS \in Nat /\ MaxCreates \in Nat
    BY ValuesAssumption DEF ValuesAssumption
  <2>2. Len(secrets) = 0 /\ nonce = 0
    BY DEF Init
  <2>4. acct \in BOOLEAN
    BY DEF Init
  <2>3. result.call = "none"
    BY CallOfResults DEF Init
  <2>5. Len(secrets) <= MAXSERVERS /\ nonce \in 0..MaxCreates
    BY <2>1, <2>2
  <2>6. result.call \in Calls \cup {"none", "crash"}
    BY <2>3
  <2> QED BY <2>4, <2>5, <2>6, Zenon DEF CountsInv
<1>2. ValuesInv /\ CountsInv /\ [Next]_vars => CountsInv'
  BY CountsInvIsKept DEF ValuesInv
<1>3. ValuesInv /\ CountsInv => ValuesTypeOK
  <2> SUFFICES ASSUME ValuesInv, CountsInv PROVE ValuesTypeOK
    OBVIOUS
  <2>1. \A i \in 1..Len(held) : held[i].byte \in 0..(BYTE - 1)
    BY DEF ValuesInv, HeldInv, IsBytes, IsByte
  <2> QED BY <2>1 DEF ValuesInv, SecretInv, HeldInv, CountsInv, ValuesTypeOK
<1> QED BY <1>1, <1>2, <1>3, ValuesInvHolds, PTL DEF Spec

-----------------------------------------------------------------------------
(* rad_get_vendor_attr                                                       *)

(* What it leaves in result.                                                 *)
LEMMA VendorResult ==
  ASSUME GetVendorAttr
  PROVE  \/ VendorTooShort(Len(held)) /\ result' = Refused("vendor")
         \/ ~VendorTooShort(Len(held)) /\ \E attrib_len \in Reads(held[HEADER]) :
              \/ VendorRefused(Len(held), attrib_len) /\ result' = Refused("vendor")
              \/ result' = Crash("overlong")
              \/ /\ ~VendorRefused(Len(held), attrib_len)
                 /\ result' = [call |-> "vendor", ok |-> TRUE, on |-> stage,
                               vendor |-> SubSeq(held, 1, 4), type |-> held[5],
                               text |-> VendorData(held, attrib_len)]
  BY Zenon DEF GetVendorAttr

(* A refusal records what it was about.                                      *)
LEMMA RefusedOn ==
  \A call : /\ Refused(call).call = call /\ Refused(call).ok = FALSE
            /\ Refused(call).on = stage
  BY DEF Refused

(* What rad_get_vendor_attr returns was written by rad_put_vendor_attr.      *)
LEMMA VendorComesBack ==
  ASSUME HeldInv, GetVendorAttr
  PROVE  VendorReadsBack'
<1>1. SUFFICES ASSUME ReadAs("vendor", "attr")'
               PROVE  /\ result'.ok <=> Len(letter'.data) >= 2
                      /\ result'.ok =>
                           /\ result'.text = letter'.data
                           /\ WordValue(result'.vendor) = letter'.vendor % WORD
                           /\ result'.type.byte = letter'.type % BYTE
  BY DEF VendorReadsBack
<1>2. result'.call = "vendor" /\ result'.on = "attr"
  BY <1>1 DEF ReadAs
<1>3. letter' = letter
  BY DEF GetVendorAttr
<1>4. stage = "attr"
  <2>2. \/ result' = Refused("vendor")
        \/ result' = Crash("overlong")
        \/ \E attrib_len \in Reads(held[HEADER]) :
             result' = [call |-> "vendor", ok |-> TRUE, on |-> stage,
                        vendor |-> SubSeq(held, 1, 4), type |-> held[5],
                        text |-> VendorData(held, attrib_len)]
    BY VendorResult, Zenon
  <2>3. result'.on = stage \/ result' = Crash("overlong")
    <3>1. ASSUME NEW attrib_len \in Reads(held[HEADER]),
                 result' = [call |-> "vendor", ok |-> TRUE, on |-> stage,
                            vendor |-> SubSeq(held, 1, 4), type |-> held[5],
                            text |-> VendorData(held, attrib_len)]
          PROVE  result'.on = stage
      BY <3>1
    <3> QED BY <2>2, <3>1, RefusedOn, Zenon
  <2> QED BY <1>2, <2>3, CallOfResults
<1>5. /\ IsVendorAttr(held, letter.vendor, letter.type, letter.data)
      /\ letter.vendor \in Int /\ letter.type \in Nat /\ Len(letter.data) \in Nat
  BY <1>4, AttrIs
<1>6. PICK n \in Nat : n = Len(letter.data)
  BY <1>5
<1>7. /\ Len(held) = 6 + n
      /\ \A attrib_len \in Reads(held[HEADER]) : attrib_len = n + 2
  BY <1>5, <1>6 DEF IsVendorAttr, HEADER
<1>8. ~VendorRefused(Len(held), n + 2)
  BY <1>7 DEF VendorRefused
<1>9. VendorTooShort(Len(held)) <=> n < 2
  BY <1>7 DEF VendorTooShort, SIZEOF_VENDOR
<1>10. CASE n < 2
  <2>1. result' = Refused("vendor")
    BY <1>9, <1>10, VendorResult, Zenon
  <2> QED BY <1>3, <1>6, <1>10, <2>1, CallOfResults
<1>11. CASE ~(n < 2)
  <2>1. result' = [call |-> "vendor", ok |-> TRUE, on |-> stage,
                   vendor |-> SubSeq(held, 1, 4), type |-> held[5],
                   text |-> VendorData(held, n + 2)]
    <3>1. result' # Crash("overlong")
      BY <1>2, CallOfResults
    <3> QED BY <1>7, <1>8, <1>9, <1>11, <3>1, VendorResult, Zenon
  <2>2. /\ result'.ok = TRUE /\ result'.vendor = SubSeq(held, 1, 4)
        /\ result'.type = held[5] /\ result'.text = VendorData(held, n + 2)
    BY <2>1
  <2>3. result'.text = letter.data
    BY <1>5, <1>6, <2>2 DEF IsVendorAttr
  <2>4. WordValue(result'.vendor) = letter.vendor % WORD
    BY <1>5, <2>2, WordIs DEF IsVendorAttr
  <2>5. result'.type.byte = letter.type % BYTE
    BY <1>5, <2>2 DEF IsVendorAttr
  <2> QED BY <1>3, <1>6, <1>11, <2>2, <2>3, <2>4, <2>5
<1> QED BY <1>6, <1>10, <1>11

(* VendorReadsBack for any vendor, type and data: rad_get_vendor_attr        *)
(* inverts rad_put_vendor_attr, and refuses the attributes that are shorter  *)
(* than its structure.                                                       *)
THEOREM VendorComesBackAlways == Spec => []VendorReadsBack
<1>1. Init => VendorReadsBack
  BY CallOfResults DEF Init, VendorReadsBack, ReadAs
<1>2. ValuesInv /\ VendorReadsBack /\ [Next]_vars => VendorReadsBack'
  <2> SUFFICES ASSUME ValuesInv, VendorReadsBack, [Next]_vars PROVE VendorReadsBack'
    OBVIOUS
  <2>1. CASE GetVendorAttr
    BY <2>1, VendorComesBack DEF ValuesInv
  <2>2. CASE result'.call # "vendor"
    BY <2>2 DEF VendorReadsBack, ReadAs
  <2>3. CASE UNCHANGED vars
    BY <2>3 DEF vars, scriptVars, VendorReadsBack, ReadAs
  <2> QED BY <2>1, <2>2, <2>3, ResultOfStep, CallOfResults
<1> QED BY <1>1, <1>2, ValuesInvHolds, PTL DEF Spec

-----------------------------------------------------------------------------
(* rad_demangle and rad_demangle_mppe_key                                    *)

(* What the value opens to as a key, and the bytes behind it.                *)
Opened == Decrypt(ServerSecret, auth, SubSeq(held, 1, SALT_LEN),
                  SubSeq(held, SALT_LEN + 1, Len(held)))
KeyByte(i) == IF i \in 1..Len(Opened) THEN Opened[i] ELSE Indeterminate
KeyOf(len) == [i \in 1..len |-> KeyByte(i + 1)]

(* The three ends of rad_demangle_mppe_key.                                  *)
LEMMA KeyResult ==
  ASSUME DemangleMppeKey
  PROVE  /\ UNCHANGED <<handleVars, scriptVars>>
         /\ \/ Len(held) % CHUNK # SALT_LEN /\ result' = Refused("key")
            \/ ServerSecret = NoSecret /\ result' = Crash("no secret")
            \/ Len(held) % CHUNK = SALT_LEN /\ \E len \in Reads(KeyByte(1)) :
                 \/ KeyRefused(Len(held), len) /\ result' = Refused("key")
                 \/ /\ ~KeyRefused(Len(held), len)
                    /\ result' = [call |-> "key", ok |-> TRUE, on |-> stage,
                                  text |-> KeyOf(len)]
  BY Zenon DEF DemangleMppeKey, Opened, KeyByte, KeyOf

(* The three ends of rad_demangle.                                           *)
LEMMA MangledResult ==
  ASSUME Demangle
  PROVE  /\ UNCHANGED <<handleVars, scriptVars>>
         /\ \/ DemangleRefused(Len(held)) /\ result' = Refused("demangle")
            \/ ServerSecret = NoSecret /\ result' = Crash("no secret")
            \/ /\ ~DemangleRefused(Len(held))
               /\ result' = [call |-> "demangle", ok |-> TRUE, on |-> stage,
                             text |-> Decrypt(ServerSecret, auth, << >>, held)]
  BY Zenon DEF Demangle

(* While the answer is fresh, the secret is that of the server it came from. *)
LEMMA FreshIs ==
  ASSUME ValuesInv, fresh
  PROVE  /\ ServerSecret = secrets[srv] /\ ServerSecret # NoSecret
         /\ stage = "data" =>
              /\ held = letter.data
              /\ letter.what \in Letters /\ letter.form = letter.what.form
              /\ OpensTo(held, letter.what, ServerSecret, auth)
<1>1. srv \in 1..Len(secrets) /\ secrets # << >>
  BY DEF ValuesInv, HeldInv
<1>2. ServerSecret = secrets[srv] /\ ServerSecret # NoSecret
  BY <1>1, SecretIsThere DEF ValuesInv
<1> QED BY <1>2 DEF ValuesInv, HeldInv

(* A mangled text of a fresh answer.                                         *)
LEMMA MangledOpens ==
  ASSUME ValuesInv, fresh, stage = "data", letter.form = "mangled", Demangle
  PROVE  /\ result'.ok <=> RoundUp(Len(letter.what.text)) <= MAXMANGLED
         /\ result'.ok => result'.text = Padded(Text(letter.what.text))
<1>1. PICK l \in Letters : l = letter.what /\ l.form = "mangled"
  BY FreshIs
<1>2. PICK text \in Seq(0..(BYTE - 1)) : text = l.text
  BY <1>1, LetterIs DEF IsLetter
<1>3. IsMangled(held, ServerSecret, auth, << >>, Text(text))
  BY <1>1, <1>2, FreshIs DEF OpensTo
<1>4. Len(Text(text)) = Len(text)
  BY TextIsBytes
<1>5. /\ Len(held) = RoundUp(Len(text))
      /\ Decrypt(ServerSecret, auth, << >>, held) = Padded(Text(text))
  BY <1>3, <1>4 DEF IsMangled
<1>6. PICK m \in Nat : RoundUp(Len(text)) = CHUNK * m
  BY RoundUpHolds
<1>7. Len(held) % CHUNK = 0
  BY <1>5, <1>6, WholeChunks
<1>8. DemangleRefused(Len(held)) <=> ~(RoundUp(Len(text)) <= MAXMANGLED)
  <2>1. RoundUp(Len(text)) \in Nat
    BY RoundUpHolds
  <2> QED BY <1>5, <1>7, <2>1, SaltAssumption DEF DemangleRefused, SaltAssumption
<1>9. CASE DemangleRefused(Len(held))
  <2>1. result' = Refused("demangle")
    BY <1>9, FreshIs, MangledResult
  <2> QED BY <1>1, <1>2, <1>8, <1>9, <2>1, CallOfResults
<1>10. CASE ~DemangleRefused(Len(held))
  <2>1. result' = [call |-> "demangle", ok |-> TRUE, on |-> stage,
                   text |-> Decrypt(ServerSecret, auth, << >>, held)]
    BY <1>10, FreshIs, MangledResult, Zenon
  <2>2. result'.ok = TRUE /\ result'.text = Decrypt(ServerSecret, auth, << >>, held)
    BY <2>1
  <2> QED BY <1>1, <1>2, <1>5, <1>8, <1>10, <2>2
<1> QED BY <1>9, <1>10

(* A key of a fresh answer.                                                  *)
LEMMA KeyOpensAgain ==
  ASSUME ValuesInv, fresh, stage = "data", letter.form = "key", DemangleMppeKey
  PROVE  /\ result'.ok <=> Len(letter.what.text) <= MPPE_KEY_LEN
         /\ result'.ok => result'.text = Text(letter.what.text)
<1>1. PICK l \in Letters : l = letter.what /\ l.form = "key"
  BY FreshIs
<1>2. PICK text \in Seq(0..(BYTE - 1)) : text = l.text
  BY <1>1, LetterIs DEF IsLetter
<1>3. PICK n \in Nat : n = Len(text)
  OBVIOUS
<1>4. PICK up \in Nat, m \in Nat :
        up = RoundUp(1 + n) /\ up = CHUNK * m /\ 1 + n <= up
  <2>1. 1 + n \in Nat
    OBVIOUS
  <2> QED BY <2>1, RoundUpHolds
<1>5. 2 + (2 + up) < BYTE
  <2>1. IsLetter(l)
    BY LetterIs
  <2>2. WireLen(l) = 2 + up
    BY <1>1, <1>2, <1>3, <1>4 DEF WireLen, SALT_LEN
  <2> QED BY <2>1, <2>2 DEF IsLetter
<1>6. n \in 0..(BYTE - 1) /\ n < BYTE
  BY <1>4, <1>5, ByteIs
<1>7. IsKey(held, ServerSecret, auth, text)
  BY <1>1, <1>2, FreshIs DEF OpensTo
<1>8. Len(held) = 2 + up
  BY <1>3, <1>4, <1>7 DEF IsKey, SALT_LEN
<1>9. Len(held) % CHUNK = SALT_LEN
  <2>1. CHUNK * m <= 2 + up /\ 2 + up < CHUNK * m + CHUNK /\ CHUNK * m \in Nat
    BY <1>4, SaltAssumption DEF SaltAssumption
  <2>2. (2 + up) \div CHUNK = m
    BY <2>1, DivIsUnique
  <2>3. (2 + up) % CHUNK = (2 + up) - CHUNK * m
    <3>1. (2 + up) % CHUNK = (2 + up) - CHUNK * ((2 + up) \div CHUNK)
      BY DivChunk
    <3> QED BY <2>2, <3>1, Zenon
  <2>4. (2 + up) - CHUNK * m = 2
    BY <1>4, <2>1
  <2> QED BY <1>8, <2>3, <2>4 DEF SALT_LEN
<1>10. PICK p : p = PlainKey(text)
  OBVIOUS
<1>11. /\ IsBytes(p) /\ Len(p) = 1 + n /\ p[1] = Plain(n)
       /\ \A i \in 1..n : p[i + 1] = Plain(text[i])
  BY <1>3, <1>6, <1>10, PlainKeyIs DEF IsPlainKey
<1>12. Opened = Padded(p)
  BY <1>7, <1>10 DEF IsKey, Opened
<1>13. /\ Len(Opened) = up
       /\ \A i \in 1..(1 + n) : Opened[i] = p[i]
  BY <1>4, <1>11, <1>12, PaddedIs
<1>14. KeyByte(1) = Plain(n)
  BY <1>4, <1>11, <1>13 DEF KeyByte
<1>15. Reads(KeyByte(1)) = {n}
  BY <1>14 DEF Reads, Plain
<1>16. \A i \in 1..n : KeyByte(i + 1) = Plain(text[i])
  <2> SUFFICES ASSUME NEW i \in 1..n PROVE KeyByte(i + 1) = Plain(text[i])
    OBVIOUS
  <2>1. i + 1 \in 1..up /\ i + 1 \in 1..(1 + n)
    BY <1>4
  <2> QED BY <1>11, <1>13, <2>1 DEF KeyByte
<1>17. KeyOf(n) = Text(text)
  BY <1>3, <1>16 DEF KeyOf, Text
<1>18. KeyRefused(Len(held), n) <=> ~(n <= MPPE_KEY_LEN)
  BY <1>4, <1>8, SaltAssumption DEF KeyRefused, SaltAssumption
<1>19. \/ KeyRefused(Len(held), n) /\ result' = Refused("key")
       \/ /\ ~KeyRefused(Len(held), n)
          /\ result' = [call |-> "key", ok |-> TRUE, on |-> stage, text |-> KeyOf(n)]
  <2>1. \A len \in Reads(KeyByte(1)) : len = n
    BY <1>15
  <2> QED BY <1>9, <2>1, FreshIs, KeyResult, Zenon
<1>20. CASE KeyRefused(Len(held), n)
  <2>1. result' = Refused("key")
    BY <1>19, <1>20
  <2> QED BY <1>1, <1>2, <1>3, <1>18, <1>20, <2>1, CallOfResults
<1>21. CASE ~KeyRefused(Len(held), n)
  <2>1. result' = [call |-> "key", ok |-> TRUE, on |-> stage, text |-> KeyOf(n)]
    BY <1>19, <1>21
  <2>2. result'.ok = TRUE /\ result'.text = KeyOf(n)
    BY <2>1
  <2> QED BY <1>1, <1>2, <1>3, <1>17, <1>18, <1>21, <2>2
<1> QED BY <1>20, <1>21

(* AnswerOpens for every secret, authenticator, text and key, any number of  *)
(* servers added and calls made since: until the next request, a mangled     *)
(* text and a key open to what the server wrote.                             *)
THEOREM AnswersAlwaysOpen == Spec => []AnswerOpens
<1>1. Init => AnswerOpens
  BY DEF Init, AnswerOpens
<1>2. ValuesInv /\ AnswerOpens /\ [Next]_vars => AnswerOpens'
  <2> SUFFICES ASSUME ValuesInv, AnswerOpens, [Next]_vars PROVE AnswerOpens'
    OBVIOUS
  <2>1. CASE Demangle
    <3>1. SUFFICES ASSUME fresh', ReadAs("demangle", "data")', Wrote("mangled")'
                   PROVE  /\ result'.ok <=> RoundUp(Len(letter'.what.text)) <= MAXMANGLED
                          /\ result'.ok => result'.text = Padded(Text(letter'.what.text))
      <4>1. result'.call # "key"
        BY <2>1, DemangleResult, CallOfResults
      <4> QED BY <4>1 DEF AnswerOpens, ReadAs
    <3>2. UNCHANGED <<handleVars, scriptVars>>
      BY <2>1, MangledResult
    <3>3. fresh /\ letter.form = "mangled" /\ letter' = letter
      BY <3>1, <3>2 DEF scriptVars, Wrote
    <3>4. stage = "data"
      <4>1. \/ result' = Refused("demangle")
            \/ result' = Crash("no secret")
            \/ result' = [call |-> "demangle", ok |-> TRUE, on |-> stage,
                          text |-> Decrypt(ServerSecret, auth, << >>, held)]
        BY <2>1, MangledResult, Zenon
      <4>2. result' = [call |-> "demangle", ok |-> TRUE, on |-> stage,
                       text |-> Decrypt(ServerSecret, auth, << >>, held)]
              => result'.on = stage
        OBVIOUS
      <4>3. result'.on = stage \/ result' = Crash("no secret")
        BY <4>1, <4>2, RefusedOn, Zenon
      <4> QED BY <3>1, <4>3, CallOfResults DEF ReadAs
    <3> QED BY <2>1, <3>3, <3>4, MangledOpens
  <2>2. CASE DemangleMppeKey
    <3>1. SUFFICES ASSUME fresh', ReadAs("key", "data")', Wrote("key")'
                   PROVE  /\ result'.ok <=> Len(letter'.what.text) <= MPPE_KEY_LEN
                          /\ result'.ok => result'.text = Text(letter'.what.text)
      <4>1. result'.call # "demangle"
        BY <2>2, DemangleKeyResult, CallOfResults
      <4> QED BY <4>1 DEF AnswerOpens, ReadAs
    <3>2. UNCHANGED <<handleVars, scriptVars>>
      BY <2>2, KeyResult
    <3>3. fresh /\ letter.form = "key" /\ letter' = letter
      BY <3>1, <3>2 DEF scriptVars, Wrote
    <3>4. stage = "data"
      <4>1. \/ result' = Refused("key")
            \/ result' = Crash("no secret")
            \/ \E len : result' = [call |-> "key", ok |-> TRUE, on |-> stage,
                                   text |-> KeyOf(len)]
        BY <2>2, KeyResult, Zenon
      <4>2. ASSUME NEW len, result' = [call |-> "key", ok |-> TRUE, on |-> stage,
                                       text |-> KeyOf(len)]
            PROVE  result'.on = stage
        BY <4>2
      <4>3. result'.on = stage \/ result' = Crash("no secret")
        BY <4>1, <4>2, RefusedOn, Zenon
      <4> QED BY <3>1, <4>3, CallOfResults DEF ReadAs
    <3> QED BY <2>2, <3>3, <3>4, KeyOpensAgain
  <2>3. CASE result'.call # "demangle" /\ result'.call # "key"
    BY <2>3 DEF AnswerOpens, ReadAs
  <2>4. CASE UNCHANGED vars
    BY <2>4 DEF vars, scriptVars, AnswerOpens, ReadAs, Wrote
  <2> QED BY <2>1, <2>2, <2>3, <2>4, ResultOfStep, CallOfResults
<1> QED BY <1>1, <1>2, ValuesInvHolds, PTL DEF Spec

-----------------------------------------------------------------------------
(* The conversions.                                                          *)

(* Signed is what the property calls it.                                     *)
LEMMA SignedIs ==
  ASSUME NEW w \in Nat \ {0}, NEW x \in 0..(w - 1)
  PROVE  Signed(x, w) = SignedAgain(x, w)
<1>1. w \div 2 \in Nat
  OBVIOUS
<1> QED BY <1>1 DEF Signed, SignedAgain

(* A string ends in front of its first zero byte.                            *)
IsCString(r, bytes) ==
  /\ IsPrefix(r, bytes)
  /\ 0 \notin ToSet(r)
  /\ Len(r) < Len(bytes) => bytes[Len(r) + 1] = 0

(* A C string ends at its first zero byte.                                   *)
LEMMA CStringIs ==
  ASSUME NEW bytes \in Seq(0..(BYTE - 1))
  PROVE  IsCString(CString(bytes), bytes)
<1> DEFINE I == {i \in 1..Len(bytes) : bytes[i] = 0}
           nul == SelectInSeq(bytes, LAMBDA b : b = 0)
<1>1. nul = IF I # {} THEN Min(I) ELSE 0
  BY DEF SelectInSeq
<1>2. PICK n \in Nat : n = Len(bytes)
  OBVIOUS
<1>3. ASSUME I # {}
      PROVE  Min(I) \in I /\ \A j \in I : Min(I) <= j
  <2>1. I \subseteq Nat
    OBVIOUS
  <2>2. \E i \in I : \A j \in I : i <= j
    <3> HIDE DEF I
    <3> QED BY <1>3, <2>1, LeastNumber
  <2> HIDE DEF I
  <2> QED BY <2>2 DEF Min
<1>4. PICK k \in 0..n :
        /\ CString(bytes) = SubSeq(bytes, 1, k)
        /\ \A i \in 1..k : bytes[i] # 0
        /\ k < n => bytes[k + 1] = 0
  <2>1. CASE I = {}
    <3>1. nul = 0
      BY <1>1, <2>1
    <3>2. CString(bytes) = SubSeq(bytes, 1, n)
      BY <1>2, <3>1 DEF CString
    <3>3. \A i \in 1..n : bytes[i] # 0
      BY <1>2, <2>1
    <3> QED BY <3>2, <3>3
  <2>2. CASE I # {}
    <3>1. PICK m : m = Min(I)
      OBVIOUS
    <3>2. m \in I /\ \A j \in I : m <= j
      BY <1>3, <2>2, <3>1
    <3>3. m \in 1..n /\ bytes[m] = 0
      BY <1>2, <3>2
    <3>4. \A i \in 1..(m - 1) : bytes[i] # 0
      <4> SUFFICES ASSUME NEW i \in 1..(m - 1), bytes[i] = 0 PROVE FALSE
        OBVIOUS
      <4>1. i \in I
        BY <1>2, <3>3
      <4>2. m <= i
        BY <3>2, <4>1
      <4> QED BY <3>3, <4>2
    <3>5. nul = m
      BY <1>1, <2>2, <3>1
    <3>6. CString(bytes) = SubSeq(bytes, 1, m - 1)
      BY <3>3, <3>5 DEF CString
    <3> QED BY <3>3, <3>4, <3>6
  <2> QED BY <2>1, <2>2
<1> HIDE DEF I, nul
<1>5. PICK r : r = CString(bytes)
  OBVIOUS
<1>6. /\ r \in Seq(0..(BYTE - 1)) /\ Len(r) = k
      /\ \A i \in 1..k : r[i] = bytes[i]
  <2>1. PICK T : T = 0..(BYTE - 1)
    OBVIOUS
  <2>2. bytes \in Seq(T) /\ k \in Nat /\ k <= Len(bytes)
    BY <1>2, <2>1
  <2>3. /\ SubSeq(bytes, 1, k) \in Seq(T) /\ Len(SubSeq(bytes, 1, k)) = k
        /\ \A i \in 1..k : SubSeq(bytes, 1, k)[i] = bytes[i]
    BY <2>2
  <2> QED BY <1>4, <1>5, <2>1, <2>3
<1>7. SubSeq(r, 1, k) = SubSeq(bytes, 1, k)
  BY <1>4, <1>5, <1>6
<1>8. IsPrefix(r, bytes)
  BY <1>2, <1>6, <1>7 DEF IsPrefix
<1>9. 0 \notin ToSet(r)
  BY <1>4, <1>6 DEF ToSet
<1> QED BY <1>2, <1>4, <1>5, <1>6, <1>8, <1>9 DEF IsCString

(* The data the script holds is what the server wrote.                       *)
LEMMA DataIs ==
  ASSUME HeldInv, stage = "data"
  PROVE  /\ held = letter.data /\ letter.what \in Letters
         /\ letter.form = letter.what.form /\ IsLetter(letter.what)
         /\ IsWire(held, letter.what)
  BY LetterIs DEF HeldInv

(* A number comes back, as a signed one.                                     *)
LEMMA NumberComesBack ==
  ASSUME HeldInv, stage = "data", letter.form = "number", ConvertInt
  PROVE  result'.number = SignedAgain(letter.what.number % WORD, WORD)
<1>1. PICK n \in Int : n = letter.what.number
  BY DataIs DEF IsLetter
<1>2. held = Word(n)
  BY <1>1, DataIs DEF IsWire
<1>3. PICK x : x = n % WORD
  OBVIOUS
<1>4. WordValue(held) = x /\ WORD \in Nat \ {0} /\ WORD % 2 = 0 /\ x \in 0..(WORD - 1)
  BY <1>1, <1>2, <1>3, WordIs
<1>5. result'.number = Signed(x, WORD)
  <2>1. PICK four : four = held
    OBVIOUS
  <2>2. Len(four) = 4 /\ \A i \in 1..4 : four[i].pads = {}
    BY <1>1, <1>2, <2>1, WordIs DEF Plain
  <2>3. IsBytes(four)
    BY <2>1 DEF HeldInv
  <2>4. FourBytes = four
    <3>1. FourBytes = [i \in 1..4 |-> four[i]]
      BY <2>1, <2>2 DEF FourBytes
    <3>2. four = [i \in 1..4 |-> four[i]]
      BY <2>2, <2>3 DEF IsBytes
    <3> QED BY <3>1, <3>2
  <2>5. IsPlain(four)
    BY <2>2 DEF IsPlain
  <2>6. result'.number = CvtInt(four)
    BY <2>4, <2>5 DEF ConvertInt
  <2>7. CvtInt(four) = Signed(x, WORD)
    BY <1>4, <2>1 DEF CvtInt
  <2> QED BY <2>6, <2>7
<1> QED BY <1>1, <1>3, <1>4, <1>5, SignedIs

(* The tag and the value behind it come back.                                *)
LEMMA TagComesBack ==
  ASSUME HeldInv, stage = "data", letter.form = "tagged", GetTag
  PROVE  /\ result'.number = SignedAgain(letter.what.tag, BYTE)
         /\ result'.text = Text(letter.what.text)
<1>1. PICK tag \in 0..(BYTE - 1), text \in Seq(0..(BYTE - 1)) :
        tag = letter.what.tag /\ text = letter.what.text
  BY DataIs DEF IsLetter
<1>2. held = PutTag(tag, Text(text))
  BY <1>1, DataIs DEF IsWire
<1>3. PICK t : t = Text(text)
  OBVIOUS
<1>4. PICK n \in Nat : n = Len(text)
  OBVIOUS
<1>5. IsBytes(t) /\ Len(t) = n
  BY <1>3, <1>4, TextIsBytes
<1>6. PICK raw : raw = held
  OBVIOUS
<1>7. /\ IsBytes(raw) /\ Len(raw) = 1 + n /\ raw[1] = Plain(tag)
      /\ \A i \in 1..n : raw[i + 1] = t[i]
  BY <1>2, <1>3, <1>5, <1>6, PutTagIs
<1>8. raw # << >>
  BY <1>4, <1>7
<1>9. Reads(raw[1]) = {tag}
  BY <1>7 DEF Reads, Plain
<1>10. result' = [call |-> "tag", ok |-> TRUE, on |-> stage,
                  number |-> TagOf(tag), text |-> UntaggedOf(raw)]
  <2>1. \E byte \in Reads(raw[1]) :
          result' = [call |-> "tag", ok |-> TRUE, on |-> stage,
                     number |-> TagOf(byte), text |-> UntaggedOf(raw)]
    BY <1>6, <1>8, Zenon DEF GetTag
  <2> QED BY <1>9, <2>1
<1>11. UntaggedOf(raw) = t
  <2>1. PICK p : p = SubSeq(raw, 1 + 1, 1 + n)
    OBVIOUS
  <2>2. 1 + n <= Len(raw) /\ 1 \in Nat
    BY <1>7
  <2>3. IsPart(p, raw, 1, n)
    BY <1>7, <2>1, <2>2, BytesOfPart
  <2>4. IsBytes(p) /\ Len(p) = n /\ \A i \in 1..n : p[i] = raw[1 + i]
    BY <2>3 DEF IsPart
  <2>5. \A i \in 1..n : p[i] = t[i]
    BY <1>7, <2>4
  <2>6. p = t
    BY <1>5, <2>4, <2>5, SameBytes
  <2> QED BY <1>7, <2>1, <2>6 DEF UntaggedOf
<1>12. result'.number = Signed(tag, BYTE) /\ result'.text = t
  BY <1>10, <1>11 DEF TagOf
<1>13. Signed(tag, BYTE) = SignedAgain(tag, BYTE)
  BY ByteIs, SignedIs
<1> QED BY <1>1, <1>3, <1>12, <1>13

(* A string comes back up to its first zero byte.                            *)
LEMMA StringComesBack ==
  ASSUME HeldInv, stage = "data", letter.form = "string", ConvertString
  PROVE  IsCString(result'.text, letter.what.text)
<1>1. PICK text \in Seq(0..(BYTE - 1)) : text = letter.what.text
  BY DataIs DEF IsLetter
<1>2. held = Text(text)
  BY <1>1, DataIs DEF IsWire
<1>3. PICK n \in Nat : n = Len(text)
  OBVIOUS
<1>4. Len(held) = n /\ \A i \in 1..n : held[i].byte = text[i]
  <2>1. Len(held) = n /\ \A i \in 1..n : held[i] = Plain(text[i])
    BY <1>2, <1>3, TextIsBytes
  <2>2. \A b : Plain(b).byte = b
    BY DEF Plain
  <2> QED BY <2>1, <2>2
<1>5. PICK bytes : bytes = [i \in 1..Len(held) |-> held[i].byte]
  OBVIOUS
<1>6. bytes = text
  <2>1. bytes = [i \in 1..n |-> text[i]]
    BY <1>4, <1>5
  <2> QED BY <1>3, <2>1
<1>7. result'.text = CString(bytes)
  <2>1. IsPlain(held)
    <3>1. \A i \in 1..n : held[i] = Plain(text[i])
      BY <1>2, <1>3, TextIsBytes
    <3>2. \A b : Plain(b).pads = {}
      BY DEF Plain
    <3> QED BY <1>4, <3>1, <3>2 DEF IsPlain
  <2> QED BY <1>5, <2>1 DEF ConvertString
<1> QED BY <1>1, <1>6, <1>7, CStringIs

(* ConversionsReadBack for every number, tag and string: the conversions     *)
(* lose nothing of the text behind a tag and in front of the first zero of a *)
(* string, and the upper half of the numbers and of the tags becomes         *)
(* negative.                                                                 *)
THEOREM ConversionsComeBack == Spec => []ConversionsReadBack
<1>1. Init => ConversionsReadBack
  BY CallOfResults DEF Init, ConversionsReadBack, ReadAs
<1>2. ValuesInv /\ ConversionsReadBack /\ [Next]_vars => ConversionsReadBack'
  <2> SUFFICES ASSUME ValuesInv, ConversionsReadBack, [Next]_vars
               PROVE  ConversionsReadBack'
    OBVIOUS
  <2>1. CASE ConvertInt
    <3>1. result'.call = "int" /\ result'.on = stage /\ letter' = letter
      BY <2>1, ConvertResult DEF ConvertInt, scriptVars
    <3>2. stage = "data" /\ letter.form = "number" =>
            result'.number = SignedAgain(letter.what.number % WORD, WORD)
      BY <2>1, NumberComesBack DEF ValuesInv
    <3> QED BY <3>1, <3>2 DEF ConversionsReadBack, ReadAs, Wrote
  <2>2. CASE GetTag
    <3>1. result'.call = "tag" /\ letter' = letter
      BY <2>2, ConvertResult DEF GetTag, scriptVars
    <3>2. result'.on = stage
      <4>1. ASSUME NEW byte, result' = [call |-> "tag", ok |-> TRUE, on |-> stage,
                                        number |-> TagOf(byte), text |-> UntaggedOf(held)]
            PROVE  result'.on = stage
        BY <4>1
      <4> QED BY <2>2, <4>1, RefusedOn, Zenon DEF GetTag
    <3>3. stage = "data" /\ letter.form = "tagged" =>
            /\ result'.number = SignedAgain(letter.what.tag, BYTE)
            /\ result'.text = Text(letter.what.text)
      BY <2>2, TagComesBack DEF ValuesInv
    <3> QED BY <3>1, <3>2, <3>3 DEF ConversionsReadBack, ReadAs, Wrote
  <2>3. CASE ConvertString
    <3>1. result'.call = "string" /\ letter' = letter
      BY <2>3, ConvertResult DEF ConvertString, scriptVars
    <3>2. result'.on = stage
      BY <2>3 DEF ConvertString
    <3>3. stage = "data" /\ letter.form = "string"
            => IsCString(result'.text, letter.what.text)
      BY <2>3, StringComesBack DEF ValuesInv
    <3> QED BY <3>1, <3>2, <3>3 DEF ConversionsReadBack, ReadAs, Wrote, IsCString
  <2>4. CASE result'.call \notin {"int", "tag", "string"}
    BY <2>4 DEF ConversionsReadBack, ReadAs
  <2>5. CASE UNCHANGED vars
    BY <2>5 DEF vars, scriptVars, ConversionsReadBack, ReadAs, Wrote
  <2> QED BY <2>1, <2>2, <2>3, <2>4, <2>5, ResultOfStep, CallOfResults
<1> QED BY <1>1, <1>2, ValuesInvHolds, PTL DEF Spec

(* How far a key reaches, for any length byte.                               *)
LEMMA KeyReaches ==
  ASSUME NEW mlen \in Nat, mlen % CHUNK = SALT_LEN, NEW len \in Nat,
         ~KeyRefused(mlen, len)
  PROVE  LET opened == mlen - SALT_LEN
         IN  /\ 1 + len > opened <=> (opened = 0 \/ (opened = CHUNK /\ len = CHUNK))
             /\ 1 + len <= opened + SALT_LEN
<1>1. /\ CHUNK \in Nat /\ CHUNK > 2 /\ MPPE_KEY_LEN \in Nat /\ MPPE_KEY_LEN <= CHUNK
  BY SaltAssumption DEF SaltAssumption
<1>2. PICK k \in Nat : mlen = CHUNK * k + 2
  <2>1. mlen \div CHUNK \in Nat /\ mlen % CHUNK = mlen - CHUNK * (mlen \div CHUNK)
    BY DivChunk
  <2>2. PICK k \in Nat : k = mlen \div CHUNK
    BY <2>1
  <2>3. CHUNK * k \in Int
    BY <1>1, <2>2
  <2>4. mlen = CHUNK * k + 2
    BY <2>1, <2>2, <2>3 DEF SALT_LEN
  <2> QED BY <2>4
<1>3. len <= CHUNK /\ len <= mlen - 1
  BY <1>1 DEF KeyRefused
<1>4. CASE k = 0
  <2>1. mlen = 2
    BY <1>1, <1>2, <1>4
  <2> QED BY <1>3, <2>1 DEF SALT_LEN
<1>5. CASE k = 1
  <2>1. mlen = CHUNK + 2
    BY <1>1, <1>2, <1>5
  <2> QED BY <1>1, <1>3, <2>1 DEF SALT_LEN
<1>6. CASE k > 1
  <2>1. CHUNK * k >= CHUNK + CHUNK
    <3>1. PICK j \in Nat : k = 2 + j
      BY <1>6, k - 2 \in Nat
    <3>2. CHUNK * (2 + j) = CHUNK + CHUNK + CHUNK * j /\ CHUNK * j \in Nat
      BY <1>1
    <3> QED BY <1>1, <3>1, <3>2
  <2>2. PICK m \in Nat : m = CHUNK * k
    BY <1>1
  <2> QED BY <1>1, <1>2, <1>3, <2>1, <2>2 DEF SALT_LEN
<1> QED BY <1>4, <1>5, <1>6

(* The length byte of a key is a number, also where nobody wrote it.         *)
LEMMA KeyLengthIs ==
  ASSUME ValuesInv, Len(held) % CHUNK = SALT_LEN
  PROVE  Reads(KeyByte(1)) \subseteq Nat
<1>1. PICK raw : raw = held
  OBVIOUS
<1>2. PICK n \in Nat : n = Len(raw)
  BY <1>1 DEF ValuesInv, HeldInv, IsBytes
<1>3. IsBytes(raw)
  BY <1>1 DEF ValuesInv, HeldInv
<1>4. n >= 2
  <2>1. n % CHUNK <= n
    <3>1. PICK q \in Nat : q = n \div CHUNK
      BY DivChunk
    <3>2. n % CHUNK = n - CHUNK * q
      BY <3>1, DivChunk
    <3>3. CHUNK * q \in Nat
      BY SaltAssumption DEF SaltAssumption
    <3> QED BY <3>2, <3>3
  <2> QED BY <1>1, <1>2, <2>1 DEF SALT_LEN
<1>5. IsBytes(SubSeq(raw, 2 + 1, 2 + (n - 2)))
  <2>1. n - 2 \in Nat /\ 2 + (n - 2) <= Len(raw)
    BY <1>2, <1>4
  <2>2. IsPart(SubSeq(raw, 2 + 1, 2 + (n - 2)), raw, 2, n - 2)
    BY <1>3, <2>1, BytesOfPart
  <2> QED BY <2>2 DEF IsPart
<1>6. IsBytes(Opened)
  <2>1. SubSeq(held, SALT_LEN + 1, Len(held)) = SubSeq(raw, 2 + 1, 2 + (n - 2))
    BY <1>1, <1>2 DEF SALT_LEN
  <2> QED BY <1>5, <2>1, DecryptIsBytes DEF Opened
<1>7. KeyByte(1).byte \in 0..(BYTE - 1)
  <2>1. Indeterminate.byte = 0 /\ 0 \in 0..(BYTE - 1)
    BY ByteIs DEF Indeterminate
  <2>2. 1 \in 1..Len(Opened) => Opened[1].byte \in 0..(BYTE - 1)
    BY <1>6 DEF IsBytes, IsByte
  <2> QED BY <2>1, <2>2 DEF KeyByte
<1> QED BY <1>7, ByteIs DEF Reads

(* KeyLeavesItsText for every value the script may take for a key, rightly   *)
(* or wrongly: the two cases it names are the only ones.                     *)
THEOREM KeyLeavesItsTextExactly == Spec => []KeyLeavesItsText
<1>1. Init => KeyLeavesItsText
  BY CallOfResults DEF Init, KeyLeavesItsText
<1>2. ValuesInv /\ KeyLeavesItsText /\ [Next]_vars => KeyLeavesItsText'
  <2> SUFFICES ASSUME ValuesInv, KeyLeavesItsText, [Next]_vars
               PROVE  KeyLeavesItsText'
    OBVIOUS
  <2>1. CASE DemangleMppeKey
    <3>1. held' = held
      BY <2>1, KeyResult DEF scriptVars
    <3>2. PICK mlen \in Nat : mlen = Len(held)
      BY DEF ValuesInv, HeldInv, IsBytes
    <3>3. CASE result' = Refused("key") \/ result' = Crash("no secret")
      BY <3>3, CallOfResults DEF KeyLeavesItsText
    <3>4. ASSUME mlen % CHUNK = SALT_LEN,
                 NEW len \in Reads(KeyByte(1)), ~KeyRefused(mlen, len),
                 result' = [call |-> "key", ok |-> TRUE, on |-> stage,
                            text |-> KeyOf(len)]
          PROVE  KeyLeavesItsText'
      <4>1. len \in Nat
        BY <3>2, <3>4, KeyLengthIs
      <4>2. result'.text = KeyOf(len)
        BY <3>4
      <4>3. Len(KeyOf(len)) = len
        BY <4>1 DEF KeyOf
      <4>4. LET opened == mlen - SALT_LEN
            IN  /\ 1 + len > opened <=> (opened = 0 \/ (opened = CHUNK /\ len = CHUNK))
                /\ 1 + len <= opened + SALT_LEN
        BY <3>4, <4>1, KeyReaches
      <4> QED BY <3>1, <3>2, <4>2, <4>3, <4>4 DEF KeyLeavesItsText
    <3> QED BY <2>1, <3>2, <3>3, <3>4, KeyResult
  <2>2. CASE result'.call # "key"
    BY <2>2 DEF KeyLeavesItsText
  <2>3. CASE UNCHANGED vars
    BY <2>3 DEF vars, scriptVars, KeyLeavesItsText
  <2> QED BY <2>1, <2>2, <2>3, ResultOfStep, CallOfResults
<1> QED BY <1>1, <1>2, ValuesInvHolds, PTL DEF Spec

-----------------------------------------------------------------------------
(* rad_salt_value                                                            *)

(* The value the script salts.                                               *)
LEMMA ValueIs ==
  ASSUME NEW len \in Nat
  PROVE  /\ Value(len) \in Seq(0..(BYTE - 1)) /\ Len(Value(len)) = len
<1>1. \A i \in 1..len : i % BYTE \in 0..(BYTE - 1)
  BY ByteIs
<1>2. PICK T : T = 0..(BYTE - 1)
  OBVIOUS
<1>3. PICK v : v = [i \in 1..len |-> i % BYTE]
  OBVIOUS
<1>4. v \in [1..len -> T]
  BY <1>1, <1>2, <1>3
<1>5. v \in Seq(T) /\ Len(v) = len
  BY <1>4
<1> QED BY <1>2, <1>3, <1>5 DEF Value

(* What the loop reads: the value, the byte behind it and zeros.             *)
SaltInput(value, behind, n) == Text([i \in 1..n |-> InputByte(value, behind, i)])

(* What rad_salt_value reads: the value, the byte behind it, and zeros.      *)
LEMMA SaltInputIs ==
  ASSUME NEW value \in Seq(0..(BYTE - 1)), NEW behind \in 0..(BYTE - 1), NEW n \in Nat
  PROVE  /\ IsBytes(SaltInput(value, behind, n)) /\ Len(SaltInput(value, behind, n)) = n
         /\ \A i \in 1..n :
              SaltInput(value, behind, n)[i] = Plain(InputByte(value, behind, i))
<1>1. ASSUME NEW i \in 1..n PROVE InputByte(value, behind, i) \in 0..(BYTE - 1)
  BY ByteIs DEF InputByte
<1>2. PICK T : T = 0..(BYTE - 1)
  OBVIOUS
<1>3. PICK s : s = [i \in 1..n |-> InputByte(value, behind, i)]
  OBVIOUS
<1>4. s \in [1..n -> T]
  BY <1>1, <1>2, <1>3
<1>5. s \in Seq(T) /\ Len(s) = n
  BY <1>4
<1>6. \A i \in 1..n : s[i] = InputByte(value, behind, i)
  BY <1>3
<1>7. PICK t : t = Text(s)
  OBVIOUS
<1>8. IsBytes(t) /\ Len(t) = n /\ \A i \in 1..n : t[i] = Plain(s[i])
  BY <1>2, <1>5, <1>7, TextIsBytes
<1>9. SaltInput(value, behind, n) = t
  BY <1>3, <1>7 DEF SaltInput
<1> QED BY <1>6, <1>8, <1>9

(* The salted value: salt, length and what opens to the value, padded with   *)
(* the byte behind it and zeros.                                             *)
IsSalted(text, secret, auth_, value, behind, up) ==
  /\ Len(text) = 3 + up /\ text[3] = Plain(up % BYTE)
  /\ Decrypt(secret, auth_, SubSeq(text, 1, SALT_LEN), SubSeq(text, 4, Len(text)))
       = SaltInput(value, behind, up)

(* The first bytes of a longer input are a shorter one.                      *)
LEMMA InputBegins ==
  ASSUME NEW value \in Seq(0..(BYTE - 1)), NEW behind \in 0..(BYTE - 1),
         NEW n \in Nat, NEW k \in Nat, k <= n
  PROVE  SubSeq(SaltInput(value, behind, n), 1, k) = SaltInput(value, behind, k)
<1>1. PICK s : s = SaltInput(value, behind, n)
  OBVIOUS
<1>2. PICK t : t = SaltInput(value, behind, k)
  OBVIOUS
<1>3. IsBytes(s) /\ Len(s) = n /\ \A i \in 1..n : s[i] = Plain(InputByte(value, behind, i))
  BY <1>1, SaltInputIs
<1>4. IsBytes(t) /\ Len(t) = k /\ \A i \in 1..k : t[i] = Plain(InputByte(value, behind, i))
  BY <1>2, SaltInputIs
<1>5. PICK p : p = SubSeq(s, 0 + 1, 0 + k)
  OBVIOUS
<1>6. 0 + k <= Len(s) /\ 0 \in Nat
  BY <1>3
<1>7. IsPart(p, s, 0, k)
  BY <1>3, <1>5, <1>6, BytesOfPart
<1>8. IsBytes(p) /\ Len(p) = k /\ \A i \in 1..k : p[i] = s[0 + i]
  BY <1>7 DEF IsPart
<1>9. \A i \in 1..k : p[i] = t[i]
  BY <1>3, <1>4, <1>8
<1>10. p = t
  BY <1>4, <1>8, <1>9, SameBytes
<1>11. 0 + 1 = 1 /\ 0 + k = k
  OBVIOUS
<1> QED BY <1>1, <1>2, <1>5, <1>10, <1>11, Zenon

(* What rad_salt_value writes: the salt, the padded length, and chunks that  *)
(* open.                                                                     *)
LEMMA SaltedIs ==
  ASSUME NEW secret, NEW auth_, NEW random \in Nat,
         NEW value \in Seq(0..(BYTE - 1)), NEW behind \in 0..(BYTE - 1)
  PROVE  IsSalted(Salted(secret, auth_, random, value, behind), secret, auth_, value,
                  behind, RoundUp(Len(value)))
<1>1. PICK len \in Nat : len = Len(value)
  OBVIOUS
<1>2. PICK up \in Nat, m \in Nat : up = RoundUp(len) /\ up = CHUNK * m
  BY RoundUpHolds
<1>3. PICK c \in Nat : c = Chunks(len) /\ m <= c
  <2>1. PICK q \in Nat : q = len \div CHUNK
    BY DivChunk
  <2>2. Chunks(len) = q + 1
    BY <2>1, ChunksAre
  <2>3. up = CHUNK * q \/ up = CHUNK * q + CHUNK
    BY <1>2, <2>1, RoundUpIs
  <2>4. CHUNK * (q + 1) = CHUNK * q + CHUNK /\ CHUNK * q \in Nat /\ CHUNK * (q + 1) \in Nat
    BY SaltAssumption DEF SaltAssumption
  <2>5. (CHUNK * m) \div CHUNK = m
    BY WholeChunks
  <2>6. (CHUNK * q) \div CHUNK = q /\ (CHUNK * (q + 1)) \div CHUNK = q + 1
    BY WholeChunks
  <2>7. m = q \/ m = q + 1
    BY <1>2, <2>3, <2>4, <2>5, <2>6, Zenon
  <2> QED BY <2>2, <2>7
<1>4. PICK salt : salt = SaltOf(random)
  OBVIOUS
<1>5. IsBytes(salt) /\ Len(salt) = 2
  BY <1>4, SaltOfIs DEF SALT_LEN
<1>6. PICK n \in Nat : n = CHUNK * c /\ up <= n
  BY <1>2, <1>3, TimesChunk
<1>7. PICK input : input = SaltInput(value, behind, n)
  OBVIOUS
<1>8. IsBytes(input) /\ Len(input) = n
  BY <1>7, SaltInputIs
<1>9. PICK full : full = Encrypt(secret, auth_, salt, input)
  OBVIOUS
<1>10. /\ IsBytes(full) /\ Len(full) = n
       /\ Decrypt(secret, auth_, salt, SubSeq(full, 1, up)) = SubSeq(input, 1, up)
  <2>1. Len(input) = CHUNK * c
    BY <1>6, <1>8
  <2>2. /\ IsBytes(Encrypt(secret, auth_, salt, input))
        /\ Len(Encrypt(secret, auth_, salt, input)) = Len(input)
        /\ Decrypt(secret, auth_, salt,
                   SubSeq(Encrypt(secret, auth_, salt, input), 1, CHUNK * m))
             = SubSeq(input, 1, CHUNK * m)
    BY <1>3, <1>8, <2>1, EncryptedOpensUpTo
  <2> QED BY <1>2, <1>8, <1>9, <2>2
<1>11. PICK body : body = SubSeq(full, 1, up)
  OBVIOUS
<1>12. IsBytes(body) /\ Len(body) = up
  <2>1. 0 + up <= Len(full) /\ 0 \in Nat
    BY <1>6, <1>10
  <2>2. IsPart(SubSeq(full, 0 + 1, 0 + up), full, 0, up)
    BY <1>10, <2>1, BytesOfPart
  <2>3. 0 + 1 = 1 /\ 0 + up = up
    OBVIOUS
  <2>4. IsPart(body, full, 0, up)
    BY <1>11, <2>2, <2>3, Zenon
  <2> QED BY <2>4 DEF IsPart
<1>13. PICK b \in 0..(BYTE - 1) : b = up % BYTE
  BY ByteIs
<1>14. PICK head : head = Text(<<b>>)
  OBVIOUS
<1>15. IsBytes(head) /\ Len(head) = 1 /\ head[1] = Plain(b)
  <2>1. PICK s : s = <<b>>
    OBVIOUS
  <2>2. s \in Seq(0..(BYTE - 1)) /\ Len(s) = 1 /\ s[1] = b
    BY <2>1
  <2>3. PICK t : t = Text(s)
    OBVIOUS
  <2>4. IsBytes(t) /\ Len(t) = Len(s) /\ \A i \in 1..Len(s) : t[i] = Plain(s[i])
    BY <2>2, <2>3, TextIsBytes
  <2>5. 1 \in 1..Len(s)
    BY <2>2
  <2>6. IsBytes(t) /\ Len(t) = 1 /\ t[1] = Plain(b)
    BY <2>2, <2>4, <2>5
  <2> QED BY <1>14, <2>1, <2>3, <2>6
<1>16. PICK front : front = salt \o head
  OBVIOUS
<1>17. PICK text : text = front \o body
  OBVIOUS
<1>18. Salted(secret, auth_, random, value, behind) = text
  BY <1>1, <1>2, <1>3, <1>4, <1>6, <1>7, <1>9, <1>11, <1>13, <1>14, <1>16, <1>17, Zenon
     DEF Salted, SaltInput
<1>19. /\ IsBytes(front) /\ Len(front) = 3 /\ front[3] = Plain(b)
       /\ \A i \in 1..2 : front[i] = salt[i]
  <2>1. IsJoin(front, salt, head)
    BY <1>5, <1>15, <1>16, JoinedBytes
  <2>2. /\ IsBytes(front) /\ Len(front) = Len(salt) + Len(head)
        /\ \A i \in 1..Len(salt) : front[i] = salt[i]
        /\ \A i \in 1..Len(head) : front[Len(salt) + i] = head[i]
    BY <2>1 DEF IsJoin
  <2> QED BY <1>5, <1>15, <2>2
<1>20. /\ IsBytes(text) /\ Len(text) = 3 + up
       /\ \A i \in 1..3 : text[i] = front[i]
       /\ \A i \in 1..up : text[3 + i] = body[i]
  <2>1. IsJoin(text, front, body)
    BY <1>12, <1>17, <1>19, JoinedBytes
  <2> QED BY <1>12, <1>19, <2>1 DEF IsJoin
<1>21. SubSeq(text, 1, 2) = salt
  <2>1. PICK x : x = SubSeq(text, 0 + 1, 0 + 2)
    OBVIOUS
  <2>2. 0 + 2 <= Len(text) /\ 0 \in Nat /\ 2 \in Nat
    BY <1>20
  <2>3. IsPart(x, text, 0, 2)
    BY <1>20, <2>1, <2>2, BytesOfPart
  <2>4. IsBytes(x) /\ Len(x) = 2 /\ \A i \in 1..2 : x[i] = salt[i]
    BY <1>19, <1>20, <2>3 DEF IsPart
  <2>5. x = salt
    BY <1>5, <2>4, SameBytes
  <2>6. 0 + 1 = 1 /\ 0 + 2 = 2
    OBVIOUS
  <2> QED BY <2>1, <2>5, <2>6, Zenon
<1>22. SubSeq(text, 4, Len(text)) = body
  <2>1. PICK x : x = SubSeq(text, 3 + 1, 3 + up)
    OBVIOUS
  <2>2. 3 + up <= Len(text) /\ 3 \in Nat
    BY <1>20
  <2>3. IsPart(x, text, 3, up)
    BY <1>20, <2>1, <2>2, BytesOfPart
  <2>4. IsBytes(x) /\ Len(x) = up /\ \A i \in 1..up : x[i] = body[i]
    BY <1>20, <2>3 DEF IsPart
  <2>5. x = body
    BY <1>12, <2>4, SameBytes
  <2>6. 3 + 1 = 4
    OBVIOUS
  <2> QED BY <1>20, <2>1, <2>5, <2>6
<1>23. SubSeq(input, 1, up) = SaltInput(value, behind, up)
  BY <1>6, <1>7, InputBegins
<1>24. Decrypt(secret, auth_, SubSeq(text, 1, SALT_LEN), SubSeq(text, 4, Len(text)))
         = SaltInput(value, behind, up)
  BY <1>10, <1>11, <1>21, <1>22, <1>23 DEF SALT_LEN
<1>25. text[3] = Plain(up % BYTE)
  BY <1>13, <1>19, <1>20
<1>26. IsSalted(text, secret, auth_, value, behind, up)
  BY <1>20, <1>24, <1>25 DEF IsSalted
<1> QED BY <1>1, <1>2, <1>18, <1>26

(* What the script's value becomes when it is salted opens to the value, and *)
(* to the padded value if the byte behind it is zero.                        *)
LEMMA ValueOpens ==
  ASSUME NEW len \in Nat, NEW behind \in 0..(BYTE - 1), NEW up \in Nat, len <= up,
         up = RoundUp(len),
         NEW opened, opened = SaltInput(Value(len), behind, up)
  PROVE  /\ SubSeq(opened, 1, len) = Text(Value(len))
         /\ behind = 0 => opened = Padded(Text(Value(len)))
<1>1. PICK value \in Seq(0..(BYTE - 1)) : value = Value(len) /\ Len(value) = len
  BY ValueIs
<1>2. PICK t : t = Text(value)
  OBVIOUS
<1>3. IsBytes(t) /\ Len(t) = len /\ \A i \in 1..len : t[i] = Plain(value[i])
  BY <1>1, <1>2, TextIsBytes
<1>4. /\ IsBytes(opened) /\ Len(opened) = up
      /\ \A i \in 1..up : opened[i] = Plain(InputByte(value, behind, i))
  BY <1>1, SaltInputIs
<1>5. \A i \in 1..len : opened[i] = t[i]
  <2> SUFFICES ASSUME NEW i \in 1..len PROVE opened[i] = t[i]
    OBVIOUS
  <2>1. InputByte(value, behind, i) = value[i]
    BY <1>1 DEF InputByte
  <2> QED BY <1>3, <1>4, <2>1
<1>6. SubSeq(opened, 1, len) = t
  <2>1. PICK x : x = SubSeq(opened, 0 + 1, 0 + len)
    OBVIOUS
  <2>2. 0 + len <= Len(opened) /\ 0 \in Nat
    BY <1>4
  <2>3. IsPart(x, opened, 0, len)
    BY <1>4, <2>1, <2>2, BytesOfPart
  <2>4. IsBytes(x) /\ Len(x) = len /\ \A i \in 1..len : x[i] = t[i]
    BY <1>5, <2>3 DEF IsPart
  <2>5. x = t
    BY <1>3, <2>4, SameBytes
  <2>6. 0 + 1 = 1 /\ 0 + len = len
    OBVIOUS
  <2> QED BY <2>1, <2>5, <2>6, Zenon
<1>7. ASSUME behind = 0 PROVE opened = Padded(t)
  <2>1. PICK p : p = Padded(t)
    OBVIOUS
  <2>2. IsBytes(p) /\ Len(p) = up /\ \A i \in 1..len : p[i] = t[i]
    BY <1>3, <2>1, PaddedIs
  <2>3. ASSUME NEW i \in 1..up PROVE opened[i] = p[i]
    <3>1. CASE i <= len
      BY <1>5, <2>2, <3>1
    <3>2. CASE i > len
      <4>1. InputByte(value, behind, i) = 0
        BY <1>1, <1>7, <3>2 DEF InputByte
      <4>2. p[i] = Plain(0)
        BY <1>3, <2>1, <3>2, PaddedBehind
      <4> QED BY <1>4, <4>1, <4>2
    <3> QED BY <3>1, <3>2
  <2>4. opened = p
    BY <1>4, <2>2, <2>3, SameBytes
  <2> QED BY <2>1, <2>4
<1> QED BY <1>1, <1>2, <1>6, <1>7

(* SaltReadsBack for any value, random number, secret and authenticator:     *)
(* what rad_salt_value makes opens to the value, also for a value of whole   *)
(* chunks, whose overrun is not part of what is sent.                        *)
THEOREM SaltComesBack == Spec => []SaltReadsBack
<1>1. Init => SaltReadsBack
  BY CallOfResults DEF Init, SaltReadsBack
<1>2. ValuesInv /\ SaltReadsBack /\ [Next]_vars => SaltReadsBack'
  <2> SUFFICES ASSUME ValuesInv, SaltReadsBack, [Next]_vars PROVE SaltReadsBack'
    OBVIOUS
  <2>1. CASE SaltValue
    <3>0. SUFFICES ASSUME result'.ok, result'.len # 0
                   PROVE  SaltReadsBack'
      BY DEF SaltReadsBack
    <3>1. PICK len \in Lengths, random \in Randoms, behind \in Behind :
            result' = SaltOk(len, random, behind)
      BY <2>1, <3>0, SaltResult, CallOfResults
    <3>2. len \in Nat /\ random \in Nat /\ behind \in 0..(BYTE - 1)
      BY ValuesAssumption DEF ValuesAssumption
    <3>3. /\ result'.len = len /\ result'.behind = behind /\ len # 0
          /\ result'.text = Salted(ServerSecret, auth, random, Value(len), behind)
      BY <3>0, <3>1 DEF SaltOk
    <3>4. /\ secrets' = secrets /\ srv' = srv /\ auth' = auth
      BY <2>1 DEF SaltValue, handleVars
    <3>5. PICK secret, a : secret = ServerSecret /\ a = auth
      OBVIOUS
    <3>6. ServerSecret' = secret /\ auth' = a
      BY <3>4, <3>5 DEF ServerSecret
    <3>8. PICK text : text = result'.text
      OBVIOUS
    <3>9. PICK up \in Nat : up = RoundUp(len) /\ len <= up
      BY <3>2, RoundUpHolds
    <3>10. IsSalted(text, secret, a, Value(len), behind, up)
      <4>1. Value(len) \in Seq(0..(BYTE - 1)) /\ Len(Value(len)) = len
        BY <3>2, ValueIs
      <4>2. text = Salted(secret, a, random, Value(len), behind)
        BY <3>3, <3>5, <3>8
      <4> QED BY <3>2, <3>9, <4>1, <4>2, SaltedIs
    <3>11. PICK opened : opened = Decrypt(secret, a, SubSeq(text, 1, SALT_LEN),
                                          SubSeq(text, 4, Len(text)))
      OBVIOUS
    <3>12. opened = SaltInput(Value(len), behind, up)
      BY <3>10, <3>11 DEF IsSalted
    <3>13. /\ SubSeq(opened, 1, len) = Text(Value(len))
           /\ behind = 0 => opened = Padded(Text(Value(len)))
      BY <3>2, <3>9, <3>12, ValueOpens
    <3>14. Len(text) = 3 + up /\ text[3] = Plain(up % BYTE)
      BY <3>10 DEF IsSalted
    <3> QED BY <3>3, <3>6, <3>8, <3>9, <3>11, <3>13, <3>14, Zenon DEF SaltReadsBack
  <2>2. CASE result'.call # "salt"
    BY <2>2 DEF SaltReadsBack
  <2>3. CASE UNCHANGED vars
    BY <2>3 DEF vars, handleVars, SaltReadsBack, ServerSecret
  <2> QED BY <2>1, <2>2, <2>3, ResultOfStep, CallOfResults
<1> QED BY <1>1, <1>2, ValuesInvHolds, PTL DEF Spec
=============================================================================
