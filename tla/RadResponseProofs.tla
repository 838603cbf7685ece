-------------------------- MODULE RadResponseProofs -------------------------
(* The scan of a response stays inside the message, and reads what a server  *)
(* wrote into it, for every datagram.                                        *)
EXTENDS RadResponse, NaturalSets, SequenceTheorems, TLAPS

USE ResponseAssumption DEF ResponseAssumption

(* What ScanInsideMessage needs to be inductive: the buffer holds bytes, and *)
(* positions are numbers.                                                    *)
ScanInv ==
  /\ response \in Seq(Bytes)
  /\ resp_len \in Int /\ resp_len <= MaxDatagram
  /\ resp_pos \in Int
  /\ replied \in BOOLEAN
  /\ ScanInsideMessage

(* What an int is in a size_t is that int again.                             *)
LEMMA SizeIsInt ==
  ASSUME NEW n \in Int, -HALF <= n, n < HALF
  PROVE  /\ AsSize(n) \in 0..(WORD - 1) /\ AsInt(AsSize(n)) = n
         /\ n >= 0 => AsSize(n) = n
  BY DEF AsSize, AsInt, WORD

(* Added up in a size_t, two ints give their sum, if that is an int at all.  *)
LEMMA SizeSumIsInt ==
  ASSUME NEW n \in Int, -HALF <= n, n < HALF,
         NEW m \in Int, -HALF <= m, m < HALF,
         -HALF <= n + m, n + m < HALF
  PROVE  AsInt(PlusSize(AsSize(n), AsSize(m))) = n + m
  BY DEF AsSize, AsInt, PlusSize, WORD

(* Datagrams are sequences of bytes.                                         *)
LEMMA DatagramsAreBytes == \A d \in Datagrams : d \in Seq(Bytes) /\ Len(d) \in Nat
<1> SUFFICES ASSUME NEW d \in Datagrams PROVE d \in Seq(Bytes) /\ Len(d) \in Nat
  OBVIOUS
<1>1. PICK m \in 0..MaxDatagram : d \in [1..m -> Bytes]
  BY DEF Datagrams, BoundedSeq, SeqOf
<1>2. d \in Seq(Bytes)
  BY <1>1, m \in Nat
<1> QED BY <1>2

(* Datagrams are at most as long as the buffer.                              *)
LEMMA DatagramsAreShort ==
  ASSUME NEW d \in Datagrams PROVE Len(d) \in 0..MaxDatagram
<1>1. PICK m \in 0..MaxDatagram : d \in [1..m -> Bytes]
  BY DEF Datagrams, BoundedSeq, SeqOf
<1>2. Len(d) = m
  BY <1>1, m \in Nat
<1> QED BY <1>2

(* Bytes are unsigned.                                                       *)
LEMMA BytesAreNatural == \A b \in Bytes : b \in Int /\ b >= 0 /\ b <= 255
  OBVIOUS

(* The byte at a position inside the datagram is one.                        *)
LEMMA AtIsByte == ASSUME response \in Seq(Bytes), NEW pos \in Int
                  PROVE  \A b \in At(pos) : b \in Int /\ b >= 0 /\ b <= 255
<1>1. CASE pos \in 0..(Len(response) - 1)
  <2>1. response[pos + 1] \in Bytes
    BY <1>1
  <2>2. At(pos) = {response[pos + 1]}
    BY <1>1 DEF At
  <2> QED BY <2>1, <2>2, BytesAreNatural
<1>2. CASE pos \notin 0..(Len(response) - 1)
  <2>1. At(pos) = Bytes
    BY <1>2 DEF At
  <2> QED BY <2>1, BytesAreNatural
<1> QED BY <1>1, <1>2

(* A reply starts the scan where the message's attributes start.             *)
LEMMA ReplyStartsInside ==
  ASSUME ScanInv, SendReply
  PROVE  ScanInv'
<1>1. PICK d \in Datagrams : \E length \in POS_ATTRS..Len(d) :
        response' = d /\ resp_len' = length
  BY DEF SendReply
<1>2. PICK length \in POS_ATTRS..Len(d) : response' = d /\ resp_len' = length
  BY <1>1
<1>3. d \in Seq(Bytes) /\ Len(d) \in Nat
  BY DatagramsAreBytes
<1>4. last'.kind # "attr"
  BY DEF SendReply, Nothing
<1>5. resp_pos' = POS_ATTRS /\ replied' = TRUE
  BY DEF SendReply
<1>6. POS_ATTRS \in Int /\ length \in Int /\ POS_ATTRS <= length /\ length <= Len(d)
  BY <1>3
<1>7. length <= MaxDatagram
  BY <1>3, <1>6, DatagramsAreShort
<1> QED BY <1>2, <1>3, <1>4, <1>5, <1>6, <1>7 DEF ScanInv, ScanInsideMessage

(* A call of rad_get_attr moves the position by the length byte, but never   *)
(* past the end nor behind where it was.                                     *)
LEMMA GetAttrStaysInside ==
  ASSUME ScanInv, GetAttr
  PROVE  ScanInv'
<1>1. UNCHANGED <<response, resp_len, replied>>
  BY DEF GetAttr
<1>2. CASE UNCHANGED resp_pos /\ last' \in {Failure, NoneLeft}
  <2>1. last'.kind # "attr"
    BY <1>2 DEF Failure, NoneLeft
  <2> QED BY <1>1, <1>2, <2>1 DEF ScanInv, ScanInsideMessage
<1>3. ASSUME resp_pos + 2 <= resp_len,
             NEW type \in At(resp_pos), NEW size \in At(resp_pos + 1),
             \/ /\ resp_pos' = resp_pos + 2
                /\ last' = Failure
             \/ /\ FitsRest(resp_pos + 2, AsSize(size - 2))
                /\ resp_pos' = AsInt(PlusSize(AsSize(resp_pos + 2), AsSize(size - 2)))
                /\ last' = IF type = 0 THEN NoneLeft
                           ELSE Attr(type, resp_pos + 2, AsSize(size - 2))
      PROVE  ScanInv'
  <2>1. resp_pos \in Int /\ resp_len \in Int /\ resp_len <= MaxDatagram
        /\ response \in Seq(Bytes)
    BY DEF ScanInv
  <2>2. size \in Int /\ size >= 0 /\ size <= 255
    BY <2>1, AtIsByte
  <2>3. CASE resp_pos' = resp_pos + 2 /\ last' = Failure
    <3>1. last'.kind # "attr"
      BY <2>3 DEF Failure
    <3> QED BY <1>1, <1>3, <2>1, <2>3, <3>1 DEF ScanInv, ScanInsideMessage
  <2>4. CASE /\ FitsRest(resp_pos + 2, AsSize(size - 2))
             /\ resp_pos' = AsInt(PlusSize(AsSize(resp_pos + 2), AsSize(size - 2)))
             /\ last' = IF type = 0 THEN NoneLeft
                        ELSE Attr(type, resp_pos + 2, AsSize(size - 2))
    <3>1. PICK k \in Int : k = size - 2 /\ k >= -2 /\ k <= 253
      BY <2>2
    <3>2. AsInt(AsSize(k)) = k /\ (k >= 0 => AsSize(k) = k) /\ AsSize(k) \in Int
      BY <3>1, SizeIsInt
    <3>3. CASE ~replied
      <4>1. AsInt(PlusSize(AsSize(resp_pos + 2), AsSize(k))) \in Int
        BY <2>1, <3>2 DEF AsInt, PlusSize, AsSize, WORD
      <4>2. resp_pos' \in Int
        BY <2>4, <3>1, <4>1
      <4> QED BY <1>1, <2>1, <3>3, <4>2 DEF ScanInv, ScanInsideMessage
    <3>4. CASE replied
      <4>1. POS_ATTRS <= resp_pos /\ resp_len <= Len(response) /\ POS_ATTRS \in Int
            /\ POS_ATTRS > 0
        BY <3>4 DEF ScanInv, ScanInsideMessage
      <4>2. resp_pos + 2 + k <= resp_len
        BY <2>4, <3>1, <3>2 DEF FitsRest
      <4>3. PICK off \in Int : off = resp_pos + 2
        BY <2>1
      <4>4. /\ -HALF <= off /\ off < HALF /\ -HALF <= k /\ k < HALF
            /\ -HALF <= off + k /\ off + k < HALF
        BY <1>3, <2>1, <3>1, <4>1, <4>2, <4>3
      <4>5. resp_pos' = off + k
        <5>1. AsInt(PlusSize(AsSize(off), AsSize(k))) = off + k
          BY <4>4, SizeSumIsInt
        <5> QED BY <2>4, <3>1, <4>3, <5>1
      <4>6. resp_pos' \in Int /\ resp_pos' >= resp_pos /\ resp_pos' <= resp_len
        BY <2>1, <3>1, <4>2, <4>3, <4>5
      <4>7. response[off] = size
        <5>1. resp_pos + 1 \in 0..(Len(response) - 1) /\ resp_pos + 1 + 1 = off
          BY <1>3, <2>1, <4>1, <4>3
        <5> QED BY <5>1 DEF At
      <4>8. last'.kind = "attr" => last'.off = off /\ last'.len = AsSize(k)
        BY <2>4, <3>1, <4>3 DEF Attr, NoneLeft
      <4>9. last'.kind = "attr" =>
              /\ POS_ATTRS + 2 <= last'.off /\ last'.off <= resp_len
              /\ last'.off + last'.len > resp_len <=> response[last'.off] < 2
        <5>1. POS_ATTRS + 2 <= off /\ off <= resp_len
          BY <1>3, <2>1, <4>1, <4>3
        <5>2. off + AsSize(k) > resp_len <=> size < 2
          <6>1. CASE k >= 0
            BY <2>1, <2>2, <3>1, <3>2, <4>2, <4>3, <6>1
          <6>2. CASE k < 0
            <7>1. MaxDatagram \in Nat /\ HALF \in Nat /\ HALF > MaxDatagram
              BY ResponseAssumption DEF ResponseAssumption
            <7>2. AsSize(k) = k + 2 * HALF
              BY <6>2 DEF AsSize, WORD
            <7>3. off + (k + 2 * HALF) > resp_len
              BY <2>1, <3>1, <4>1, <4>3, <4>4, <7>1
            <7> QED BY <2>2, <3>1, <6>2, <7>2, <7>3
          <6> QED BY <3>1, <6>1, <6>2
        <5> QED BY <4>7, <4>8, <5>1, <5>2, Zenon
      <4> QED BY <1>1, <2>1, <4>1, <4>6, <4>9 DEF ScanInv, ScanInsideMessage
    <3> QED BY <3>3, <3>4
  <2> QED BY <1>3, <2>3, <2>4
<1> QED BY <1>2, <1>3 DEF GetAttr

(* ScanInv holds initially: nothing has been received.                       *)
LEMMA ScanInvStarts == ASSUME Init PROVE ScanInv
<1>1. ~replied /\ replied \in BOOLEAN
  BY DEF Init
<1>2. response \in Seq(Bytes) /\ resp_len \in Int /\ resp_len <= MaxDatagram
  BY DEF Init
<1>3. resp_pos \in Int
  BY DEF Init
<1> QED BY <1>1, <1>2, <1>3 DEF ScanInv, ScanInsideMessage

(* ScanInv is inductive.                                                     *)
LEMMA ScanInvIsKept == ASSUME ScanInv, [Next]_vars PROVE ScanInv'
<1>1. CASE SendUnanswered
  BY <1>1 DEF SendUnanswered, ScanInv, ScanInsideMessage
<1>2. CASE SendReceiveFails
  <2>1. ~replied' /\ replied' \in BOOLEAN
    BY <1>2 DEF SendReceiveFails
  <2>2. resp_len' \in Int /\ resp_len' <= MaxDatagram
    BY <1>2 DEF SendReceiveFails
  <2>3. UNCHANGED <<response, resp_pos>>
    BY <1>2 DEF SendReceiveFails
  <2> QED BY <2>1, <2>2, <2>3 DEF ScanInv, ScanInsideMessage
<1>3. CASE SendInvalid
  <2>1. ~replied' /\ replied' \in BOOLEAN /\ UNCHANGED resp_pos
    BY <1>3 DEF SendInvalid
  <2>2. response' \in Seq(Bytes) /\ resp_len' \in Int /\ resp_len' <= MaxDatagram
    BY <1>3, DatagramsAreBytes, DatagramsAreShort DEF SendInvalid
  <2> QED BY <2>1, <2>2 DEF ScanInv, ScanInsideMessage
<1>4. CASE SendReply
  BY <1>4, ReplyStartsInside
<1>5. CASE GetAttr
  BY <1>5, GetAttrStaysInside
<1>6. CASE UNCHANGED vars
  BY <1>6 DEF vars, ScanInv, ScanInsideMessage
<1> QED BY <1>1, <1>2, <1>3, <1>4, <1>5, <1>6 DEF Next

(* After a reply, reading attributes stays inside the message, whatever its  *)
(* bytes and however often rad_get_attr is called.                           *)
THEOREM ScanStaysInside == Spec => []ScanInsideMessage
<1>1. Init => ScanInv
  BY ScanInvStarts
<1>2. ScanInv /\ [Next]_vars => ScanInv'
  BY ScanInvIsKept
<1>3. ScanInv => ScanInsideMessage
  BY DEF ScanInv
<1> QED BY <1>1, <1>2, <1>3, PTL DEF Spec

-----------------------------------------------------------------------------
(* Type correctness.                                                         *)

(* Bytes at a position are among the bytes there are.                        *)
LEMMA AtIsInBytes ==
  ASSUME response \in Seq(Bytes), NEW pos \in Int
  PROVE  At(pos) \subseteq Bytes
<1>1. CASE pos \in 0..(Len(response) - 1)
  <2>1. response[pos + 1] \in Bytes
    BY <1>1
  <2> QED BY <1>1, <2>1 DEF At
<1>2. CASE pos \notin 0..(Len(response) - 1)
  BY <1>2 DEF At
<1> QED BY <1>1, <1>2

(* What the scan can return is of its type.                                  *)
LEMMA ReturnedValues ==
  /\ Nothing \in Returned /\ Failure \in Returned /\ NoneLeft \in Returned
  /\ \A type \in Bytes, off \in Int, len \in 0..(WORD - 1) :
       Attr(type, off, len) \in Returned
  BY DEF Returned, Attr

(* A call of rad_get_attr keeps the types.                                   *)
LEMMA GetAttrKeepsTypes ==
  ASSUME ResponseTypeOK, GetAttr
  PROVE  ResponseTypeOK'
<1>1. UNCHANGED <<response, resp_len, replied>> /\ taken < MaxTaken
  BY DEF GetAttr
<1>2. /\ response \in Seq(Bytes) /\ resp_len \in -1..MaxDatagram
      /\ resp_pos \in Int /\ replied \in BOOLEAN /\ taken \in 0..MaxTaken
  BY DEF ResponseTypeOK
<1>3. CASE UNCHANGED <<resp_pos, taken>> /\ last' \in {Failure, NoneLeft}
  <2>1. last' \in Returned
    BY <1>3, ReturnedValues
  <2> QED BY <1>1, <1>2, <1>3, <2>1 DEF ResponseTypeOK
<1>4. ASSUME NEW type \in At(resp_pos), NEW size \in At(resp_pos + 1),
             \/ /\ resp_pos' = resp_pos + 2
                /\ last' = Failure
                /\ UNCHANGED taken
             \/ /\ resp_pos' = AsInt(PlusSize(AsSize(resp_pos + 2), AsSize(size - 2)))
                /\ last' = IF type = 0 THEN NoneLeft
                           ELSE Attr(type, resp_pos + 2, AsSize(size - 2))
                /\ taken' = taken + 1
      PROVE  ResponseTypeOK'
  <2>1. type \in Bytes /\ size \in Bytes
    BY <1>2, AtIsInBytes
  <2>2. PICK k \in Int : k = size - 2 /\ -HALF <= k /\ k < HALF
    <3>1. size \in Int /\ size >= 0 /\ size <= 255
      BY <2>1, BytesAreNatural
    <3> QED BY <3>1
  <2>3. AsSize(k) \in 0..(WORD - 1)
    BY <2>2, SizeIsInt
  <2>4. Attr(type, resp_pos + 2, AsSize(k)) \in Returned
    <3>1. resp_pos + 2 \in Int
      BY <1>2
    <3> QED BY <2>1, <2>3, <3>1, ReturnedValues, Zenon
  <2>5. last' \in Returned
    BY <1>4, <2>2, <2>4, ReturnedValues
  <2>6. resp_pos' \in Int
    <3>1. AsInt(PlusSize(AsSize(resp_pos + 2), AsSize(k))) \in Int
      BY <1>2, <2>3 DEF AsInt, PlusSize, AsSize, WORD
    <3> QED BY <1>2, <1>4, <2>2, <3>1
  <2>7. taken' \in 0..MaxTaken
    BY <1>1, <1>2, <1>4
  <2> QED BY <1>1, <1>2, <2>5, <2>6, <2>7 DEF ResponseTypeOK
<1> QED BY <1>3, <1>4 DEF GetAttr

(* The response buffer holds bytes of a datagram, and what rad_get_attr      *)
(* returns is an attribute with a type among the bytes, or one of the two    *)
(* other answers it has (ResponseTypeOK).                                    *)
THEOREM ResponseTypeCorrect == Spec => []ResponseTypeOK
<1>1. Init => ResponseTypeOK
  <2> SUFFICES ASSUME Init PROVE ResponseTypeOK
    OBVIOUS
  <2>1. response \in Seq(Bytes) /\ resp_pos \in Int
    BY DEF Init
  <2>2. resp_len \in -1..MaxDatagram /\ taken \in 0..MaxTaken
    BY DEF Init
  <2>3. replied \in BOOLEAN
    BY DEF Init
  <2>4. last \in Returned
    BY ReturnedValues DEF Init
  <2> QED BY <2>1, <2>2, <2>3, <2>4 DEF ResponseTypeOK
<1>2. ResponseTypeOK /\ [Next]_vars => ResponseTypeOK'
  <2> SUFFICES ASSUME ResponseTypeOK, [Next]_vars PROVE ResponseTypeOK'
    OBVIOUS
  <2>1. CASE SendUnanswered
    <3>1. UNCHANGED <<response, resp_len, resp_pos>>
      BY <2>1 DEF SendUnanswered
    <3>2. replied' \in BOOLEAN
      BY <2>1 DEF SendUnanswered
    <3>3. taken' \in 0..MaxTaken
      BY <2>1 DEF SendUnanswered
    <3>4. last' \in Returned
      BY <2>1, ReturnedValues DEF SendUnanswered
    <3> QED BY <3>1, <3>2, <3>3, <3>4 DEF ResponseTypeOK
  <2>2. CASE SendReceiveFails
    <3>1. UNCHANGED <<response, resp_pos>>
      BY <2>2 DEF SendReceiveFails
    <3>2. replied' \in BOOLEAN
      BY <2>2 DEF SendReceiveFails
    <3>3. taken' \in 0..MaxTaken
      BY <2>2 DEF SendReceiveFails
    <3>4. last' \in Returned
      BY <2>2, ReturnedValues DEF SendReceiveFails
    <3>5. resp_len' \in -1..MaxDatagram
      BY <2>2 DEF SendReceiveFails
    <3> QED BY <3>1, <3>2, <3>3, <3>4, <3>5 DEF ResponseTypeOK
  <2>3. CASE SendInvalid
    <3>1. PICK d \in Datagrams : response' = d /\ resp_len' = Len(d)
      BY <2>3 DEF SendInvalid
    <3>2. response' \in Seq(Bytes) /\ resp_len' \in -1..MaxDatagram
      BY <3>1, DatagramsAreBytes, DatagramsAreShort
    <3>3. replied' \in BOOLEAN
      BY <2>3 DEF SendInvalid
    <3>4. taken' \in 0..MaxTaken
      BY <2>3 DEF SendInvalid
    <3>5. last' \in Returned
      BY <2>3, ReturnedValues DEF SendInvalid
    <3>6. resp_pos' \in Int
      BY <2>3 DEF SendInvalid, ResponseTypeOK
    <3> QED BY <3>2, <3>3, <3>4, <3>5, <3>6 DEF ResponseTypeOK
  <2>4. CASE SendReply
    <3>1. PICK d \in Datagrams : \E length \in POS_ATTRS..Len(d) :
            response' = d /\ resp_len' = length
      BY <2>4 DEF SendReply
    <3>2. response' \in Seq(Bytes) /\ resp_len' \in -1..MaxDatagram
      BY <3>1, DatagramsAreBytes, DatagramsAreShort
    <3>3. replied' \in BOOLEAN
      BY <2>4 DEF SendReply
    <3>4. taken' \in 0..MaxTaken
      BY <2>4 DEF SendReply
    <3>5. last' \in Returned
      BY <2>4, ReturnedValues DEF SendReply
    <3>6. resp_pos' \in Int
      BY <2>4 DEF SendReply, ResponseTypeOK
    <3> QED BY <3>2, <3>3, <3>4, <3>5, <3>6 DEF ResponseTypeOK
  <2>5. CASE GetAttr
    BY <2>5, GetAttrKeepsTypes
  <2>6. CASE UNCHANGED vars
    BY <2>6 DEF vars, ResponseTypeOK
  <2> QED BY <2>1, <2>2, <2>3, <2>4, <2>5, <2>6 DEF Next
<1> QED BY <1>1, <1>2, PTL DEF Spec

-----------------------------------------------------------------------------
(* What a server writes, read back.                                          *)

(* Attributes lie one behind the other in a message m, number i from         *)
(* start[i - 1] to start[i].                                                 *)
Tiles(m, attrs, start) ==
  /\ start[0] = 0 /\ start[Len(attrs)] = Len(m)
  /\ \A i \in 1..Len(attrs) :
       LET at == start[i - 1]
           value == attrs[i].value
       IN  /\ start[i] = at + 2 + Len(value)
           /\ start[i] <= Len(m)
           /\ m[at + 1] = attrs[i].type
           /\ m[at + 2] = 2 + Len(value)
           /\ \A j \in 1..Len(value) : m[at + 2 + j] = value[j]

Starts(attrs) ==
  CHOOSE start \in [0..Len(attrs) -> Nat] : Tiles(Message(attrs), attrs, start)

IsAttrs(attrs) ==
  /\ Len(attrs) \in Nat
  /\ \A i \in 1..Len(attrs) :
       attrs[i].type \in Bytes \ {0} /\ attrs[i].value \in Seq(Bytes)

(* The lists the model enumerates are lists of attributes.                   *)
LEMMA WrittenAttrsAre ==
  ASSUME NEW attrs \in WrittenAttrs PROVE IsAttrs(attrs)
<1> DEFINE values == BoundedSeq(Bytes, MaxBody - 2)
           records == [type : Bytes \ {0}, value : values]
<1>1. \A v \in values : v \in Seq(Bytes)
  <2> SUFFICES ASSUME NEW v \in values PROVE v \in Seq(Bytes)
    OBVIOUS
  <2>1. PICK m \in 0..(MaxBody - 2) : v \in [1..m -> Bytes]
    BY DEF BoundedSeq, SeqOf
  <2>2. m \in Nat
    BY DEF MaxBody
  <2> QED BY <2>1, <2>2
<1>2. attrs \in BoundedSeq(records, MaxBody \div 2)
  BY DEF WrittenAttrs
<1> HIDE DEF values
<1>3. PICK n \in 0..(MaxBody \div 2) : attrs \in [1..n -> records]
  <2> HIDE DEF records
  <2> QED BY <1>2 DEF BoundedSeq, SeqOf
<1>4. n \in Nat
  BY DEF MaxBody
<1>5. Len(attrs) = n
  <2> HIDE DEF records
  <2> QED BY <1>3, <1>4
<1>6. \A i \in 1..n : attrs[i].type \in Bytes \ {0} /\ attrs[i].value \in values
  BY <1>3
<1> QED BY <1>1, <1>4, <1>5, <1>6 DEF IsAttrs

(* Bytes are numbers.                                                        *)
LEMMA BytesAreNumbers ==
  ASSUME NEW s \in Seq(Bytes) PROVE s \in Seq(Int) /\ Len(s) \in Nat
<1>1. PICK n \in Nat : n = Len(s)
  OBVIOUS
<1>2. s \in [1..n -> Bytes]
  BY <1>1
<1>3. Bytes \subseteq Int
  OBVIOUS
<1>4. s \in [1..n -> Int]
  BY <1>2, <1>3
<1>5. s \in Seq(Int)
  BY <1>4
<1> QED BY <1>1, <1>5

(* An attribute on the wire: its type, its length, its value.                *)
LEMMA EncodeIs ==
  ASSUME NEW a, a.type \in Bytes, a.value \in Seq(Bytes)
  PROVE  /\ Encode(a) \in Seq(Int)
         /\ Len(Encode(a)) = 2 + Len(a.value)
         /\ Encode(a)[1] = a.type /\ Encode(a)[2] = 2 + Len(a.value)
         /\ \A j \in 1..Len(a.value) : Encode(a)[2 + j] = a.value[j]
<1>1. PICK type \in Int : type = a.type
  <2>1. a.type \in Int
    BY BytesAreNatural
  <2> QED BY <2>1
<1>2. PICK value \in Seq(Int) : value = a.value
  BY BytesAreNumbers
<1> DEFINE h == <<type, 2 + Len(value)>>
<1>3. h \in Seq(Int) /\ Len(h) = 2 /\ h[1] = type /\ h[2] = 2 + Len(value)
  BY <1>2
<1>4. Encode(a) = h \o value
  BY <1>1, <1>2 DEF Encode
<1> HIDE DEF h
<1>5. /\ h \o value \in Seq(Int) /\ Len(h \o value) = 2 + Len(value)
      /\ (h \o value)[1] = type /\ (h \o value)[2] = 2 + Len(value)
      /\ \A j \in 1..Len(value) : (h \o value)[2 + j] = value[j]
  <2>1. /\ h \o value \in Seq(Int) /\ Len(value) \in Nat
        /\ Len(h \o value) = Len(h) + Len(value)
        /\ \A j \in 1..Len(h) : (h \o value)[j] = h[j]
        /\ \A j \in 1..Len(value) : (h \o value)[Len(h) + j] = value[j]
    <3> SUFFICES ASSUME NEW t \in Seq(Int), NEW s \in Seq(Int)
                 PROVE  /\ s \o t \in Seq(Int) /\ Len(t) \in Nat
                        /\ Len(s \o t) = Len(s) + Len(t)
                        /\ \A j \in 1..Len(s) : (s \o t)[j] = s[j]
                        /\ \A j \in 1..Len(t) : (s \o t)[Len(s) + j] = t[j]
      BY <1>2, <1>3
    <3> QED BY JoinedSequences
  <2>2. 1 \in 1..Len(h) /\ 2 \in 1..Len(h)
    BY <1>3
  <2> QED BY <1>3, <2>1, <2>2
<1> QED BY <1>1, <1>2, <1>4, <1>5

(* The attributes of a message lie one behind the other in it.               *)
LEMMA MessageTiles ==
  ASSUME NEW attrs, IsAttrs(attrs)
  PROVE  \E start \in [0..Len(attrs) -> Nat] : Tiles(Message(attrs), attrs, start)
<1>1. PICK n \in Nat : n = Len(attrs)
  BY DEF IsAttrs
<1> DEFINE seqs == [i \in 1..n |-> Encode(attrs[i])]
<1>2. \A i \in 1..n :
        /\ attrs[i].value \in Seq(Bytes) /\ Len(attrs[i].value) \in Nat
        /\ Encode(attrs[i]) \in Seq(Int)
        /\ Len(Encode(attrs[i])) = 2 + Len(attrs[i].value)
        /\ Encode(attrs[i])[1] = attrs[i].type
        /\ Encode(attrs[i])[2] = 2 + Len(attrs[i].value)
        /\ \A j \in 1..Len(attrs[i].value) :
             Encode(attrs[i])[2 + j] = attrs[i].value[j]
  BY SMTT(30), <1>1, EncodeIs DEF IsAttrs
<1>3. seqs \in [1..n -> Seq(Int)]
  BY <1>2
<1>4. PICK start \in [0..n -> Nat] : LieIn(FlattenSeq(seqs), n, seqs, start)
  <2>1. PICK f \in [1..n -> Seq(Int)] : f = seqs
    BY <1>3
  <2>2. \E start \in [0..n -> Nat] : LieIn(FlattenSeq(f), n, f, start)
    BY FlattenIs
  <2> HIDE DEF seqs
  <2> QED BY <2>1, <2>2
<1>5. Message(attrs) = FlattenSeq(seqs)
  BY <1>1 DEF Message
<1>6. PICK m : m = Message(attrs)
  OBVIOUS
<1>7. \A i \in 1..n : seqs[i] = Encode(attrs[i])
  OBVIOUS
<1> HIDE DEF seqs
<1>8. ASSUME NEW i \in 1..n
      PROVE  /\ start[i] = start[i - 1] + 2 + Len(attrs[i].value)
             /\ start[i] <= Len(m)
             /\ m[start[i - 1] + 1] = attrs[i].type
             /\ m[start[i - 1] + 2] = 2 + Len(attrs[i].value)
             /\ \A j \in 1..Len(attrs[i].value) :
                  m[start[i - 1] + 2 + j] = attrs[i].value[j]
  <2>1. i - 1 \in 0..n /\ i \in 0..n
    OBVIOUS
  <2>2. PICK at \in Nat : at = start[i - 1]
    BY <2>1
  <2>3. PICK len \in Nat : len = Len(attrs[i].value)
    BY <1>2
  <2>4. PICK e \in Seq(Int) : e = seqs[i]
    BY <1>2, <1>7
  <2>5. /\ Len(e) = 2 + len
        /\ e[1] = attrs[i].type /\ e[2] = 2 + len
        /\ \A j \in 1..len : e[2 + j] = attrs[i].value[j]
    BY <1>2, <1>7, <2>3, <2>4
  <2>6. /\ start[i] = at + Len(e) /\ start[i] <= Len(m)
        /\ \A j \in 1..Len(e) : m[at + j] = e[j]
    BY <1>4, <1>5, <1>6, <2>2, <2>4 DEF LieIn
  <2>7. \A j \in 1..(2 + len) : m[at + j] = e[j]
    BY <2>5, <2>6
  <2>8. 1 \in 1..(2 + len) /\ 2 \in 1..(2 + len)
    OBVIOUS
  <2>9. \A j \in 1..len : m[at + 2 + j] = attrs[i].value[j]
    <3> SUFFICES ASSUME NEW j \in 1..len
                 PROVE  m[at + 2 + j] = attrs[i].value[j]
      OBVIOUS
    <3>1. 2 + j \in 1..(2 + len) /\ at + (2 + j) = at + 2 + j
      OBVIOUS
    <3> QED BY <2>5, <2>7, <3>1
  <2>10. m[at + 1] = attrs[i].type /\ m[at + 2] = 2 + len
    BY <2>5, <2>7, <2>8
  <2>11. start[i] = at + 2 + len
    <3>1. Len(e) = 2 + len
      BY <2>5
    <3>2. start[i] = at + (2 + len)
      BY <2>6, <3>1, Zenon
    <3> QED BY <3>2
  <2> QED BY <2>2, <2>3, <2>6, <2>9, <2>10, <2>11
<1>9. Tiles(m, attrs, start)
  BY <1>1, <1>4, <1>5, <1>6, <1>8 DEF Tiles, LieIn
<1> QED BY <1>1, <1>6, <1>9

(* The attributes a message was written from, and where they lie in it.      *)
LEMMA WrittenTiles ==
  ASSUME NEW m \in DOMAIN WrittenFrom, NEW attrs, attrs = WrittenFrom[m]
  PROVE  /\ IsAttrs(attrs)
         /\ Starts(attrs) \in [0..Len(attrs) -> Nat]
         /\ Tiles(m, attrs, Starts(attrs))
<1>1. PICK written \in WrittenAttrs : Message(written) = m
  <2>1. m \in {Message(written) : written \in WrittenAttrs}
    BY DEF WrittenFrom
  <2> HIDE DEF WrittenFrom
  <2> QED BY <2>1
<1>2. attrs = CHOOSE w \in WrittenAttrs : Message(w) = m
  BY DEF WrittenFrom
<1>3. attrs \in WrittenAttrs /\ Message(attrs) = m
  BY <1>1, <1>2
<1>4. IsAttrs(attrs)
  BY <1>3, WrittenAttrsAre
<1>5. \E start \in [0..Len(attrs) -> Nat] : Tiles(Message(attrs), attrs, start)
  BY <1>4, MessageTiles
<1>6. /\ Starts(attrs) \in [0..Len(attrs) -> Nat]
      /\ Tiles(Message(attrs), attrs, Starts(attrs))
  BY <1>5, Zenon DEF Starts
<1> QED BY <1>3, <1>4, <1>6

(* The scan stands in front of the attribute after those it has returned,    *)
(* and the one returned last is where it was written.                        *)
Standing(attrs, start) ==
  /\ taken \in 0..Len(attrs)
  /\ resp_pos = POS_ATTRS + start[taken]
  /\ last.kind = "attr" =>
       /\ taken > 0
       /\ last = Attr(attrs[taken].type, POS_ATTRS + start[taken - 1] + 2,
                      Len(attrs[taken].value))
  /\ last = NoneLeft => taken = Len(attrs)
  /\ last # Failure

ExactInv ==
  replied /\ Body \in DOMAIN WrittenFrom =>
    Standing(WrittenFrom[Body], Starts(WrittenFrom[Body]))

(* The results of a scan are told apart by their kind.                       *)
LEMMA KindsDiffer ==
  /\ Nothing.kind = "nothing" /\ Failure.kind = "failure" /\ NoneLeft.kind = "none_left"
  /\ Nothing # Failure /\ Nothing # NoneLeft /\ NoneLeft # Failure
  /\ \A type, off, len :
       /\ Attr(type, off, len).kind = "attr" /\ Attr(type, off, len).type = type
       /\ Attr(type, off, len).off = off /\ Attr(type, off, len).len = len
<1>1. /\ Nothing.kind = "nothing" /\ Failure.kind = "failure"
      /\ NoneLeft.kind = "none_left"
  BY DEF Nothing, Failure, NoneLeft
<1>2. Nothing # Failure /\ Nothing # NoneLeft /\ NoneLeft # Failure
  BY <1>1
<1> QED BY <1>1, <1>2 DEF Attr

(* The body of a reply is the part of the buffer behind its header.          *)
LEMMA BodyIs ==
  ASSUME ScanInv, replied
  PROVE  /\ Len(Body) = resp_len - POS_ATTRS
         /\ \A k \in 1..(resp_len - POS_ATTRS) :
              Body[k] = response[POS_ATTRS + k] /\ POS_ATTRS + k \in 1..Len(response)
<1>1. /\ response \in Seq(Bytes) /\ resp_len \in Int /\ POS_ATTRS <= resp_len
      /\ resp_len <= Len(response)
  BY DEF ScanInv, ScanInsideMessage
<1>2. POS_ATTRS + 1 \in 1..(Len(response) + 1) /\ resp_len \in 0..Len(response)
  BY <1>1
<1>3. Len(Body) = resp_len - POS_ATTRS
  BY <1>1, <1>2 DEF Body
<1>4. ASSUME NEW k \in 1..(resp_len - POS_ATTRS)
      PROVE  Body[k] = response[POS_ATTRS + k] /\ POS_ATTRS + k \in 1..Len(response)
  BY <1>1, <1>2 DEF Body
<1> QED BY <1>3, <1>4

(* The attribute in front of which the scan stands is the one it returns.    *)
LEMMA GetAttrIsExact ==
  ASSUME ScanInv, ExactInv, GetAttr
  PROVE  ExactInv'
<1>1. UNCHANGED <<response, resp_len, replied>>
  BY DEF GetAttr
<1>2. Body' = Body
  BY <1>1 DEF Body
<1>3. CASE ~(replied /\ Body \in DOMAIN WrittenFrom)
  BY <1>1, <1>2, <1>3, Zenon DEF ExactInv
<1>4. CASE replied /\ Body \in DOMAIN WrittenFrom
  <2>1. PICK m \in DOMAIN WrittenFrom : m = Body
    BY <1>4
  <2>2. PICK attrs : attrs = WrittenFrom[m]
    OBVIOUS
  <2>3. IsAttrs(attrs) /\ Starts(attrs) \in [0..Len(attrs) -> Nat]
        /\ Tiles(m, attrs, Starts(attrs))
    BY <2>1, <2>2, WrittenTiles
  <2>4. PICK n \in Nat : n = Len(attrs)
    BY <2>3 DEF IsAttrs
  <2>5. PICK start \in [0..n -> Nat] : start = Starts(attrs)
    BY <2>3, <2>4
  <2>6. Standing(attrs, start)
    BY <1>4, <2>1, <2>2, <2>5, Zenon DEF ExactInv
  <2>7. SUFFICES Standing(attrs, start)'
    BY <1>2, <2>1, <2>2, <2>5, Zenon DEF ExactInv
  <2>8. PICK t \in 0..n : t = taken
    BY <2>4, <2>6 DEF Standing
  <2>9. /\ resp_len \in Int /\ POS_ATTRS <= resp_len /\ response \in Seq(Bytes)
        /\ resp_pos = POS_ATTRS + start[t] /\ start[t] \in Nat
    BY <1>4, <2>5, <2>6, <2>8 DEF ScanInv, ScanInsideMessage, Standing
  <2>10. /\ Len(m) = resp_len - POS_ATTRS
         /\ \A k \in 1..(resp_len - POS_ATTRS) :
              m[k] = response[POS_ATTRS + k] /\ POS_ATTRS + k \in 1..Len(response)
    BY <1>4, <2>1, BodyIs
  <2>11. CASE t = n
    <3>1. resp_pos = resp_len /\ resp_len # 0
      BY <2>3, <2>4, <2>5, <2>9, <2>10, <2>11 DEF Tiles
    <3>2. last' = NoneLeft /\ UNCHANGED <<resp_pos, taken>>
      <4>1. ~(resp_pos < resp_len) /\ ~(resp_pos + 2 <= resp_len) /\ resp_pos >= resp_len
        BY <2>9, <3>1
      <4> QED BY <3>1, <4>1 DEF GetAttr
    <3>3. last'.kind # "attr" /\ last' # Failure
      BY <3>2, KindsDiffer
    <3> QED BY <2>4, <2>6, <2>8, <2>11, <3>2, <3>3 DEF Standing
  <2>12. CASE t # n
    <3>1. PICK i \in 1..n : i = t + 1 /\ i - 1 = t
      BY <2>8, <2>12
    <3>2. PICK len \in Nat : len = Len(attrs[i].value)
      BY <2>3, <2>4, <3>1 DEF IsAttrs
    <3>3. /\ start[i] = start[t] + 2 + len /\ start[i] <= Len(m)
          /\ m[start[t] + 1] = attrs[i].type
          /\ m[start[t] + 2] = 2 + len
      BY <2>3, <2>4, <2>5, <3>1, <3>2 DEF Tiles
    <3>4. start[i] \in Nat /\ attrs[i].type # 0
      BY <2>3, <2>4, <2>5, <3>1 DEF IsAttrs
    <3>5. PICK s \in Nat : s = start[t]
      BY <2>9
    <3>6. s + 2 + len <= resp_len - POS_ATTRS /\ resp_pos = POS_ATTRS + s
      BY <2>9, <2>10, <3>3, <3>4, <3>5
    <3>7. s + 1 \in 1..(resp_len - POS_ATTRS) /\ s + 2 \in 1..(resp_len - POS_ATTRS)
      BY <2>9, <3>6
    <3>8. /\ response[POS_ATTRS + (s + 1)] = attrs[i].type
          /\ POS_ATTRS + (s + 1) \in 1..Len(response)
          /\ response[POS_ATTRS + (s + 2)] = 2 + len
          /\ POS_ATTRS + (s + 2) \in 1..Len(response)
      BY <2>10, <3>3, <3>5, <3>7
    <3>9. /\ resp_pos \in 0..(Len(response) - 1) /\ resp_pos + 1 \in 0..(Len(response) - 1)
          /\ resp_pos + 1 = POS_ATTRS + (s + 1)
          /\ resp_pos + 1 + 1 = POS_ATTRS + (s + 2)
      <4>1. PICK size : size = Len(response)
        OBVIOUS
      <4>2. POS_ATTRS + (s + 1) \in 1..size /\ POS_ATTRS + (s + 2) \in 1..size
        BY <3>8, <4>1
      <4>3. POS_ATTRS \in Nat /\ resp_pos = POS_ATTRS + s
        BY <2>9, <3>6
      <4>4. size \in Nat
        BY <2>9, <4>1
      <4>5. /\ resp_pos \in 0..(size - 1) /\ resp_pos + 1 \in 0..(size - 1)
            /\ resp_pos + 1 = POS_ATTRS + (s + 1)
            /\ resp_pos + 1 + 1 = POS_ATTRS + (s + 2)
        BY <4>2, <4>3, <4>4
      <4> QED BY <4>1, <4>5
    <3>10. At(resp_pos) = {attrs[i].type} /\ At(resp_pos + 1) = {2 + len}
      BY <3>8, <3>9 DEF At
    <3>11. /\ resp_len # 0 /\ ~(resp_pos >= resp_len) /\ ~(resp_pos + 2 > resp_len)
           /\ resp_pos + 2 + len <= resp_len
      BY <2>9, <3>6
    <3>12. /\ resp_pos' = resp_pos + 2 + len
           /\ last' = Attr(attrs[i].type, resp_pos + 2, len)
           /\ taken' = taken + 1
      <4>1. PICK type \in At(resp_pos), size \in At(resp_pos + 1) :
              LET off == resp_pos + 2
                  length == AsSize(size - 2)
              IN  \/ /\ ~FitsRest(off, length)
                     /\ resp_pos' = off
                     /\ last' = Failure
                     /\ UNCHANGED taken
                  \/ /\ FitsRest(off, length)
                     /\ resp_pos' = AsInt(PlusSize(AsSize(off), length))
                     /\ last' = IF type = 0 THEN NoneLeft ELSE Attr(type, off, length)
                     /\ taken' = taken + 1
        BY <3>11, Zenon DEF GetAttr
      <4>2. type = attrs[i].type /\ size - 2 = len
        BY <3>10, <4>1
      <4>3. PICK off \in Int : off = resp_pos + 2
        BY <2>9
      <4>4. /\ 0 <= off /\ off < HALF /\ len < HALF /\ off + len < HALF
            /\ HALF \in Int
        <5>1. resp_len \in Int /\ resp_len <= MaxDatagram
          BY DEF ScanInv
        <5>2. off = POS_ATTRS + s + 2 /\ off + len <= resp_len
          BY <3>6, <4>3, <5>1
        <5>3. POS_ATTRS \in Nat /\ MaxDatagram \in Nat /\ HALF \in Nat
              /\ MaxDatagram < HALF
          OBVIOUS
        <5> QED BY <5>1, <5>2, <5>3
      <4>5. AsSize(len) = len /\ AsInt(AsSize(len)) = len
        BY <4>4, SizeIsInt
      <4>6. AsInt(PlusSize(AsSize(off), AsSize(len))) = off + len
        BY <4>4, SizeSumIsInt
      <4>7. AsSize(size - 2) = len
        BY <4>2, <4>5, Zenon
      <4>8. FitsRest(resp_pos + 2, AsSize(size - 2))
        BY <3>11, <4>5, <4>7 DEF FitsRest
      <4>9. /\ resp_pos' = AsInt(PlusSize(AsSize(off), len))
            /\ last' = Attr(attrs[i].type, resp_pos + 2, len)
            /\ taken' = taken + 1
        BY <3>4, <4>1, <4>2, <4>3, <4>7, <4>8
      <4> QED BY <4>3, <4>5, <4>6, <4>9
    <3>13. taken' = i /\ i \in 0..n /\ i > 0
      BY <2>8, <3>1, <3>12
    <3>14. resp_pos' = POS_ATTRS + start[i]
      <4>1. PICK e \in Nat : e = start[i]
        BY <3>4
      <4>2. e = s + 2 + len
        BY <3>3, <3>5, <4>1
      <4> QED BY <3>6, <3>12, <4>1, <4>2
    <3>15. last' = Attr(attrs[i].type, POS_ATTRS + start[i - 1] + 2, Len(attrs[i].value))
      BY <2>9, <3>1, <3>2, <3>12
    <3>16. last' # NoneLeft /\ last' # Failure
      BY <3>15, KindsDiffer
    <3> QED BY <2>4, <3>13, <3>14, <3>15, <3>16 DEF Standing
  <2> QED BY <2>11, <2>12
<1> QED BY <1>3, <1>4

(* The value of the attribute returned last is the one written.              *)
LEMMA StandingIsExact ==
  ASSUME ScanInv, ExactInv
  PROVE  ScanIsExact
<1> SUFFICES ASSUME replied, Body \in DOMAIN WrittenFrom
             PROVE  LET attrs == WrittenFrom[Body]
                    IN  /\ taken <= Len(attrs)
                        /\ last.kind = "attr" =>
                             /\ last.type = attrs[taken].type
                             /\ ValueOf(last) = attrs[taken].value
                        /\ last = NoneLeft => taken = Len(attrs)
                        /\ last # Failure
  BY DEF ScanIsExact
<1>1. PICK m \in DOMAIN WrittenFrom : m = Body
  OBVIOUS
<1>2. PICK attrs : attrs = WrittenFrom[m]
  OBVIOUS
<1>3. IsAttrs(attrs) /\ Starts(attrs) \in [0..Len(attrs) -> Nat]
      /\ Tiles(m, attrs, Starts(attrs))
  BY <1>1, <1>2, WrittenTiles
<1>4. PICK n \in Nat : n = Len(attrs)
  BY <1>3 DEF IsAttrs
<1>5. PICK start \in [0..n -> Nat] : start = Starts(attrs)
  BY <1>3, <1>4
<1>6. Standing(attrs, start)
  BY <1>1, <1>2, <1>5, Zenon DEF ExactInv
<1>7. ASSUME last.kind = "attr"
      PROVE  last.type = attrs[taken].type /\ ValueOf(last) = attrs[taken].value
  <2>1. PICK i \in 1..n : i = taken
    BY <1>4, <1>6, <1>7 DEF Standing
  <2>2. PICK value \in Seq(Bytes) : value = attrs[i].value
    BY <1>3, <1>4, <2>1 DEF IsAttrs
  <2>3. PICK len \in Nat : len = Len(value)
    OBVIOUS
  <2>4. PICK s \in Nat : s = start[i - 1]
    <3>1. i - 1 \in 0..n
      OBVIOUS
    <3> QED BY <3>1
  <2>5. last = Attr(attrs[i].type, POS_ATTRS + s + 2, len)
    BY <1>6, <1>7, <2>1, <2>2, <2>3, <2>4, Zenon DEF Standing
  <2>6. last.type = attrs[i].type /\ last.off = POS_ATTRS + s + 2 /\ last.len = len
    BY <2>5, KindsDiffer
  <2>7. s + 2 + len <= Len(m) /\ \A j \in 1..len : m[s + 2 + j] = value[j]
    BY <1>3, <1>4, <1>5, <2>2, <2>3, <2>4 DEF Tiles
  <2>8. /\ resp_len \in Int /\ response \in Seq(Bytes) /\ resp_len <= Len(response)
        /\ POS_ATTRS <= resp_len
    BY DEF ScanInv, ScanInsideMessage
  <2>9. /\ Len(m) = resp_len - POS_ATTRS
        /\ \A k \in 1..(resp_len - POS_ATTRS) : m[k] = response[POS_ATTRS + k]
    BY <1>1, BodyIs
  <2>10. PICK from \in Nat : from = POS_ATTRS + s + 2
    OBVIOUS
  <2>11. from + len <= Len(response) /\ Len(response) \in Nat
    BY <2>7, <2>8, <2>9, <2>10
  <2>12. \A j \in 1..len : response[from + j] = value[j]
    <3> SUFFICES ASSUME NEW j \in 1..len PROVE response[from + j] = value[j]
      OBVIOUS
    <3>1. s + 2 + j \in 1..(resp_len - POS_ATTRS) /\ POS_ATTRS + (s + 2 + j) = from + j
      BY <2>7, <2>8, <2>9, <2>10
    <3> QED BY <2>7, <2>9, <3>1
  <2>13. ValueOf(last) = SubSeq(response, from + 1, from + len)
    BY <2>6, <2>10 DEF ValueOf
  <2>14. SubSeq(response, from + 1, from + len) = value
    <3> DEFINE sub == SubSeq(response, from + 1, from + len)
    <3>1. from + 1 \in 1..(Len(response) + 1) /\ from + len \in 0..Len(response)
      BY <2>11
    <3>2. sub \in Seq(Bytes) /\ Len(sub) = len
      BY <2>8, <2>11, <3>1
    <3>3. \A j \in 1..len : sub[j] = response[from + j]
      BY <2>8, <2>11, <3>1
    <3> HIDE DEF sub
    <3>4. \A j \in 1..len : sub[j] = value[j]
      BY <2>12, <3>3
    <3>5. sub = value
      BY <2>3, <3>2, <3>4, SeqEqual
    <3> QED BY <3>5 DEF sub
  <2> QED BY <2>1, <2>2, <2>6, <2>13, <2>14
<1> QED BY <1>1, <1>2, <1>4, <1>6, <1>7 DEF Standing

(* ScanIsExact for any bytes and datagrams: whatever well-formed attributes  *)
(* a server wrote into its answer, rad_get_attr returns each one of them, in *)
(* order and with its value, then that none is left, and never a failure.    *)
THEOREM ScanReadsWhatWasWritten == Spec => []ScanIsExact
<1>1. Init => ScanInv /\ ExactInv
  BY ScanInvStarts DEF Init, ExactInv
<1>2. ScanInv /\ ExactInv /\ [Next]_vars => ScanInv' /\ ExactInv'
  <2> SUFFICES ASSUME ScanInv, ExactInv, [Next]_vars PROVE ExactInv'
    BY ScanInvIsKept
  <2>1. CASE SendUnanswered \/ SendReceiveFails \/ SendInvalid
    <3>1. ~replied'
      BY <2>1 DEF SendUnanswered, SendReceiveFails, SendInvalid
    <3> QED BY <3>1 DEF ExactInv
  <2>2. CASE SendReply
    <3>1. CASE Body' \notin DOMAIN WrittenFrom
      BY <3>1 DEF ExactInv
    <3>2. CASE Body' \in DOMAIN WrittenFrom
      <4>1. PICK m \in DOMAIN WrittenFrom : m = Body'
        BY <3>2
      <4>2. PICK attrs : attrs = WrittenFrom[m]
        OBVIOUS
      <4>3. PICK start : start = Starts(attrs)
        OBVIOUS
      <4>4. IsAttrs(attrs) /\ start[0] = 0
        BY <4>1, <4>2, <4>3, WrittenTiles DEF Tiles
      <4>5. taken' = 0 /\ resp_pos' = POS_ATTRS + 0 /\ last' = Nothing
        BY <2>2 DEF SendReply
      <4>6. last'.kind # "attr" /\ last' # NoneLeft /\ last' # Failure
        BY <4>5, KindsDiffer
      <4>7. Standing(attrs, start)'
        BY <4>4, <4>5, <4>6 DEF Standing, IsAttrs
      <4> QED BY <4>1, <4>2, <4>3, <4>7, Zenon DEF ExactInv
    <3> QED BY <3>1, <3>2
  <2>3. CASE GetAttr
    BY <2>3, GetAttrIsExact
  <2>4. CASE UNCHANGED vars
    BY <2>4 DEF vars, ExactInv, Standing, Body
  <2> QED BY <2>1, <2>2, <2>3, <2>4 DEF Next
<1>3. ScanInv /\ ExactInv => ScanIsExact
  BY StandingIsExact
<1> QED BY <1>1, <1>2, <1>3, PTL DEF Spec
=============================================================================
