---------------------------- MODULE RadResponse -----------------------------
(* The response buffer of a rad_handle and the scan over its attributes:     *)
(* what rad_send_request leaves in resp_len and resp_pos, and rad_get_attr,  *)
(* which the application calls until it returns 0 (radlib.c).                *)
(*                                                                           *)
(* A datagram is a sequence of bytes, here counted from 0 as in the code.    *)
(* Its header is opaque; the length field is a parameter of its own.         *)
EXTENDS Integers, Sequences, SequencesExt

CONSTANTS
  POS_ATTRS,   \* bytes before the first attribute (20)
  Bytes,       \* values of the bytes of a datagram
  MaxDatagram, \* bytes in a datagram
  HALF,        \* half the values of an int and of a size_t (2^31 where both
               \* have 32 bits; a wider size_t is cut to its low half)
  Garbage,     \* what resp_pos may be before the first reply: nothing sets it
  MaxTaken     \* bound: attributes read from one response

ASSUME ResponseAssumption ==
  /\ POS_ATTRS \in Nat \ {0}
  /\ Bytes \subseteq 0..255
  /\ MaxDatagram \in Nat
  /\ HALF \in Nat /\ HALF > 255 /\ HALF > MaxDatagram
  /\ Garbage \subseteq -HALF..(HALF - 1)
  /\ MaxTaken \in Nat

VARIABLES
  response,  \* the datagram received last
  resp_len,
  resp_pos,
  replied,   \* the last send returned a reply
  taken,     \* attributes rad_get_attr has returned since the last send
  last       \* what the last call returned

vars == <<response, resp_len, resp_pos, replied, taken, last>>

Datagrams == BoundedSeq(Bytes, MaxDatagram)

Nothing == [kind |-> "nothing"]     \* not called since the last send
Failure == [kind |-> "failure"]     \* -1
NoneLeft == [kind |-> "none_left"]  \* 0
Attr(type, off, len) == [kind |-> "attr", type |-> type, off |-> off, len |-> len]

(* A number stored in a size_t and taken back into an int.                   *)
WORD == 2 * HALF
AsSize(n) == IF n < 0 THEN n + WORD ELSE n
AsInt(n) == IF n >= HALF THEN n - WORD ELSE n
PlusSize(n, m) == IF n + m >= WORD THEN n + m - WORD ELSE n + m

Returned == {Nothing, Failure, NoneLeft}
              \cup [kind : {"attr"}, type : Bytes, off : Int, len : 0..(WORD - 1)]

(* The byte at a position; outside the datagram it can be anything.          *)
At(pos) == IF pos \in 0..(Len(response) - 1) THEN {response[pos + 1]} ELSE Bytes

-----------------------------------------------------------------------------
Init ==
  /\ response = << >>
  /\ resp_len = 0
  /\ resp_pos \in Garbage
  /\ replied = FALSE
  /\ taken = 0
  /\ last = Nothing

(* rad_send_request, as the response buffer sees it.  No datagram came ...   *)
SendUnanswered ==
  /\ replied' = FALSE
  /\ taken' = 0
  /\ last' = Nothing
  /\ UNCHANGED <<response, resp_len, resp_pos>>

(* ... or recvfrom failed ...                                                *)
SendReceiveFails ==
  /\ resp_len' = -1
  /\ replied' = FALSE
  /\ taken' = 0
  /\ last' = Nothing
  /\ UNCHANGED <<response, resp_pos>>

(* ... or the last datagram that came was not a valid answer: its size is    *)
(* kept, and the position of the last scan ...                               *)
SendInvalid ==
  /\ \E d \in Datagrams : response' = d /\ resp_len' = Len(d)
  /\ replied' = FALSE
  /\ taken' = 0
  /\ last' = Nothing
  /\ UNCHANGED resp_pos

(* Mutants: the scan is not started again, or the length field is trusted.   *)
ReplyKeepsPosition ==
  /\ \E d \in Datagrams : \E length \in POS_ATTRS..Len(d) :
       response' = d /\ resp_len' = length
  /\ replied' = TRUE
  /\ taken' = 0
  /\ last' = Nothing
  /\ UNCHANGED resp_pos
ReplyTrustsLength ==
  /\ \E d \in Datagrams : \E length \in POS_ATTRS..255 :
       response' = d /\ resp_len' = length
  /\ resp_pos' = POS_ATTRS
  /\ replied' = TRUE
  /\ taken' = 0
  /\ last' = Nothing

(* ... or it was, and the scan starts behind its header and ends where its   *)
(* length field says, which may be before its last byte.                     *)
SendReply ==
  /\ \E d \in Datagrams : \E length \in POS_ATTRS..Len(d) :
       response' = d /\ resp_len' = length
  /\ resp_pos' = POS_ATTRS
  /\ replied' = TRUE
  /\ taken' = 0
  /\ last' = Nothing

(* Mutant: off by one.                                                       *)
FitsOneMore(pos, len) == pos + AsInt(len) <= resp_len + 1

(* The second bounds check of rad_get_attr, made on signed numbers: a value  *)
(* that ends in the message, or has a length that is negative as an int.     *)
FitsRest(pos, len) == pos + AsInt(len) <= resp_len

(* rad_get_attr.  The header of an attribute is passed before its length is  *)
(* looked at.  *len is a size_t: a length byte below 2 makes it one of the   *)
(* two largest, with which the sum below comes round and takes resp_pos      *)
(* back.  (radius_get_attr copies that many bytes, which no script survives; *)
(* a caller in C may go on.)                                                 *)
GetAttr ==
  /\ taken < MaxTaken
  /\ UNCHANGED <<response, resp_len, replied>>
  /\ \/ /\ resp_len = 0
        /\ last' = Failure
        /\ UNCHANGED <<resp_pos, taken>>
     \/ /\ resp_len # 0
        /\ resp_pos >= resp_len
        /\ last' = NoneLeft
        /\ UNCHANGED <<resp_pos, taken>>
     \/ /\ resp_len # 0
        /\ resp_pos < resp_len
        /\ resp_pos + 2 > resp_len
        /\ last' = Failure
        /\ UNCHANGED <<resp_pos, taken>>
     \/ /\ resp_len # 0
        /\ resp_pos + 2 <= resp_len
        /\ \E type \in At(resp_pos), size \in At(resp_pos + 1) :
             LET off == resp_pos + 2
                 len == AsSize(size - 2)
             IN  \/ /\ ~FitsRest(off, len)
                    /\ resp_pos' = off
                    /\ last' = Failure
                    /\ UNCHANGED taken
                 \/ /\ FitsRest(off, len)
                    /\ resp_pos' = AsInt(PlusSize(AsSize(off), len))
                    /\ last' = IF type = 0 THEN NoneLeft ELSE Attr(type, off, len)
                    /\ taken' = taken + 1

Next == SendUnanswered \/ SendReceiveFails \/ SendInvalid \/ SendReply \/ GetAttr

Spec == Init /\ [][Next]_vars

-----------------------------------------------------------------------------
(* Type correctness of the response fields of rad_handle.                    *)
ResponseTypeOK ==
  /\ response \in Seq(Bytes)
  /\ resp_len \in -1..MaxDatagram
  /\ resp_pos \in Int
  /\ replied \in BOOLEAN
  /\ taken \in 0..MaxTaken
  /\ last \in Returned

(* After a reply the scan stays inside the message, whatever its bytes say:  *)
(* rad_get_attr never reads in front of the attributes or past resp_len, and *)
(* a value it returns starts inside.  It ends behind resp_len exactly when   *)
(* the byte in front of it, the attribute's length, is below 2: no attribute *)
(* has such a length, and "Malformed attribute in response" is not what      *)
(* rad_get_attr answers.                                                     *)
ScanInsideMessage ==
  replied =>
    /\ POS_ATTRS <= resp_pos /\ resp_pos <= resp_len
    /\ resp_len <= Len(response)
    /\ last.kind = "attr" =>
         /\ POS_ATTRS + 2 <= last.off /\ last.off <= resp_len
         /\ last.off + last.len > resp_len <=> response[last.off] < 2

(* Attributes as a server writes them, and what a message was written from.  *)
Encode(a) == <<a.type, 2 + Len(a.value)>> \o a.value
Message(attrs) == FlattenSeq([i \in 1..Len(attrs) |-> Encode(attrs[i])])
MaxBody == MaxDatagram - POS_ATTRS
WrittenAttrs ==
  LET values == BoundedSeq(Bytes, MaxBody - 2)
  IN  {attrs \in BoundedSeq([type : Bytes \ {0}, value : values], MaxBody \div 2) :
         Len(Message(attrs)) <= MaxBody}
WrittenFrom ==
  [m \in {Message(attrs) : attrs \in WrittenAttrs} |->
     CHOOSE attrs \in WrittenAttrs : Message(attrs) = m]

Body == SubSeq(response, POS_ATTRS + 1, resp_len)
ValueOf(a) == SubSeq(response, a.off + 1, a.off + a.len)

(* The scan is the inverse of writing: of a reply that carries well-formed   *)
(* attributes, rad_get_attr returns each one, in order and with its value,   *)
(* then that none is left, and no failure.  Nothing of an earlier response,  *)
(* or behind the length field, gets into it.                                 *)
ScanIsExact ==
  replied /\ Body \in DOMAIN WrittenFrom =>
    LET attrs == WrittenFrom[Body]
    IN  /\ taken <= Len(attrs)
        /\ last.kind = "attr" =>
             last.type = attrs[taken].type /\ ValueOf(last) = attrs[taken].value
        /\ last = NoneLeft => taken = Len(attrs)
        /\ last # Failure

(* The message of rad_get_attr, "No response has been received": without a   *)
(* reply there are no attributes.                                            *)
AttributesNeedAReply == last.kind = "attr" => replied
=============================================================================
