-------------------------- MODULE RadRequestProofs --------------------------
(* Theorems about the request being built.                                   *)
EXTENDS RadRequest, TLAPS

-----------------------------------------------------------------------------
(* Lengths.                                                                  *)

(* A padded password is at least one block and at most PASSSIZE.             *)
LEMMA PaddedLength ==
  ASSUME NEW n \in Nat
  PROVE  /\ Significant(n) \in 0..PASSSIZE
         /\ PaddedLen(Significant(n)) \in 16..PASSSIZE
<1>1. PASSSIZE \in Nat /\ PASSSIZE >= 16 /\ PASSSIZE % 16 = 0
  BY RequestAssumption
<1>2. Significant(n) \in 0..PASSSIZE
  BY <1>1 DEF Significant
<1>3. ASSUME NEW k \in 1..PASSSIZE
      PROVE  RoundUp16(k) \in 16..PASSSIZE
  BY <1>1 DEF RoundUp16
<1> QED BY <1>1, <1>2, <1>3 DEF PaddedLen

(* The difference of two numbers up to a bound.                              *)
LEMMA Difference ==
  ASSUME NEW m \in Nat, NEW a \in Nat, NEW b \in Nat, b <= a, a <= m
  PROVE  a - b \in 0..m
OBVIOUS

(* A value has a length, salted and tagged or not.                           *)
LEMMA ValueLength ==
  ASSUME NEW len \in Nat, NEW opts
  PROVE  ValueLen(len, opts) \in Nat
BY DEF ValueLen, SaltedLen, RoundUp16

(* What a value is encrypted with is a key.                                  *)
LEMMA SaltKeyType ==
  ASSUME auth \in Auths, NEW secret \in Secrets \cup {NoSecret}, NEW len, NEW opts
  PROVE  KeyWith(secret) \in Keys /\ SaltKey(len, opts, secret) \in Keys
<1>1. IsRandom(auth) => auth.random \in Nat
  BY DEF Auths, IsRandom, Contents
<1> QED BY <1>1 DEF KeyWith, SaltKey, NoKey, Keys

-----------------------------------------------------------------------------
(* How a call that puts nothing ends.                                        *)

Failures == {"refused", "crash", "fatal"}
Fails == \E how \in Failures : Fail(how)

LEMMA FailuresFail == Refuse \/ Fail("crash") \/ Fail("fatal") => Fails
BY DEF Refuse, Fails, Failures

-----------------------------------------------------------------------------
(* Type correctness.                                                         *)

(* An attribute that fits keeps req_len inside the buffer.                   *)
LEMMA PutRawAttrType ==
  ASSUME RequestTypeOK, NEW type \in Nat, NEW sub \in Nat \X Nat,
         NEW vlen \in Nat, NEW key \in Keys, Fits(vlen),
         PutRawAttr(type, sub, vlen, key)
  PROVE  attrs' \in Seq(Attrs) /\ req_len' \in 0..MSGSIZE
<1>1. [type |-> type % 256, sub |-> sub, off |-> req_len + 2, len |-> vlen,
       key |-> key] \in Attrs
  BY RequestAssumption DEF RequestTypeOK, Attrs
<1> QED BY <1>1, RequestAssumption DEF RequestTypeOK, PutRawAttr, Fits

(* Every call keeps the types.                                               *)
LEMMA BuildType ==
  ASSUME RequestTypeOK, NEW secret \in Secrets \cup {NoSecret}, Build(secret)
  PROVE  RequestTypeOK'
<1> USE RequestAssumption
<1>1. ASSUME NEW c \in Codes, CreateRequest(c)
      PROVE  RequestTypeOK'
  <2>1. auth' \in Auths
    BY <1>1 DEF CreateRequest, RequestTypeOK, Auths, Random
  <2>2. attrs' \in Seq(Attrs)
    BY <1>1 DEF CreateRequest
  <2> QED BY <1>1, <2>1, <2>2 DEF CreateRequest, RequestTypeOK, Results, POS_ATTRS
<1>2. ASSUME Fails
      PROVE  RequestTypeOK'
  BY <1>2 DEF Fails, Failures, Fail, RequestTypeOK, Results
<1>3. ASSUME NEW len \in Nat, NEW opts, PutPassword(len, opts)
      PROVE  RequestTypeOK'
  <2>1. PICK padded \in 16..PASSSIZE : padded = PaddedLen(Significant(len))
    BY PaddedLength
  <2>2. CASE PutPasswordRefused(opts) /\ Refuse
    BY <1>2, <2>2, FailuresFail
  <2>3. CASE /\ ~PutPasswordRefused(opts)
             /\ IF Fits(padded)
                  THEN PutRawAttr(RAD_USER_PASSWORD, Plain, padded, NoKey)
                  ELSE UNCHANGED <<attrs, req_len>>
             /\ pass_pos' = req_len' - padded
             /\ pass_len' = Significant(len)
             /\ ret' = "ok"
             /\ UNCHANGED <<request_created, code, ident, auth, chap_pass, nonce>>
    <3>1. attrs' \in Seq(Attrs) /\ req_len' \in 0..MSGSIZE
      <4>1. CASE Fits(padded)
        <5>1. NoKey \in Keys /\ Plain \in Nat \X Nat /\ RAD_USER_PASSWORD \in Nat
          BY DEF NoKey, Keys, Plain, RAD_USER_PASSWORD
        <5>2. padded \in Nat
          BY <2>1
        <5> QED BY <2>3, <4>1, <5>1, <5>2, PutRawAttrType
      <4>2. CASE ~Fits(padded)
        BY <2>3, <4>2 DEF RequestTypeOK
      <4> QED BY <4>1, <4>2
    <3>2. req_len' >= padded
      <4>1. CASE Fits(padded)
        BY <2>1, <2>3, <4>1 DEF PutRawAttr, RequestTypeOK
      <4>2. CASE ~Fits(padded)
        <5>1. req_len + 2 + padded > MSGSIZE
          <6>1. req_len \in Nat /\ MSGSIZE \in Nat /\ 2 + padded <= MaxFullLen
            BY <2>1 DEF RequestTypeOK, MaxFullLen
          <6> QED BY <2>1, <4>2, <6>1 DEF Fits
        <5> QED BY <2>1, <2>3, <4>2, <5>1 DEF RequestTypeOK, POS_ATTRS
      <4> QED BY <4>1, <4>2
    <3>3. pass_pos' \in 0..MSGSIZE
      <4>1. pass_pos' = req_len' - padded
        BY <2>3
      <4>2. req_len' \in Nat /\ req_len' <= MSGSIZE /\ padded \in Nat
        BY <2>1, <3>1
      <4>3. req_len' - padded \in 0..MSGSIZE
        BY <3>2, <4>2, Difference
      <4> QED BY <4>1, <4>3
    <3>4. pass_len' \in 0..PASSSIZE
      BY <2>3, PaddedLength
    <3> QED BY <2>3, <3>1, <3>3, <3>4 DEF RequestTypeOK, Results
  <2> QED BY <1>3, <2>1, <2>2, <2>3 DEF PutPassword
<1>4. ASSUME NEW type \in Nat, NEW len \in Nat, NEW opts,
             PutOther(type, len, opts, secret)
      PROVE  RequestTypeOK'
  <2>1. CASE Fails
    BY <1>2, <2>1
  <2>2. CASE ~PutOtherRefused(len, opts, secret) /\ ~Fails
    <3>1. Fits(ValueLen(len, opts))
      BY <2>2 DEF PutOtherRefused
    <3>2. PutRawAttr(type, Plain, ValueLen(len, opts), SaltKey(len, opts, secret))
      BY <1>4, <2>2, FailuresFail DEF PutOther
    <3>3. SaltKey(len, opts, secret) \in Keys /\ Plain \in Nat \X Nat
      BY SaltKeyType DEF RequestTypeOK, Plain
    <3>4. attrs' \in Seq(Attrs) /\ req_len' \in 0..MSGSIZE
      BY <3>1, <3>2, <3>3, ValueLength, PutRawAttrType
    <3>5. chap_pass' \in BOOLEAN
      BY <1>4, <2>2, FailuresFail DEF PutOther, RequestTypeOK
    <3> QED BY <1>4, <2>2, <3>4, <3>5, FailuresFail DEF PutOther, RequestTypeOK, Results
  <2> QED BY <1>4, <2>1, <2>2, FailuresFail DEF PutOther
<1>5. ASSUME NEW vt \in Nat \X Nat, NEW len \in Nat, NEW opts,
             PutVendorAttr(vt, len, opts, secret)
      PROVE  RequestTypeOK'
  <2>1. CASE Fails
    BY <1>2, <2>1
  <2>2. CASE ~PutVendorRefused(len, opts, secret) /\ ~Fails
    <3>1. Fits(ValueLen(len, opts) + 6)
      BY <2>2 DEF PutVendorRefused
    <3>2. PutRawAttr(RAD_VENDOR_SPECIFIC, <<vt[1], vt[2] % 256>>,
                     ValueLen(len, opts) + 6, SaltKey(len, opts, secret))
      BY <1>5, <2>2, FailuresFail DEF PutVendorAttr
    <3>3. /\ SaltKey(len, opts, secret) \in Keys /\ RAD_VENDOR_SPECIFIC \in Nat
          /\ <<vt[1], vt[2] % 256>> \in Nat \X Nat
      BY <1>5, SaltKeyType DEF RequestTypeOK, RAD_VENDOR_SPECIFIC
    <3>4. ValueLen(len, opts) + 6 \in Nat
      BY ValueLength
    <3>5. attrs' \in Seq(Attrs) /\ req_len' \in 0..MSGSIZE
      BY <3>1, <3>2, <3>3, <3>4, PutRawAttrType
    <3>6. chap_pass' \in BOOLEAN
      BY <1>5, <2>2, FailuresFail DEF PutVendorAttr, RequestTypeOK, SetsChapPass
    <3> QED BY ZenonT(30), <1>5, <2>2, <3>5, <3>6, FailuresFail
            DEF PutVendorAttr, RequestTypeOK, Results
  <2> QED BY <1>5, <2>1, <2>2, FailuresFail DEF PutVendorAttr
<1>6. \A v \in Values : v[1] \in Nat /\ v[2] \in Nat
  OBVIOUS
<1>7. \A v \in VendorValues : <<v[1], v[2]>> \in Nat \X Nat /\ v[3] \in Nat
  OBVIOUS
<1>8. CASE \E c \in Codes : CreateRequest(c)
  BY <1>1, <1>8
<1>9. CASE \E v \in Values, opts \in OptionSets : PutAttr(v[1], v[2], opts, secret)
  BY <1>3, <1>4, <1>6, <1>9 DEF PutAttr
<1>10. CASE \E v \in VendorValues, opts \in OptionSets :
              PutVendorAttr(<<v[1], v[2]>>, v[3], opts, secret)
  BY <1>5, <1>7, <1>10
<1>11. CASE BadTag \/ BadAddress
  BY <1>2, <1>11, FailuresFail DEF BadTag, BadAddress
<1> QED BY <1>8, <1>9, <1>10, <1>11 DEF Build

(* The types hold initially.                                                 *)
LEMMA InitType == Init => RequestTypeOK
<1> SUFFICES ASSUME Init
             PROVE  RequestTypeOK
  OBVIOUS
<1>1. auth \in Auths
  BY DEF Init, Auths, Random
<1>2. attrs \in Seq(Attrs)
  BY DEF Init
<1>3. 0 \in 0..MSGSIZE /\ 0 \in 0..PASSSIZE
  BY RequestAssumption
<1>4. req_len \in 0..MSGSIZE /\ pass_len \in 0..PASSSIZE /\ pass_pos \in 0..MSGSIZE
  BY <1>3 DEF Init
<1>5. request_created \in BOOLEAN /\ chap_pass \in BOOLEAN
  BY DEF Init
<1>6. code \in 0..255 /\ nonce \in Nat /\ ident \in 0..(IDENTS - 1)
  BY DEF Init
<1>7. ret \in Results
  BY DEF Init, Results
<1> QED BY <1>1, <1>2, <1>4, <1>5, <1>6, <1>7 DEF RequestTypeOK

(* The fields of a request being built keep their types, for every menu of   *)
(* codes, attributes, lengths and options and every size of the buffer: in   *)
(* particular the message never outgrows the buffer.                         *)
THEOREM RequestTypeCorrect == Spec => []RequestTypeOK
<1>1. Init => RequestTypeOK
  BY InitType
<1>2. RequestTypeOK /\ [Next]_requestVars => RequestTypeOK'
  <2>1. ASSUME RequestTypeOK, Next
        PROVE  RequestTypeOK'
    BY <2>1, BuildType DEF Next, Ended, requestVars, RequestTypeOK
  <2>2. ASSUME RequestTypeOK, UNCHANGED requestVars
        PROVE  RequestTypeOK'
    BY <2>2 DEF RequestTypeOK, requestVars
  <2> QED BY <2>1, <2>2
<1> QED BY <1>1, <1>2, PTL DEF Spec

-----------------------------------------------------------------------------
(* The layout of a request.                                                  *)

(* The types an application puts are bytes.  The library does not check it,  *)
(* and cuts them: a type of 258 is a User-Password to the server, but not to *)
(* rad_put_attr.                                                             *)
TypesAreBytes ==
  /\ \A v \in Values : v[1] \in 0..255
  /\ \A v \in VendorValues : v[2] \in 0..255

(* What the tiling and the slot of the password need to be inductive.        *)
LayoutInv ==
  /\ AttributesTile
  /\ ScrambleInsideMessage
  /\ \A i \in 1..Len(attrs) : attrs[i].off >= POS_ATTRS + 2
  /\ request_created => req_len >= POS_ATTRS
  /\ ~request_created =>
       attrs = << >> /\ pass_pos = 0 /\ ~chap_pass /\ code = 0

(* The passwords of both kinds are known.                                    *)
CredentialsInv == EveryPlaceholderIsFilled /\ ChapIsRecorded

(* What the calls that put something amount to: a value ...                  *)
ValuePut(type, sub, vlen, key) ==
  /\ request_created
  /\ Fits(vlen)
  /\ PutRawAttr(type, sub, vlen, key)
  /\ chap_pass => chap_pass'
  /\ TypesAreBytes =>
       /\ type % 256 # RAD_USER_PASSWORD
       /\ type % 256 = RAD_CHAP_PASSWORD \/ sub \in MsChapResponses => chap_pass'
  /\ ret' = "ok"
  /\ UNCHANGED <<request_created, code, ident, auth, pass_len, pass_pos, nonce>>

(* ... or the first User-Password, of this many bytes when padded.           *)
PasswordPut(padded) ==
  /\ request_created /\ pass_pos = 0
  /\ IF Fits(padded) THEN PutRawAttr(RAD_USER_PASSWORD, Plain, padded, NoKey)
     ELSE UNCHANGED <<attrs, req_len>>
  /\ pass_pos' = req_len' - padded
  /\ padded = PaddedLen(pass_len')
  /\ ret' = "ok"
  /\ UNCHANGED <<request_created, code, ident, auth, chap_pass, nonce>>

(* Every call creates a request, puts nothing, puts a value or puts the      *)
(* first User-Password.                                                      *)
LEMMA BuildCases ==
  ASSUME RequestTypeOK, NEW secret \in Secrets \cup {NoSecret}, Build(secret)
  PROVE  \/ \E c \in Codes : CreateRequest(c)
         \/ Fails
         \/ \E type \in Nat, sub \in Nat \X Nat, vlen \in Nat, key \in Keys :
              ValuePut(type, sub, vlen, key)
         \/ \E padded \in 16..PASSSIZE : PasswordPut(padded)
<1> USE RequestAssumption
<1>1. CASE \E c \in Codes : CreateRequest(c)
  BY <1>1
<1>2. CASE BadTag \/ BadAddress
  BY <1>2, FailuresFail DEF BadTag, BadAddress
<1>3. ASSUME NEW v \in Values, NEW opts \in OptionSets, PutPassword(v[2], opts), ~Fails
      PROVE  \E padded \in 16..PASSSIZE : PasswordPut(padded)
  <2>1. v[2] \in Nat
    OBVIOUS
  <2>2. PaddedLen(Significant(v[2])) \in 16..PASSSIZE
    BY <2>1, PaddedLength
  <2>3. PasswordPut(PaddedLen(Significant(v[2])))
    BY <1>3, FailuresFail DEF PutPassword, PutPasswordRefused, PasswordPut
  <2> QED BY <2>2, <2>3
<1>4. ASSUME NEW v \in Values, NEW opts \in OptionSets, ~Fails,
             v[1] # RAD_USER_PASSWORD, PutOther(v[1], v[2], opts, secret)
      PROVE  \E type \in Nat, sub \in Nat \X Nat, vlen \in Nat, key \in Keys :
               ValuePut(type, sub, vlen, key)
  <2>1. v[1] \in Nat /\ v[2] \in Nat /\ Plain \in Nat \X Nat
    BY DEF Plain
  <2>2. ValueLen(v[2], opts) \in Nat /\ SaltKey(v[2], opts, secret) \in Keys
    BY <2>1, ValueLength, SaltKeyType DEF RequestTypeOK
  <2>3. Plain \notin MsChapResponses
    BY DEF Plain, MsChapResponses
  <2>4. TypesAreBytes => v[1] % 256 = v[1]
    BY <2>1 DEF TypesAreBytes
  <2>5. chap_pass' = (chap_pass \/ v[1] = RAD_CHAP_PASSWORD)
    BY <1>4, FailuresFail DEF PutOther
  <2>6. ValuePut(v[1], Plain, ValueLen(v[2], opts), SaltKey(v[2], opts, secret))
    BY <1>4, <2>3, <2>4, <2>5, FailuresFail DEF PutOther, PutOtherRefused, ValuePut
  <2> QED BY <2>1, <2>2, <2>6
<1>5. ASSUME NEW v \in VendorValues, NEW opts \in OptionSets, ~Fails,
             PutVendorAttr(<<v[1], v[2]>>, v[3], opts, secret)
      PROVE  \E type \in Nat, sub \in Nat \X Nat, vlen \in Nat, key \in Keys :
               ValuePut(type, sub, vlen, key)
  <2>1. v[1] \in Nat /\ v[2] \in Nat /\ v[3] \in Nat
    OBVIOUS
  <2>2. /\ <<v[1], v[2] % 256>> \in Nat \X Nat /\ RAD_VENDOR_SPECIFIC \in Nat
        /\ ValueLen(v[3], opts) + 6 \in Nat /\ SaltKey(v[3], opts, secret) \in Keys
    BY <2>1, ValueLength, SaltKeyType DEF RequestTypeOK, RAD_VENDOR_SPECIFIC
  <2>3. TypesAreBytes => <<v[1], v[2] % 256>> = <<v[1], v[2]>>
    BY <2>1 DEF TypesAreBytes
  <2>4. chap_pass' = (chap_pass \/ <<v[1], v[2]>> \in MsChapResponses)
    BY <1>5, FailuresFail DEF PutVendorAttr, SetsChapPass
  <2>5. RAD_VENDOR_SPECIFIC % 256 \notin {RAD_USER_PASSWORD, RAD_CHAP_PASSWORD}
    BY DEF RAD_VENDOR_SPECIFIC, RAD_USER_PASSWORD, RAD_CHAP_PASSWORD
  <2>6. ValuePut(RAD_VENDOR_SPECIFIC, <<v[1], v[2] % 256>>, ValueLen(v[3], opts) + 6,
                 SaltKey(v[3], opts, secret))
    BY <1>5, <2>3, <2>4, <2>5, FailuresFail DEF PutVendorAttr, PutVendorRefused, ValuePut
  <2> QED BY <2>2, <2>6
<1> QED BY <1>1, <1>2, <1>3, <1>4, <1>5 DEF Build, PutAttr

(* A call succeeds or fails.                                                 *)
LEMMA BuildResult ==
  ASSUME NEW secret, Build(secret)
  PROVE  ret' \in {"ok"} \cup Failures
BY DEF Build, CreateRequest, PutAttr, PutPassword, PutOther, PutVendorAttr, BadTag,
       BadAddress, Refuse, Fail, Failures

(* An attribute is appended behind the others.                               *)
LEMMA PutRawAttrAppends ==
  ASSUME RequestTypeOK, NEW type \in Nat, NEW sub, NEW vlen \in Nat, NEW key,
         PutRawAttr(type, sub, vlen, key)
  PROVE  /\ Len(attrs') = Len(attrs) + 1 /\ Len(attrs) \in Nat
         /\ \A i \in 1..Len(attrs) : attrs'[i] = attrs[i]
         /\ attrs'[Len(attrs) + 1].off = req_len + 2
         /\ attrs'[Len(attrs) + 1].len = vlen
         /\ attrs'[Len(attrs) + 1].type = type % 256
         /\ attrs'[Len(attrs) + 1].sub = sub
         /\ req_len' = req_len + 2 + vlen /\ req_len \in Nat
<1> DEFINE a == [type |-> type % 256, sub |-> sub, off |-> req_len + 2,
                 len |-> vlen, key |-> key]
<1>1. attrs \in Seq(Attrs) /\ req_len \in Nat
  BY DEF RequestTypeOK
<1>2. attrs' = Append(attrs, a) /\ req_len' = req_len + 2 + vlen
  BY DEF PutRawAttr
<1>3. /\ a.off = req_len + 2 /\ a.len = vlen /\ a.type = type % 256 /\ a.sub = sub
  OBVIOUS
<1> HIDE DEF a
<1>4. /\ Len(attrs') = Len(attrs) + 1 /\ Len(attrs) \in Nat
      /\ \A i \in 1..Len(attrs) : attrs'[i] = attrs[i]
      /\ attrs'[Len(attrs) + 1] = a
  BY <1>1, <1>2
<1> QED BY <1>1, <1>2, <1>3, <1>4

-----------------------------------------------------------------------------
(* The layout is kept.                                                       *)

(* An attribute that fits is put where the last one ends.                    *)
LEMMA AppendKeepsLayout ==
  ASSUME RequestTypeOK, LayoutInv, NEW type \in Nat, NEW sub, NEW vlen \in Nat, NEW key,
         request_created, request_created' = request_created, Fits(vlen),
         PutRawAttr(type, sub, vlen, key)
  PROVE  /\ AttributesTile'
         /\ \A i \in 1..Len(attrs') : attrs'[i].off >= POS_ATTRS + 2
         /\ req_len' >= POS_ATTRS
<1> DEFINE n == Len(attrs)
<1>1. /\ Len(attrs') = n + 1 /\ n \in Nat
      /\ \A i \in 1..n : attrs'[i] = attrs[i]
      /\ attrs'[n + 1].off = req_len + 2 /\ attrs'[n + 1].len = vlen
      /\ req_len' = req_len + 2 + vlen /\ req_len \in Nat
  BY PutRawAttrAppends
<1>2. /\ \A i \in 1..n : /\ attrs[i].off = 2 + (IF i = 1 THEN POS_ATTRS ELSE EndOf(attrs[i - 1]))
                         /\ 2 + attrs[i].len <= MaxFullLen
                         /\ attrs[i].off >= POS_ATTRS + 2
      /\ req_len = IF attrs = << >> THEN POS_ATTRS ELSE EndOf(attrs[n])
      /\ req_len >= POS_ATTRS
  BY DEF LayoutInv, AttributesTile
<1>3. attrs = << >> <=> n = 0
  BY DEF RequestTypeOK
<1>4. attrs' # << >>
  BY <1>1
<1> HIDE DEF n
<1>5. ASSUME NEW i \in 1..(n + 1)
      PROVE  /\ attrs'[i].off = 2 + (IF i = 1 THEN POS_ATTRS ELSE EndOf(attrs'[i - 1]))
             /\ 2 + attrs'[i].len <= MaxFullLen
             /\ attrs'[i].off >= POS_ATTRS + 2
  <2>1. CASE i = n + 1
    <3>1. i # 1 => i - 1 \in 1..n /\ attrs'[i - 1] = attrs[n]
      BY <1>1, <2>1
    <3>2. req_len = IF i = 1 THEN POS_ATTRS ELSE EndOf(attrs'[i - 1])
      BY <1>1, <1>2, <1>3, <2>1, <3>1
    <3>3. 2 + vlen <= MaxFullLen
      BY DEF Fits
    <3> QED BY <1>1, <1>2, <2>1, <3>2, <3>3 DEF POS_ATTRS
  <2>2. CASE i # n + 1
    <3>1. i \in 1..n /\ (i # 1 => i - 1 \in 1..n)
      BY <1>1, <2>2
    <3>2. attrs'[i] = attrs[i] /\ (i # 1 => attrs'[i - 1] = attrs[i - 1])
      BY <1>1, <3>1
    <3> QED BY <1>2, <3>1, <3>2
  <2> QED BY <2>1, <2>2
<1>6. req_len' = EndOf(attrs'[Len(attrs')])
  BY <1>1 DEF EndOf
<1>7. req_len' >= POS_ATTRS
  BY <1>1, <1>2 DEF POS_ATTRS
<1> QED BY <1>1, <1>4, <1>5, <1>6, <1>7 DEF AttributesTile, EndOf

(* A new request has no attributes.                                          *)
LEMMA CreateKeepsLayout ==
  ASSUME NEW c \in Codes, CreateRequest(c)
  PROVE  LayoutInv'
<1>1. attrs' = << >> /\ req_len' = POS_ATTRS /\ pass_pos' = 0 /\ request_created'
  BY DEF CreateRequest
<1>2. Len(attrs') = 0
  BY <1>1
<1> QED BY <1>1, <1>2 DEF LayoutInv, AttributesTile, ScrambleInsideMessage, POS_ATTRS

(* Calls that touch neither attributes nor passwords.                        *)
LEMMA UnchangedLayout ==
  ASSUME LayoutInv,
         UNCHANGED <<request_created, code, attrs, req_len, pass_len, pass_pos, chap_pass>>
  PROVE  LayoutInv'
BY DEF LayoutInv, AttributesTile, ScrambleInsideMessage

(* The slot of the password is inside the message even when its placeholder  *)
(* did not fit: then it covers the last bytes of what is there.              *)
LEMMA PasswordKeepsLayout ==
  ASSUME RequestTypeOK, LayoutInv, NEW padded \in 16..PASSSIZE, PasswordPut(padded)
  PROVE  LayoutInv'
<1>1. /\ request_created /\ request_created' = request_created
      /\ pass_pos' = req_len' - padded /\ padded = PaddedLen(pass_len')
  BY DEF PasswordPut
<1>2. padded \in Nat /\ padded <= PASSSIZE /\ PASSSIZE \in Nat /\ MSGSIZE \in Nat
  BY RequestAssumption
<1>3. /\ AttributesTile'
      /\ \A i \in 1..Len(attrs') : attrs'[i].off >= POS_ATTRS + 2
      /\ req_len' \in Nat /\ req_len' - padded >= POS_ATTRS
  <2>1. CASE Fits(padded)
    <3>1. PutRawAttr(RAD_USER_PASSWORD, Plain, padded, NoKey)
      BY <2>1 DEF PasswordPut
    <3>2. req_len \in Nat /\ req_len >= POS_ATTRS /\ req_len' = req_len + 2 + padded
      BY <1>1, <3>1 DEF PutRawAttr, RequestTypeOK, LayoutInv
    <3>3. req_len' \in Nat /\ req_len' - padded >= POS_ATTRS
      BY <1>2, <3>2 DEF POS_ATTRS
    <3> QED BY <1>1, <1>2, <2>1, <3>1, <3>3, AppendKeepsLayout DEF RAD_USER_PASSWORD
  <2>2. CASE ~Fits(padded)
    <3>1. attrs' = attrs /\ req_len' = req_len /\ req_len \in Nat
      BY <2>2 DEF PasswordPut, RequestTypeOK
    <3>2. req_len + 2 + padded > MSGSIZE
      <4>1. 2 + padded <= MaxFullLen
        BY <1>2, RequestAssumption DEF MaxFullLen
      <4> QED BY <1>2, <2>2, <3>1, <4>1 DEF Fits
    <3>3. req_len - padded >= POS_ATTRS
      <4>1. MSGSIZE >= POS_ATTRS + 2 + 2 * PASSSIZE
        BY RequestAssumption
      <4> QED BY <1>2, <3>1, <3>2, <4>1 DEF POS_ATTRS
    <3> QED BY <1>1, <3>1, <3>3 DEF LayoutInv, AttributesTile
  <2> QED BY <2>1, <2>2
<1>4. pass_pos' >= POS_ATTRS /\ pass_pos' + PaddedLen(pass_len') <= req_len'
  BY <1>1, <1>2, <1>3
<1>5. req_len' >= POS_ATTRS
  BY <1>2, <1>3 DEF POS_ATTRS
<1> QED BY <1>1, <1>3, <1>4, <1>5 DEF LayoutInv, ScrambleInsideMessage

(* A value put behind the password leaves its slot where it is.              *)
LEMMA ValueKeepsLayout ==
  ASSUME RequestTypeOK, LayoutInv, NEW type \in Nat, NEW sub \in Nat \X Nat,
         NEW vlen \in Nat, NEW key \in Keys, ValuePut(type, sub, vlen, key)
  PROVE  LayoutInv'
<1>1. /\ request_created /\ request_created' = request_created
      /\ Fits(vlen) /\ PutRawAttr(type, sub, vlen, key)
      /\ pass_pos' = pass_pos /\ pass_len' = pass_len
  BY DEF ValuePut
<1>2. /\ AttributesTile' /\ \A i \in 1..Len(attrs') : attrs'[i].off >= POS_ATTRS + 2
      /\ req_len' >= POS_ATTRS
  BY <1>1, AppendKeepsLayout
<1>3. req_len' = req_len + 2 + vlen /\ req_len \in Nat /\ pass_pos \in Nat
  BY <1>1 DEF PutRawAttr, RequestTypeOK
<1>4. ScrambleInsideMessage'
  <2>1. ASSUME pass_pos # 0
        PROVE  pass_pos >= POS_ATTRS /\ pass_pos + PaddedLen(pass_len) <= req_len'
    <3>1. pass_pos >= POS_ATTRS /\ pass_pos + PaddedLen(pass_len) <= req_len
      BY <2>1 DEF LayoutInv, ScrambleInsideMessage
    <3>2. PaddedLen(pass_len) \in Nat
      BY DEF PaddedLen, RoundUp16, RequestTypeOK
    <3> QED BY <1>3, <3>1, <3>2
  <2> QED BY <1>1, <2>1 DEF ScrambleInsideMessage
<1> QED BY <1>1, <1>2, <1>4 DEF LayoutInv

(* The layout is inductive: one case for each kind of call.                  *)
LEMMA BuildLayout ==
  ASSUME RequestTypeOK, LayoutInv, NEW secret \in Secrets \cup {NoSecret}, Build(secret)
  PROVE  LayoutInv'
<1>1. CASE Fails
  BY <1>1, UnchangedLayout DEF Fails, Fail
<1> QED BY <1>1, BuildCases, CreateKeepsLayout, ValueKeepsLayout, PasswordKeepsLayout

(* Initially there is no request.                                            *)
LEMMA InitLayout == Init => LayoutInv
<1> SUFFICES ASSUME Init
             PROVE  LayoutInv
  OBVIOUS
<1>1. ~request_created /\ attrs = << >> /\ pass_pos = 0 /\ ~chap_pass /\ code = 0
  BY DEF Init
<1>2. Len(attrs) = 0
  BY <1>1
<1> QED BY <1>1, <1>2 DEF LayoutInv, AttributesTile, ScrambleInsideMessage

(* The layout holds in every reachable state.                                *)
LEMMA LayoutInvariant == Spec => []LayoutInv
<1>1. Init => LayoutInv
  BY InitLayout
<1>2. RequestTypeOK /\ LayoutInv /\ [Next]_requestVars => LayoutInv'
  <2>1. RequestTypeOK /\ LayoutInv /\ Next => LayoutInv'
    BY BuildLayout, UnchangedLayout DEF Next, Ended, requestVars
  <2>2. LayoutInv /\ UNCHANGED requestVars => LayoutInv'
    BY UnchangedLayout DEF requestVars
  <2> QED BY <2>1, <2>2
<1> QED BY <1>1, <1>2, RequestTypeCorrect, PTL DEF Spec

(* put_raw_attr lays the attributes end to end from POS_ATTRS to req_len,    *)
(* and none is longer than its length byte can say, for every attribute an   *)
(* application can put and every size of the buffer.                         *)
THEOREM AttributesAlwaysTile == Spec => []AttributesTile
<1>1. LayoutInv => AttributesTile
  BY DEF LayoutInv
<1> QED BY <1>1, LayoutInvariant, PTL

(* The bytes insert_scrambled_password writes are behind the header and      *)
(* inside the message, also when put_password_attr found no room for its     *)
(* placeholder.                                                              *)
THEOREM ScrambleStaysInside == Spec => []ScrambleInsideMessage
<1>1. LayoutInv => ScrambleInsideMessage
  BY DEF LayoutInv
<1> QED BY <1>1, LayoutInvariant, PTL

-----------------------------------------------------------------------------
(* The passwords are known.                                                  *)

(* Calls that touch neither attributes nor passwords.                        *)
LEMMA UnchangedCredentials ==
  ASSUME CredentialsInv, UNCHANGED <<attrs, pass_len, pass_pos, chap_pass>>
  PROVE  CredentialsInv'
BY DEF CredentialsInv, EveryPlaceholderIsFilled, ChapIsRecorded, IsChap

(* A value put is no User-Password, and CHAP credentials are recorded with   *)
(* it.                                                                       *)
LEMMA ValueKeepsCredentials ==
  ASSUME TypesAreBytes, RequestTypeOK, CredentialsInv, NEW type \in Nat,
         NEW sub \in Nat \X Nat, NEW vlen \in Nat, NEW key \in Keys,
         ValuePut(type, sub, vlen, key)
  PROVE  CredentialsInv'
<1>1. PutRawAttr(type, sub, vlen, key)
  BY DEF ValuePut
<1>2. /\ Len(attrs') = Len(attrs) + 1 /\ Len(attrs) \in Nat
      /\ \A i \in 1..Len(attrs) : attrs'[i] = attrs[i]
      /\ attrs'[Len(attrs) + 1].type = type % 256 /\ attrs'[Len(attrs) + 1].sub = sub
  BY <1>1, PutRawAttrAppends
<1>3. \A i \in 1..Len(attrs') :
        \/ i \in 1..Len(attrs) /\ attrs'[i] = attrs[i]
        \/ i = Len(attrs) + 1 /\ attrs'[i].type = type % 256 /\ attrs'[i].sub = sub
  BY <1>2
<1>4. /\ type % 256 # RAD_USER_PASSWORD
      /\ type % 256 = RAD_CHAP_PASSWORD \/ sub \in MsChapResponses => chap_pass'
      /\ chap_pass => chap_pass'
      /\ pass_len' = pass_len /\ pass_pos' = pass_pos
  BY DEF ValuePut
<1>5. EveryPlaceholderIsFilled'
  BY <1>3, <1>4 DEF CredentialsInv, EveryPlaceholderIsFilled
<1>6. ChapIsRecorded'
  BY <1>3, <1>4 DEF CredentialsInv, ChapIsRecorded, IsChap
<1> QED BY <1>5, <1>6 DEF CredentialsInv

(* A User-Password put is the one pass_pos points at, or there is none in    *)
(* the message.                                                              *)
LEMMA PasswordKeepsCredentials ==
  ASSUME RequestTypeOK, LayoutInv, CredentialsInv, NEW padded \in 16..PASSSIZE,
         PasswordPut(padded)
  PROVE  CredentialsInv'
<1>1. pass_pos = 0 /\ chap_pass' = chap_pass
  BY DEF PasswordPut
<1>2. \A i \in 1..Len(attrs) : attrs[i].type # RAD_USER_PASSWORD
  BY <1>1 DEF LayoutInv, CredentialsInv, EveryPlaceholderIsFilled, POS_ATTRS
<1>3. CASE ~Fits(padded)
  <2>1. attrs' = attrs
    BY <1>3 DEF PasswordPut
  <2> QED BY <1>1, <1>2, <2>1
          DEF CredentialsInv, EveryPlaceholderIsFilled, ChapIsRecorded, IsChap
<1>4. CASE Fits(padded)
  <2>1. PutRawAttr(RAD_USER_PASSWORD, Plain, padded, NoKey) /\ padded \in Nat
    BY <1>4 DEF PasswordPut
  <2>2. /\ Len(attrs') = Len(attrs) + 1 /\ Len(attrs) \in Nat
        /\ \A i \in 1..Len(attrs) : attrs'[i] = attrs[i]
        /\ attrs'[Len(attrs) + 1].off = req_len + 2
        /\ attrs'[Len(attrs) + 1].len = padded
        /\ attrs'[Len(attrs) + 1].type = RAD_USER_PASSWORD % 256
        /\ attrs'[Len(attrs) + 1].sub = Plain
        /\ req_len' = req_len + 2 + padded /\ req_len \in Nat
    BY <2>1, PutRawAttrAppends DEF RAD_USER_PASSWORD
  <2>3. pass_pos' = req_len' - padded /\ padded = PaddedLen(pass_len')
    BY DEF PasswordPut
  <2>4. pass_pos' = req_len + 2
    BY <2>1, <2>2, <2>3
  <2>5. \A i \in 1..Len(attrs') :
          \/ i \in 1..Len(attrs) /\ attrs'[i] = attrs[i]
          \/ /\ i = Len(attrs) + 1
             /\ attrs'[i].off = pass_pos' /\ attrs'[i].len = padded /\ ~IsChap(attrs'[i])
    <3>1. ~IsChap(attrs'[Len(attrs) + 1])
      <4>1. RAD_USER_PASSWORD % 256 # RAD_CHAP_PASSWORD /\ Plain \notin MsChapResponses
        BY DEF RAD_USER_PASSWORD, RAD_CHAP_PASSWORD, Plain, MsChapResponses
      <4> QED BY <2>2, <4>1 DEF IsChap
    <3> QED BY <2>2, <2>4, <3>1
  <2>6. EveryPlaceholderIsFilled'
    BY <1>2, <2>3, <2>5 DEF EveryPlaceholderIsFilled
  <2>7. ChapIsRecorded'
    BY <1>1, <2>5 DEF CredentialsInv, ChapIsRecorded, IsChap
  <2> QED BY <2>6, <2>7 DEF CredentialsInv
<1> QED BY <1>3, <1>4

(* Credentials are inductive: one case for each kind of call.                *)
LEMMA BuildCredentials ==
  ASSUME TypesAreBytes, RequestTypeOK, LayoutInv, CredentialsInv,
         NEW secret \in Secrets \cup {NoSecret}, Build(secret)
  PROVE  CredentialsInv'
<1>1. CASE \E c \in Codes : CreateRequest(c)
  <2>1. Len(attrs') = 0
    BY <1>1 DEF CreateRequest
  <2> QED BY <2>1 DEF CredentialsInv, EveryPlaceholderIsFilled, ChapIsRecorded
<1>2. CASE Fails
  BY <1>2, UnchangedCredentials DEF Fails, Fail
<1> QED BY <1>1, <1>2, BuildCases, ValueKeepsCredentials, PasswordKeepsCredentials

(* Initially there are none.                                                 *)
LEMMA InitCredentials == Init => CredentialsInv
<1>1. Init => Len(attrs) = 0
  BY DEF Init
<1> QED BY <1>1 DEF CredentialsInv, EveryPlaceholderIsFilled, ChapIsRecorded

(* Credentials are known in every reachable state, if types are bytes.       *)
LEMMA CredentialsInvariant ==
  ASSUME TypesAreBytes
  PROVE  Spec => []CredentialsInv
<1>1. Init => CredentialsInv
  BY InitCredentials
<1>2. RequestTypeOK /\ LayoutInv /\ CredentialsInv /\ [Next]_requestVars => CredentialsInv'
  <2>1. RequestTypeOK /\ LayoutInv /\ CredentialsInv /\ Next => CredentialsInv'
    BY BuildCredentials, UnchangedCredentials DEF Next, Ended, requestVars
  <2>2. CredentialsInv /\ UNCHANGED requestVars => CredentialsInv'
    BY UnchangedCredentials DEF requestVars
  <2> QED BY <2>1, <2>2
<1> QED BY <1>1, <1>2, RequestTypeCorrect, LayoutInvariant, PTL DEF Spec

(* Every User-Password in the message is the one placeholder at pass_pos,    *)
(* which is filled when the request is sent, for every application that puts *)
(* attribute types of one byte.                                              *)
THEOREM PlaceholderIsAlwaysFilled ==
  ASSUME TypesAreBytes
  PROVE  Spec => []EveryPlaceholderIsFilled
<1>1. CredentialsInv => EveryPlaceholderIsFilled
  BY DEF CredentialsInv
<1> QED BY <1>1, CredentialsInvariant, PTL

(* A request with CHAP credentials is known to have them when it is sent,    *)
(* for every application that puts attribute types of one byte.              *)
THEOREM ChapIsAlwaysRecorded ==
  ASSUME TypesAreBytes
  PROVE  Spec => []ChapIsRecorded
<1>1. CredentialsInv => ChapIsRecorded
  BY DEF CredentialsInv
<1> QED BY <1>1, CredentialsInvariant, PTL
=============================================================================
