----------------------------- MODULE RadRequest -----------------------------
(* The request a rad_handle builds: rad_create_request, the rad_put_* calls  *)
(* and the bookkeeping they leave for the sender (radlib.c, struct           *)
(* rad_handle in radlib_private.h).                                          *)
(*                                                                           *)
(* The request buffer is modelled by its layout: code, identifier,           *)
(* authenticator, and one record per attribute with the offset and length of *)
(* its value.  Values themselves are abstract, except for what they were     *)
(* encrypted with.                                                           *)
EXTENDS Integers, Sequences

CONSTANTS
  MSGSIZE,      \* size of the request buffer (4096)
  PASSSIZE,     \* significant bytes of a password (128)
  IDENTS,       \* identifiers before the one-byte counter wraps (256)
  Codes,        \* request codes the application passes
  Values,       \* <<type, length>> of the attributes the application puts
  VendorValues, \* <<vendor, type, length>> of its vendor attributes
  OptionSets,   \* the options of a put call: subsets of {"SALT", "TAG"}
  Secrets,      \* shared secrets
  NoSecret,     \* rad_server_secret returned NULL
  MaxCreates    \* bound: rad_create_request calls in a behaviour

POS_ATTRS == 20
MaxFullLen == 255   \* the length of an attribute is one byte
MaxSaltLen == 250

ASSUME RequestAssumption ==
  /\ MSGSIZE \in Nat /\ PASSSIZE \in Nat /\ IDENTS \in Nat \ {0}
  /\ PASSSIZE >= 16 /\ PASSSIZE % 16 = 0 /\ PASSSIZE + 2 <= MaxFullLen
  /\ MSGSIZE >= POS_ATTRS + 2 + 2 * PASSSIZE
  /\ Codes \subseteq Nat
  /\ Values \subseteq Nat \X Nat
  /\ VendorValues \subseteq Nat \X Nat \X Nat
  /\ OptionSets \subseteq SUBSET {"SALT", "TAG"}
  /\ NoSecret \notin Secrets
  /\ MaxCreates \in Nat

VARIABLES
  request_created,  \* rad_create_request has been called
  code,             \* request[POS_CODE]
  ident,            \* request[POS_IDENT], the low byte of h->ident
  auth,             \* request[POS_AUTH ..]: random, or the digest of a request
  attrs,            \* the attributes in request[POS_ATTRS .. req_len)
  req_len,
  pass_len,
  pass_pos,         \* offset of the scrambled password, 0 for none
  chap_pass,
  nonce,            \* how many authenticators have been drawn
  ret               \* how the last call of the application ended

requestVars ==
  <<request_created, code, ident, auth, attrs, req_len, pass_len, pass_pos,
    chap_pass, nonce, ret>>

-----------------------------------------------------------------------------
(* Attribute types and codes with a meaning of their own.                    *)

RAD_USER_PASSWORD == 2
RAD_CHAP_PASSWORD == 3
RAD_VENDOR_SPECIFIC == 26
MsChapResponses == {<<311, 1>>, <<311, 25>>}  \* MS-CHAP and MS-CHAP2

(* Codes whose authenticator is a digest of the request, computed when it is *)
(* sent; every other code carries the random one and a password.             *)
AuthenticatorAtSend == {4} \cup (40..42) \cup (43..45)

(* An encrypted value is known by what it was encrypted with: the secret, and *)
(* the number of the random authenticator (0 if the buffer held a digest).   *)
NoKey == [secret |-> NoSecret, nonce |-> 0]
Overwritten == 256   \* no type: a scrambled password lies over the attribute
Keys == [secret : Secrets \cup {NoSecret}, nonce : Nat]
Attrs == [type : (0..255) \cup {Overwritten}, sub : Nat \X Nat, off : Nat,
          len : Nat, key : Keys]
Plain == <<0, 0>>  \* "sub" of an attribute that is not vendor specific

Contents == [code : 0..255, ident : 0..(IDENTS - 1), attrs : Seq(Attrs),
             secret : Secrets]
Auths == [random : Nat] \cup [md5 : Contents]
Random(n) == [random |-> n]
IsRandom(a) == "random" \in DOMAIN a

(* "crash": the process dies.  "fatal": an E_ERROR ends the script.          *)
Results == {"none", "ok", "refused", "reply", "no_valid_response", "io_error",
            "crash", "fatal"}
Running == ret \notin {"crash", "fatal"}

-----------------------------------------------------------------------------
(* Lengths.                                                                  *)

RoundUp16(n) == 16 * ((n + 15) \div 16)
PaddedLen(n) == IF n = 0 THEN 16 ELSE RoundUp16(n)
Significant(n) == IF n > PASSSIZE THEN PASSSIZE ELSE n

SaltedLen(n) == IF n = 0 THEN 0 ELSE RoundUp16(n) + 3
ValueLen(len, opts) ==
  (IF "SALT" \in opts THEN SaltedLen(len) ELSE len)
    + (IF "TAG" \in opts THEN 1 ELSE 0)

(* rad_salt_value finds a value too long to encrypt, or no secret.           *)
TooLongToSalt(len, opts) == "SALT" \in opts /\ RoundUp16(len) > MaxSaltLen
SaltFails(len, opts, secret) ==
  \/ TooLongToSalt(len, opts)
  \/ "SALT" \in opts /\ len # 0 /\ secret = NoSecret

KeyWith(secret) ==
  [secret |-> secret, nonce |-> IF IsRandom(auth) THEN auth.random ELSE 0]
SaltKey(len, opts, secret) ==
  IF "SALT" \in opts /\ len # 0 THEN KeyWith(secret) ELSE NoKey

(* Mutant: the two header bytes of the attribute are not counted.            *)
FitsWithoutHeader(vlen) == 2 + vlen <= MaxFullLen /\ req_len + vlen <= MSGSIZE

(* put_raw_attr: room for an attribute whose value has this length.          *)
Fits(vlen) == 2 + vlen <= MaxFullLen /\ req_len + 2 + vlen <= MSGSIZE

-----------------------------------------------------------------------------
(* The calls.                                                                *)

Init ==
  /\ request_created = FALSE
  /\ code = 0
  /\ ident \in 0..(IDENTS - 1)
  /\ auth = Random(0)
  /\ attrs = << >>
  /\ req_len = 0
  /\ pass_len = 0
  /\ pass_pos = 0
  /\ chap_pass = FALSE
  /\ nonce = 0
  /\ ret = "none"

(* Mutant: the old attributes' length is kept.                               *)
CreateKeepsLength(c) ==
  /\ nonce < MaxCreates
  /\ request_created' = TRUE
  /\ code' = c % 256
  /\ ident' = (ident + 1) % IDENTS
  /\ nonce' = nonce + 1
  /\ auth' = Random(nonce')
  /\ attrs' = << >>
  /\ req_len' = IF req_len = 0 THEN POS_ATTRS ELSE req_len
  /\ pass_len' = 0
  /\ pass_pos' = 0
  /\ ret' = "ok"
  /\ UNCHANGED chap_pass

(* Mutant: without clear_password.                                           *)
CreateKeepsPassword(c) ==
  /\ nonce < MaxCreates
  /\ request_created' = TRUE
  /\ code' = c % 256
  /\ ident' = (ident + 1) % IDENTS
  /\ nonce' = nonce + 1
  /\ auth' = Random(nonce')
  /\ attrs' = << >>
  /\ req_len' = POS_ATTRS
  /\ ret' = "ok"
  /\ UNCHANGED <<pass_len, pass_pos, chap_pass>>

(* rad_create_request: a new identifier and authenticator, no attributes and *)
(* no password.  chap_pass is not among the fields it resets.                *)
CreateRequest(c) ==
  /\ nonce < MaxCreates
  /\ request_created' = TRUE
  /\ code' = c % 256
  /\ ident' = (ident + 1) % IDENTS
  /\ nonce' = nonce + 1
  /\ auth' = Random(nonce')
  /\ attrs' = << >>
  /\ req_len' = POS_ATTRS
  /\ pass_len' = 0
  /\ pass_pos' = 0
  /\ ret' = "ok"
  /\ UNCHANGED chap_pass

(* A call that puts nothing.                                                 *)
Fail(how) ==
  /\ ret' = how
  /\ UNCHANGED <<request_created, code, ident, auth, attrs, req_len, pass_len,
                 pass_pos, chap_pass, nonce>>
Refuse == Fail("refused")

(* The caller of rad_salt_value frees its data whatever it returned.  When   *)
(* the value is too long the pointer has not been set yet: the memory        *)
(* manager is given whatever the allocation held, which it may survive.      *)
FreesUnsetPointer(len, opts) == request_created /\ TooLongToSalt(len, opts)

(* put_raw_attr once the value fits.                                         *)
PutRawAttr(type, sub, vlen, key) ==
  /\ attrs' = Append(attrs, [type |-> type % 256, sub |-> sub,
                             off |-> req_len + 2, len |-> vlen, key |-> key])
  /\ req_len' = req_len + 2 + vlen

(* rad_put_attr of anything but a User-Password.                             *)
PutOtherRefused(len, opts, secret) ==
  \/ ~request_created
  \/ SaltFails(len, opts, secret)
  \/ ~Fits(ValueLen(len, opts))

PutOther(type, len, opts, secret) ==
  \/ /\ PutOtherRefused(len, opts, secret)
     /\ Refuse
  \/ /\ FreesUnsetPointer(len, opts)
     /\ Fail("crash")
  \/ /\ ~PutOtherRefused(len, opts, secret)
     /\ PutRawAttr(type, Plain, ValueLen(len, opts), SaltKey(len, opts, secret))
     /\ chap_pass' = (chap_pass \/ type = RAD_CHAP_PASSWORD)
     /\ ret' = "ok"
     /\ UNCHANGED <<request_created, code, ident, auth, pass_len, pass_pos, nonce>>

(* Mutant: a second User-Password is let in.                                 *)
PutPasswordTwice(opts) == ~request_created \/ opts # {}

(* rad_put_attr of a User-Password: put_password_attr.  The placeholder may  *)
(* not fit; the call succeeds all the same and remembers the position where  *)
(* it would have ended.                                                      *)
PutPasswordRefused(opts) == ~request_created \/ opts # {} \/ pass_pos # 0

PutPassword(len, opts) ==
  LET padded == PaddedLen(Significant(len))
  IN  \/ /\ PutPasswordRefused(opts)
         /\ Refuse
      \/ /\ ~PutPasswordRefused(opts)
         /\ IF Fits(padded)
              THEN PutRawAttr(RAD_USER_PASSWORD, Plain, padded, NoKey)
              ELSE UNCHANGED <<attrs, req_len>>
         /\ pass_pos' = req_len' - padded
         /\ pass_len' = Significant(len)
         /\ ret' = "ok"
         /\ UNCHANGED <<request_created, code, ident, auth, chap_pass, nonce>>

PutAttr(type, len, opts, secret) ==
  \/ type = RAD_USER_PASSWORD /\ PutPassword(len, opts)
  \/ type # RAD_USER_PASSWORD /\ PutOther(type, len, opts, secret)

(* Mutant: the check for a created request is missing.                       *)
PutVendorUncreated(len, opts, secret) ==
  \/ SaltFails(len, opts, secret)
  \/ ~Fits(ValueLen(len, opts) + 6)

(* Mutant: MS-CHAP2 responses are forgotten.                                 *)
OnlyMsChap1(vt) == vt = <<311, 1>>

(* rad_put_vendor_attr: salting and tagging happen inside the vendor         *)
(* attribute, six bytes longer than its value.                               *)
PutVendorRefused(len, opts, secret) ==
  \/ ~request_created
  \/ SaltFails(len, opts, secret)
  \/ ~Fits(ValueLen(len, opts) + 6)

SetsChapPass(vt) == vt \in MsChapResponses

PutVendorAttr(vt, len, opts, secret) ==
  \/ /\ PutVendorRefused(len, opts, secret)
     /\ Refuse
  \/ /\ FreesUnsetPointer(len, opts)
     /\ Fail("crash")
  \/ /\ ~PutVendorRefused(len, opts, secret)
     /\ PutRawAttr(RAD_VENDOR_SPECIFIC, <<vt[1], vt[2] % 256>>,
                   ValueLen(len, opts) + 6, SaltKey(len, opts, secret))
     /\ chap_pass' = (chap_pass \/ SetsChapPass(vt))
     /\ ret' = "ok"
     /\ UNCHANGED <<request_created, code, ident, auth, pass_len, pass_pos, nonce>>

(* _init_options: a tag that is no byte is refused before the library is     *)
(* called.                                                                   *)
BadTag ==
  /\ \E opts \in OptionSets : "TAG" \in opts
  /\ Refuse

(* radius_put_addr and radius_put_vendor_addr: text that is no address is a  *)
(* fatal error.                                                              *)
BadAddress == Fail("fatal")

(* Any call that builds the request, for a handle whose current server has   *)
(* this secret.                                                              *)
Build(secret) ==
  /\ Running
  /\ \/ \E c \in Codes : CreateRequest(c)
     \/ \E v \in Values, opts \in OptionSets : PutAttr(v[1], v[2], opts, secret)
     \/ \E v \in VendorValues, opts \in OptionSets :
          PutVendorAttr(<<v[1], v[2]>>, v[3], opts, secret)
     \/ BadTag
     \/ BadAddress

Ended == ~Running /\ UNCHANGED requestVars

Next == Ended \/ \E secret \in Secrets \cup {NoSecret} : Build(secret)

Spec == Init /\ [][Next]_requestVars

-----------------------------------------------------------------------------
(* What the rest of the library relies on.                                   *)

(* Type correctness of the fields of rad_handle a request is built in.       *)
RequestTypeOK ==
  /\ request_created \in BOOLEAN
  /\ code \in 0..255
  /\ ident \in 0..(IDENTS - 1)
  /\ auth \in Auths
  /\ attrs \in Seq(Attrs)
  /\ req_len \in 0..MSGSIZE
  /\ pass_len \in 0..PASSSIZE
  /\ pass_pos \in 0..MSGSIZE
  /\ chap_pass \in BOOLEAN
  /\ nonce \in Nat
  /\ ret \in Results

EndOf(a) == a.off + a.len

(* The attributes tile the message: each one starts where the one before     *)
(* ended, none is longer than its length byte can say, and the last one ends *)
(* at req_len.  This is where they were put: a scrambled password without a  *)
(* placeholder may lie over them once the request has been sent.             *)
AttributesTile ==
  request_created =>
    /\ \A i \in 1..Len(attrs) :
         /\ attrs[i].off = 2 + (IF i = 1 THEN POS_ATTRS ELSE EndOf(attrs[i - 1]))
         /\ 2 + attrs[i].len <= MaxFullLen
    /\ req_len = IF attrs = << >> THEN POS_ATTRS ELSE EndOf(attrs[Len(attrs)])

(* insert_scrambled_password writes the padded password at pass_pos on every *)
(* send: those bytes are inside the message, behind its header.              *)
ScrambleInsideMessage ==
  pass_pos # 0 =>
    /\ request_created
    /\ pass_pos >= POS_ATTRS
    /\ pass_pos + PaddedLen(pass_len) <= req_len

(* Every User-Password in the message is the placeholder at pass_pos: it is  *)
(* filled when the request is sent, there is at most one, and none is left   *)
(* from an earlier request.                                                  *)
EveryPlaceholderIsFilled ==
  \A i \in 1..Len(attrs) :
    attrs[i].type = RAD_USER_PASSWORD =>
      attrs[i].off = pass_pos /\ attrs[i].len = PaddedLen(pass_len)

IsChap(a) == a.type = RAD_CHAP_PASSWORD \/ a.sub \in MsChapResponses

(* A request that carries CHAP credentials is known to: chap_pass is what    *)
(* rad_init_send_request refuses them by in a request that may not have any. *)
ChapIsRecorded ==
  (\E i \in 1..Len(attrs) : IsChap(attrs[i])) => chap_pass

(* The comment in rad_salt_value: a value whose attribute would be too big    *)
(* for RADIUS is not salted, and the call that put it fails.                 *)
RefusalIsSurvived == ret # "crash"
=============================================================================
