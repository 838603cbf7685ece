----------------------------- MODULE RadValues ------------------------------
(* What a script does with the values of attributes: it salts values for a   *)
(* request, and takes apart, demangles and converts those of an answer.      *)
(*                                                                           *)
(* The values are encrypted with the secret of the server contacted last and *)
(* the authenticator in the request buffer, so this module keeps those two   *)
(* of the state of rad_handle.  RadSend shows that an accepted answer comes  *)
(* from that server and answers that authenticator.                          *)
EXTENDS RadVendor

CONSTANTS
  MAXSERVERS,  \* entries in the server table (10)
  Secrets,     \* shared secrets
  NoSecret,    \* rad_server_secret returned NULL
  Letters,     \* what servers put into the attributes of their answers
  Vendors,     \* <<vendor, type>> of the attributes they put it in
  Lengths,     \* lengths of the values the script salts
  Randoms,     \* what php_rand returns
  Behind,      \* the byte behind a value: 0 for strings, anything for numbers
  MaxCreates   \* bound: rad_create_request calls in a behaviour

(* Bytes of what a server writes for a letter.                               *)
WireLen(l) ==
  CASE l.form = "key" -> SALT_LEN + RoundUp(1 + Len(l.text))
    [] l.form = "mangled" -> RoundUp(Len(l.text))
    [] l.form = "tagged" -> 1 + Len(l.text)
    [] l.form = "string" -> Len(l.text)
    [] l.form = "number" -> 4

(* A letter is made of bytes and fits into a vendor attribute, whose length  *)
(* is a byte and counts type and length as well.                             *)
IsLetter(l) ==
  /\ l.form \in {"key", "mangled", "tagged", "string", "number"}
  /\ l.form # "number" => l.text \in Seq(0..(BYTE - 1))
  /\ l.form = "tagged" => l.tag \in 0..(BYTE - 1)
  /\ l.form = "number" => l.number \in Int
  /\ 2 + WireLen(l) < BYTE

ASSUME ValuesAssumption ==
  /\ MAXSERVERS \in Nat /\ MaxCreates \in Nat
  /\ NoSecret \notin Secrets
  /\ Lengths \subseteq Nat /\ Randoms \subseteq Nat
  /\ Behind \subseteq 0..(BYTE - 1)
  /\ Vendors \subseteq Int \X Nat
  /\ \A l \in Letters : IsLetter(l)

VARIABLES
  secrets,  \* secrets[i]: of servers[i]
  srv,      \* the server contacted last, counted from 1
  acct,     \* the request's authenticator is computed when it is sent
  auth,     \* the authenticator in the request buffer
  nonce,    \* requests created
  held,     \* the attribute value the script holds
  stage,    \* what that is: "none", an "attr" of the answer, or the "data" in it
  letter,   \* what the server wrote there, and in which vendor attribute
  fresh,    \* nothing has been created or sent since the answer
  result    \* of the last call

handleVars == <<secrets, srv, acct, auth, nonce>>
scriptVars == <<held, stage, letter, fresh>>
vars == <<handleVars, scriptVars, result>>

NoLetter == [form |-> "none"]
NoResult == [call |-> "none"]
Refused(call) == [call |-> call, ok |-> FALSE, on |-> stage]
Crash(why) == [call |-> "crash", why |-> why]
Running == result.call # "crash"

(* A byte of memory nothing has written.                                     *)
Indeterminate == [byte |-> 0, pads |-> {[md5 |-> [memory |-> TRUE], at |-> 0]}]

(* What a conversion makes of such bytes, or of bytes that are still         *)
(* encrypted: any number or string, kept as one value.                       *)
Unpredictable == [from |-> "indeterminate bytes"]

-----------------------------------------------------------------------------
(* The handle.                                                               *)

(* Mutant: the secret of the server added last.                              *)
SecretOfLast == IF secrets = << >> THEN NoSecret ELSE secrets[Len(secrets)]

(* rad_server_secret                                                         *)
ServerSecret == IF srv > Len(secrets) THEN NoSecret ELSE secrets[srv]

(* Mutant: the check of the table's size is off by one.                      *)
AddServerOffByOne ==
  /\ Running
  /\ Len(secrets) <= MAXSERVERS
  /\ \E secret \in Secrets : secrets' = Append(secrets, secret)
  /\ result' = NoResult
  /\ UNCHANGED <<srv, acct, auth, nonce, scriptVars>>

(* rad_add_server, as far as secrets go.                                     *)
AddServer ==
  /\ Running
  /\ Len(secrets) < MAXSERVERS
  /\ \E secret \in Secrets : secrets' = Append(secrets, secret)
  /\ result' = NoResult
  /\ UNCHANGED <<srv, acct, auth, nonce, scriptVars>>

CreateRequest ==
  /\ Running
  /\ nonce < MaxCreates
  /\ nonce' = nonce + 1
  /\ auth' = [random |-> nonce']
  /\ acct' \in BOOLEAN
  /\ fresh' = FALSE
  /\ result' = NoResult
  /\ UNCHANGED <<secrets, srv, held, stage, letter>>

(* A send ends with the server it has contacted last.  Which one that is     *)
(* depends on the tries, which RadSend keeps; here it is any of the table.   *)
(* (The scan leads nowhere else: SendTypeOK of RadSend has srv in the table  *)
(* whenever a request has been sent.)                                        *)
Contact(s) ==
  /\ nonce > 0
  /\ srv' = s
  /\ auth' = IF acct THEN [md5 |-> nonce, secret |-> secrets[s]] ELSE auth

Padded(text) ==
  text \o [i \in 1..(RoundUp(Len(text)) - Len(text)) |-> Plain(0)]

(* What a server writes: a key as rad_demangle_mppe_key expects it, a        *)
(* mangled text, a tagged one, a string or a number.                         *)
WireValue(l, secret, auth_, random) ==
  CASE l.form = "key" ->
         SaltOf(random) \o
           Encrypt(secret, auth_, SaltOf(random),
                   Padded(Text(<<Len(l.text)>> \o l.text)))
    [] l.form = "mangled" -> Encrypt(secret, auth_, << >>, Padded(Text(l.text)))
    [] l.form = "tagged" -> PutTag(l.tag, Text(l.text))
    [] l.form = "string" -> Text(l.text)
    [] l.form = "number" -> Word(l.number)

SendAnswered ==
  /\ Running
  /\ \E s \in 1..Len(secrets), l \in Letters, v \in Vendors, random \in Randoms :
       /\ Contact(s)
       /\ held' = PutVendor(v[1], v[2], WireValue(l, secrets[s], auth', random))
       /\ letter' = [form |-> l.form, what |-> l, vendor |-> v[1], type |-> v[2],
                     data |-> WireValue(l, secrets[s], auth', random)]
  /\ stage' = "attr"
  /\ fresh' = TRUE
  /\ result' = NoResult
  /\ UNCHANGED <<secrets, acct, nonce>>

SendFails ==
  /\ Running
  /\ \E s \in 1..Len(secrets) : Contact(s)
  /\ fresh' = FALSE
  /\ result' = NoResult
  /\ UNCHANGED <<secrets, acct, nonce, held, stage, letter>>

-----------------------------------------------------------------------------
(* radius_salt_encrypt_attr                                                  *)

(* rad_salt_value returns -1.                                                *)
SaltFails(len) == len # 0 /\ (TooLongToSalt(len) \/ ServerSecret = NoSecret)

Value(len) == [i \in 1..len |-> i % BYTE]

SaltValue ==
  /\ Running
  /\ \E len \in Lengths, random \in Randoms, behind \in Behind :
       \/ /\ SaltFails(len)
          /\ result' = Refused("salt")
       \/ /\ ~SaltFails(len)
          /\ result' =
               [call |-> "salt", ok |-> TRUE, on |-> stage,
                len |-> len, behind |-> behind,
                text |-> IF len = 0 THEN << >>
                         ELSE Salted(ServerSecret, auth, random, Value(len), behind)]
  /\ UNCHANGED <<handleVars, scriptVars>>

-----------------------------------------------------------------------------
(* The calls that open and convert the value the script holds.               *)

Reading == Running /\ stage # "none"

GetVendorAttr ==
  /\ Reading
  /\ UNCHANGED <<handleVars, letter, fresh>>
  /\ \/ /\ VendorTooShort(Len(held))
        /\ result' = Refused("vendor")
        /\ UNCHANGED <<held, stage>>
     \/ /\ ~VendorTooShort(Len(held))
        /\ \E attrib_len \in Reads(held[HEADER]) :
             \/ /\ VendorRefused(Len(held), attrib_len)
                /\ result' = Refused("vendor")
                /\ UNCHANGED <<held, stage>>
             \/ /\ ~VendorRefused(Len(held), attrib_len)
                /\ attrib_len < 2     \* a length of -2 or -1, in a size_t
                /\ result' = Crash("overlong")
                /\ UNCHANGED <<held, stage>>
             \/ /\ ~VendorRefused(Len(held), attrib_len)
                /\ attrib_len >= 2
                /\ result' = [call |-> "vendor", ok |-> TRUE, on |-> stage,
                              vendor |-> SubSeq(held, 1, 4), type |-> held[5],
                              text |-> VendorData(held, attrib_len)]
                /\ IF stage = "attr"
                     THEN held' = VendorData(held, attrib_len) /\ stage' = "data"
                     ELSE UNCHANGED <<held, stage>>

Demangle ==
  /\ Reading
  /\ UNCHANGED <<handleVars, scriptVars>>
  /\ \/ /\ DemangleRefused(Len(held))
        /\ result' = Refused("demangle")
     \/ /\ ~DemangleRefused(Len(held))
        /\ result' =
             IF ServerSecret = NoSecret THEN Crash("no secret")
             ELSE [call |-> "demangle", ok |-> TRUE, on |-> stage,
                   text |-> Decrypt(ServerSecret, auth, << >>, held)]

DemangleMppeKey ==
  LET salt == SubSeq(held, 1, SALT_LEN)
      P == Decrypt(ServerSecret, auth, salt, SubSeq(held, SALT_LEN + 1, Len(held)))
      byte(i) == IF i \in 1..Len(P) THEN P[i] ELSE Indeterminate
  IN  /\ Reading
      /\ UNCHANGED <<handleVars, scriptVars>>
      /\ \/ /\ Len(held) % CHUNK # SALT_LEN
            /\ result' = Refused("key")
         \/ /\ Len(held) % CHUNK = SALT_LEN
            /\ IF ServerSecret = NoSecret
                 THEN result' = Crash("no secret")
                 ELSE \E len \in Reads(byte(1)) :
                        result' =
                          IF KeyRefused(Len(held), len) THEN Refused("key")
                          ELSE [call |-> "key", ok |-> TRUE, on |-> stage,
                                text |-> [i \in 1..len |-> byte(i + 1)]]

(* radius_get_tagged_attr_tag and radius_get_tagged_attr_data                *)
GetTag ==
  /\ Reading
  /\ \/ /\ held = << >>
        /\ result' = Refused("tag")
     \/ /\ held # << >>
        /\ \E byte \in Reads(held[1]) :
             result' = [call |-> "tag", ok |-> TRUE, on |-> stage,
                        number |-> TagOf(byte), text |-> UntaggedOf(held)]
  /\ UNCHANGED <<handleVars, scriptVars>>

(* radius_cvt_int: four bytes, however many there are.  Behind a string of   *)
(* PHP stands a zero, and behind that whatever the memory holds.             *)
FourBytes ==
  [i \in 1..4 |-> IF i <= Len(held) THEN held[i]
                  ELSE IF i = Len(held) + 1 THEN Plain(0) ELSE Indeterminate]

ConvertInt ==
  /\ Reading
  /\ result' = [call |-> "int", ok |-> TRUE, on |-> stage,
                number |-> IF IsPlain(FourBytes) THEN CvtInt(FourBytes)
                           ELSE Unpredictable]
  /\ UNCHANGED <<handleVars, scriptVars>>

(* radius_cvt_string                                                         *)
ConvertString ==
  /\ Reading
  /\ result' = [call |-> "string", ok |-> TRUE, on |-> stage,
                text |-> IF IsPlain(held)
                           THEN CString([i \in 1..Len(held) |-> held[i].byte])
                           ELSE Unpredictable]
  /\ UNCHANGED <<handleVars, scriptVars>>

-----------------------------------------------------------------------------
Init ==
  /\ secrets = << >>
  /\ srv = 1
  /\ acct = FALSE
  /\ auth = [random |-> 0]
  /\ nonce = 0
  /\ held = << >>
  /\ stage = "none"
  /\ letter = NoLetter
  /\ fresh = FALSE
  /\ result = NoResult

Handle == AddServer \/ CreateRequest \/ SendAnswered \/ SendFails
Convert == GetVendorAttr \/ Demangle \/ DemangleMppeKey \/ GetTag
             \/ ConvertInt \/ ConvertString
Next == Handle \/ SaltValue \/ Convert

Spec == Init /\ [][Next]_vars

-----------------------------------------------------------------------------
(* Properties.                                                               *)

Calls == {"salt", "vendor", "demangle", "key", "tag", "int", "string"}

(* Type correctness of what a script holds and of the part of rad_handle the *)
(* encryption reads.                                                         *)
ValuesTypeOK ==
  /\ secrets \in Seq(Secrets) /\ Len(secrets) <= MAXSERVERS
  /\ srv \in Nat \ {0}
  /\ acct \in BOOLEAN
  /\ nonce \in 0..MaxCreates
  /\ stage \in {"none", "attr", "data"}
  /\ \A i \in 1..Len(held) : held[i].byte \in 0..(BYTE - 1)
  /\ fresh \in BOOLEAN
  /\ result.call \in Calls \cup {"none", "crash"}

(* The reply is being read as it was written: the last call read its         *)
(* attribute, or the data in it.                                             *)
ReadAs(call, stage_) == result.call = call /\ result.on = stage_
Wrote(form) == letter.form = form

(* rad_get_vendor_attr inverts rad_put_vendor_attr: vendor, type and data of *)
(* an attribute come back, for data of two bytes or more; the rest, which    *)
(* rad_put_vendor_attr writes as well, is refused for want of a whole        *)
(* struct vendor_attribute.                                                  *)
VendorReadsBack ==
  ReadAs("vendor", "attr") =>
    /\ result.ok <=> Len(letter.data) >= 2
    /\ result.ok =>
         /\ result.text = letter.data
         /\ WordValue(result.vendor) = letter.vendor % WORD
         /\ result.type.byte = letter.type % BYTE

(* Until the next request is created or sent, a mangled text or key of an    *)
(* answer opens to what the server wrote, whatever servers were added        *)
(* meanwhile, also for an accounting request, whose authenticator changed    *)
(* with every transmission.  A key longer than MPPE_KEY_LEN is refused.      *)
AnswerOpens ==
  fresh =>
    /\ ReadAs("demangle", "data") /\ Wrote("mangled") =>
         /\ result.ok <=> RoundUp(Len(letter.what.text)) <= MAXMANGLED
         /\ result.ok => result.text = Padded(Text(letter.what.text))
    /\ ReadAs("key", "data") /\ Wrote("key") =>
         /\ result.ok <=> Len(letter.what.text) <= MPPE_KEY_LEN
         /\ result.ok => result.text = Text(letter.what.text)

(* A salted value is what tests/radius_salt_encrypt_attr.phpt and the fake   *)
(* server of the tests expect: the padded length behind the salt, and chunks *)
(* that open with the secret of the current server and the authenticator in  *)
(* the buffer to the value, padded; with zeros, if it was a string.          *)
SaltReadsBack ==
  result.call = "salt" /\ result.ok /\ result.len # 0 =>
    LET text == result.text
        opened == Decrypt(ServerSecret, auth, SubSeq(text, 1, SALT_LEN),
                          SubSeq(text, 4, Len(text)))
        value == Text(Value(result.len))
    IN  /\ Len(text) = 3 + RoundUp(result.len)
        /\ text[3] = Plain(RoundUp(result.len) % BYTE)
        /\ SubSeq(opened, 1, result.len) = value
        /\ result.behind = 0 => opened = Padded(value)

(* The loop of rad_salt_value stays inside the buffer it has allocated,      *)
(* except for a value of whole chunks: then it writes exactly one more.      *)
OverrunIsOneChunk ==
  result.call = "salt" /\ result.ok /\ result.len # 0 =>
    Written(result.len) =
      Allocated(result.len) + (IF result.len % CHUNK = 0 THEN CHUNK ELSE 0)

(* An unsigned number of the given range, read as a signed one.              *)
SignedAgain(n, width) == IF n < width \div 2 THEN n ELSE n - width

(* What a server wrote comes out of the conversions: the text behind a tag,  *)
(* and a string up to its first zero byte; a number in the order of the host *)
(* and a tag, but not as they were written, a u_int32_t (rad_cvt_int) and a  *)
(* number "between 0 and 255" (_init_options): with half the range or more   *)
(* they come back negative, after their way over an int and a char.          *)
ConversionsReadBack ==
  /\ ReadAs("int", "data") /\ Wrote("number") =>
       result.number = SignedAgain(letter.what.number % WORD, WORD)
  /\ ReadAs("tag", "data") /\ Wrote("tagged") =>
       /\ result.number = SignedAgain(letter.what.tag, BYTE)
       /\ result.text = Text(letter.what.text)
  /\ ReadAs("string", "data") /\ Wrote("string") =>
       /\ IsPrefix(result.text, letter.what.text)
       /\ 0 \notin ToSet(result.text)
       /\ Len(result.text) < Len(letter.what.text) =>
            letter.what.text[Len(result.text) + 1] = 0

(* "The resulting plain text consists of a one-byte length, the text and     *)
(* maybe some padding" (rad_demangle_mppe_key): a key is a part of what was  *)
(* opened, whatever its length byte says and with whatever secret it was     *)
(* opened, except in two cases.  If one chunk was opened and the length byte *)
(* says a whole chunk, the last byte of the key is the one behind it; and of *)
(* a value of nothing but a salt even the length byte is not its own.        *)
KeyLeavesItsText ==
  result.call = "key" /\ result.ok =>
    LET opened == Len(held) - SALT_LEN
        read == 1 + Len(result.text)
    IN  /\ read > opened <=>
             \/ opened = 0
             \/ /\ opened = CHUNK
                /\ Len(result.text) = CHUNK
        /\ read <= opened + SALT_LEN
=============================================================================
