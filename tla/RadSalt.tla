------------------------------ MODULE RadSalt -------------------------------
(* The encryption of single values: rad_salt_value, which encrypts one that  *)
(* is put into a request, and rad_demangle and rad_demangle_mppe_key, which  *)
(* open one from a response (radlib.c).                                      *)
(*                                                                           *)
(* Every chunk of a value is XORed with an MD5 of the secret and the chunk   *)
(* before it.  MD5 is symbolic: a byte is known by its plain value and the   *)
(* pads it has been XORed with, and XORing with a pad twice removes it.      *)
EXTENDS Integers, Sequences, FiniteSetsExt, SequencesExt

CONSTANTS
  BYTE,          \* values of a byte (256)
  CHUNK,         \* bytes of an MD5 digest (16)
  MAXMANGLED,    \* longest value rad_demangle takes (128)
  MPPE_KEY_LEN   \* longest key rad_demangle_mppe_key returns (16)

ASSUME SaltAssumption ==
  /\ BYTE \in Nat \ {0} /\ BYTE % 2 = 0
  /\ CHUNK \in Nat /\ CHUNK > 2   \* more than SALT_LEN
  /\ MAXMANGLED \in Nat
  /\ MPPE_KEY_LEN \in 0..CHUNK

SALT_LEN == 2

(* type, length, two bytes of salt and the length of the value: 250          *)
MaxSaltLen == BYTE - 1 - 5

-----------------------------------------------------------------------------
(* Bytes, pads and chunks.                                                   *)

Plain(b) == [byte |-> b, pads |-> {}]
Text(bytes) == [i \in 1..Len(bytes) |-> Plain(bytes[i])]
IsPlain(text) == \A i \in 1..Len(text) : text[i].pads = {}

(* What a byte may turn out to be: one nobody can open is anything.          *)
Reads(b) == IF b.pads = {} THEN {b.byte} ELSE 0..(BYTE - 1)

(* MD5Init, MD5Update ..., MD5Final                                          *)
FirstMD5(secret, auth, salt) == [secret |-> secret, auth |-> auth, salt |-> salt]
LaterMD5(secret, chunk) == [secret |-> secret, chunk |-> chunk]

Xor(chunk, b) ==
  [j \in 1..Len(chunk) |->
     [chunk[j] EXCEPT !.pads = SymDiff(@, {[md5 |-> b, at |-> j]})]]

ChunkOf(text, k) == SubSeq(text, CHUNK * (k - 1) + 1, CHUNK * k)
RoundUp(n) == CHUNK * ((n + CHUNK - 1) \div CHUNK)

-----------------------------------------------------------------------------
(* rad_salt_value                                                            *)

(* Mutant: every chunk is chained to the plain one before it.                *)
EncryptOfPlain(secret, auth, salt, text) ==
  FlattenSeq([k \in 1..(Len(text) \div CHUNK) |->
    Xor(ChunkOf(text, k), IF k = 1 THEN FirstMD5(secret, auth, salt)
                          ELSE LaterMD5(secret, ChunkOf(text, k - 1)))])

(* The chunks of a text, each chained to the encrypted one before it.        *)
Encrypt(secret, auth, salt, text) ==
  LET cipher[k \in 1..(Len(text) \div CHUNK)] ==
        Xor(ChunkOf(text, k), IF k = 1 THEN FirstMD5(secret, auth, salt)
                              ELSE LaterMD5(secret, cipher[k - 1]))
  IN  FlattenSeq(cipher)

(* in_pos starts one byte in front of the input and is compared before it is *)
(* increased: after k chunks it has gone over all but the first byte of them,*)
(* or stands on the byte behind the input.                                   *)
InPos(len, k) == IF CHUNK * k - 1 < len THEN CHUNK * k - 1 ELSE len

(* Mutant: in_pos starts at the input, and all its chunks are whole.         *)
ChunksExactly(len) == RoundUp(len) \div CHUNK

(* The chunks the loop writes: the first one, and more until in_pos is       *)
(* behind the input.                                                         *)
Chunks(len) ==
  CHOOSE k \in 1..(len + 1) :
    InPos(len, k) >= len /\ \A j \in 1..(k - 1) : InPos(len, j) < len

(* The byte of the input at a position, counted from 1; the one behind it is *)
(* read, the others are zeros.                                               *)
InputByte(value, behind, i) ==
  IF i <= Len(value) THEN value[i] ELSE IF i = Len(value) + 1 THEN behind ELSE 0

SaltOf(random) ==
  LET low == random % BYTE
  IN  Text(<<IF low >= BYTE \div 2 THEN low ELSE low + BYTE \div 2,
             (random \div BYTE) % BYTE>>)

TooLongToSalt(len) == RoundUp(len) > MaxSaltLen
Allocated(len) == RoundUp(len) + 3
Written(len) == 3 + CHUNK * Chunks(len)

(* What the buffer holds: out->data[0 .. out->len)                           *)
Salted(secret, auth, random, value, behind) ==
  LET len == Len(value)
      input == Text([i \in 1..(CHUNK * Chunks(len)) |-> InputByte(value, behind, i)])
      salt == SaltOf(random)
  IN  salt \o Text(<<RoundUp(len) % BYTE>>)
        \o SubSeq(Encrypt(secret, auth, salt, input), 1, RoundUp(len))

-----------------------------------------------------------------------------
(* rad_demangle and rad_demangle_mppe_key                                    *)

Decrypt(secret, auth, salt, mangled) ==
  FlattenSeq([k \in 1..(Len(mangled) \div CHUNK) |->
    Xor(ChunkOf(mangled, k), IF k = 1 THEN FirstMD5(secret, auth, salt)
                             ELSE LaterMD5(secret, ChunkOf(mangled, k - 1)))])

DemangleRefused(mlen) == mlen % CHUNK # 0 \/ mlen > MAXMANGLED

(* Mutant: the key may be longer than the buffer of the caller.              *)
KeyRefusedIfLong(mlen, len) == len > mlen - 1

(* The first opened byte is the length of the key.  It is compared with the  *)
(* length of the whole value, its salt included.                             *)
KeyRefused(mlen, len) == len > mlen - 1 \/ len > MPPE_KEY_LEN
=============================================================================
