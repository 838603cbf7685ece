----------------------------- MODULE RadVendor ------------------------------
(* The values inside attributes: vendor attributes, tags, numbers and        *)
(* strings, as rad_put_vendor_attr, rad_put_int and rad_put_string write     *)
(* them and rad_get_vendor_attr, radius_get_tagged_attr_tag and _data and    *)
(* the rad_cvt_* functions read them (radlib.c, radius.c).  A char is signed, *)
(* as on x86.                                                                *)
EXTENDS RadSalt

(* struct vendor_attribute: seven bytes, padded to a multiple of four.       *)
HEADER == 6
SIZEOF_VENDOR == 8

WORD == BYTE * BYTE * BYTE * BYTE
Signed(n, width) == IF n >= width \div 2 THEN n - width ELSE n

-----------------------------------------------------------------------------
(* Numbers of four bytes, most significant first: htonl and ntohl.           *)

Word(n) ==
  LET a == n % WORD
      b == a \div BYTE
      c == b \div BYTE
      d == c \div BYTE
  IN  Text(<<d, c % BYTE, b % BYTE, a % BYTE>>)
WordValue(text) ==
  ((text[1].byte * BYTE + text[2].byte) * BYTE + text[3].byte) * BYTE + text[4].byte

(* Mutant: the bytes are left in the order of the network.                   *)
CvtIntWithoutNtohl(text) == Signed(WordValue(Reverse(text)), WORD)

(* radius_cvt_int: rad_cvt_int into an int.                                  *)
CvtInt(text) == Signed(WordValue(text), WORD)

(* A string up to its first zero byte: strlen in rad_put_string and in       *)
(* radius_cvt_string.                                                        *)
CString(bytes) ==
  SubSeq(bytes, 1, LET nul == SelectInSeq(bytes, LAMBDA b : b = 0)
                   IN  IF nul = 0 THEN Len(bytes) ELSE nul - 1)

-----------------------------------------------------------------------------
(* Tags.                                                                     *)

PutTag(tag, text) == Text(<<tag % BYTE>>) \o text

(* radius_get_tagged_attr_tag: a char, and so signed.                        *)
TagOf(byte) == Signed(byte, BYTE)
UntaggedOf(text) == SubSeq(text, 2, Len(text))

-----------------------------------------------------------------------------
(* Vendor attributes.                                                        *)

(* rad_put_vendor_attr: what it hands to put_raw_attr.                       *)
PutVendor(vendor, type, text) ==
  Word(vendor) \o Text(<<type % BYTE, (Len(text) + 2) % BYTE>>) \o text

VendorTooShort(raw_len) == raw_len < SIZEOF_VENDOR

(* rad_get_vendor_attr, once the fields of the header are read.              *)
VendorRefused(raw_len, attrib_len) == attrib_len + 4 > raw_len

(* Mutant: the data begins behind the structure, padding included.           *)
VendorDataPadded(raw, attrib_len) ==
  SubSeq(raw, SIZEOF_VENDOR + 1, HEADER + attrib_len - 2)
VendorData(raw, attrib_len) == SubSeq(raw, HEADER + 1, HEADER + attrib_len - 2)
=============================================================================
