---------------------------- MODULE RadRequestMC ----------------------------
(* RadRequest with a buffer that a handful of attributes fill.  The lengths  *)
(* are on both sides of what an attribute holds: 253 bytes, 247 in a vendor  *)
(* attribute, and 240 to be salted.                                          *)
EXTENDS RadRequest

MCCodes == {1, 4}
MCValues == {<<1, 240>>, <<1, 253>>, <<2, 0>>, <<2, 40>>, <<3, 90>>}
MCVendorValues == {<<9, 1, 247>>, <<311, 25, 80>>}
MCOptionSets == {{}, {"SALT"}, {"TAG"}}
=============================================================================
