--------------------------- MODULE RadResponseMC ----------------------------
(* RadResponse with a header of one byte and attributes of a few bytes.      *)
EXTENDS RadResponse

MCGarbage == {-1, 0, 1}
=============================================================================
