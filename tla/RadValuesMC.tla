----------------------------- MODULE RadValuesMC ----------------------------
(* RadValues with bytes of 32 values and digests of 4 bytes.                 *)
EXTENDS RadValues, TLC

CONSTANTS s1, s2

MCSecrets == {s1, s2}
MCLetters ==
  {[form |-> "key", text |-> text] :
     text \in {<< >>, <<7, 8, 9, 10>>, <<7, 8, 9, 10, 11>>}}
    \cup {[form |-> "mangled", text |-> [i \in 1..n |-> i]] : n \in {6, 12}}
    \cup {[form |-> "tagged", tag |-> tag, text |-> <<3>>] : tag \in {15, 16}}
    \cup {[form |-> "tagged", tag |-> 15, text |-> << >>],
          [form |-> "string", text |-> <<3, 0, 4>>]}
    \cup {[form |-> "number", number |-> n] : n \in {524287, 1048575}}
MCVendors == {<<-1, 33>>}
MCLengths == {0, 3, 4, 8, 25}
MCRandoms == {50}
MCBehind == {0, 9}
MCSymmetry == Permutations(MCSecrets)
=============================================================================
