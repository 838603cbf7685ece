------------------------------ MODULE RadSendMC -----------------------------
(* RadSend with two servers.                                                 *)
EXTENDS RadSend

CONSTANTS a1, a2, s1, s2

MCCodes == {1, 4}
MCAddrs == {a1, a2}
MCSecrets == {s1, s2}
MCValues == {<<2, 5>>}
MCSaltValues == {<<2, 5>>, <<69, 5>>}
MCLongValues == {<<2, 5>>, <<69, 20>>}
MCNoVendorValues == {}
MCAccessCodes == {1}
MCVendorValues == {<<311, 1, 8>>}
MCOptionSets == {{}}
MCSaltOptions == {{}, {"SALT"}}
MCServerMenu == {[addr |-> a1, secret |-> s1, max_tries |-> 2],
                 [addr |-> a2, secret |-> s2, max_tries |-> 1],
                 [addr |-> a2, secret |-> s2, max_tries |-> 0]}
MCReplyCodes == {2}
MCReplySizes == {<<20, 20>>}
MCStrays == {<<a1, NoSecret>>, <<a2, s1>>}
=============================================================================
