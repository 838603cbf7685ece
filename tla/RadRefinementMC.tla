-------------------------- MODULE RadRefinementMC ---------------------------
(* Two servers, a request of one attribute, and a busier network.            *)
EXTENDS RadRefinement

CONSTANTS a1, a2, s1, s2

MCCodes == {1, 4}
MCAddrs == {a1, a2}
MCSecrets == {s1, s2}
MCValues == {}
MCVendorValues == {<<311, 1, 20>>}
MCOptionSets == {{}}
MCServerMenu == {[addr |-> a1, secret |-> s1, max_tries |-> 2],
                 [addr |-> a2, secret |-> s2, max_tries |-> 1]}
MCReplyCodes == {0, 2}
MCReplySizes == {<<20, 20>>, <<22, 26>>, <<20, 16>>}
MCStrays == {<<a1, NoSecret>>, <<a2, s1>>}
=============================================================================
