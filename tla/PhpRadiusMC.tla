----------------------------- MODULE PhpRadiusMC ----------------------------
(* PhpRadius with two variables, two resources and short lines.              *)
EXTENDS PhpRadius, TLC

CONSTANTS v1, v2

MCVars == {v1, v2}
MCSymmetry == Permutations(MCVars)
MCKnownHosts == {<<"hostA">>, <<"hostB">>}

MCSymbols ==
  {"LF", "CR", " ", "TAB", "#", "QUOTE", "ESCAPE", ":", "auth", "acct",
   "hostA", "hostB", "secret", "s", "x", "+"} \cup ToSet(Digits)

MCEntries ==
  {[type |-> "auth", named |-> FALSE, quoted |-> FALSE,
    server |-> Server(<<"hostA">>, 0, <<"secret">>, TIMEOUT, MAXTRIES)],
   [type |-> "auth", named |-> TRUE, quoted |-> TRUE,
    server |-> Server(<<"hostB">>, 18, <<"QUOTE", "#", "ESCAPE">>, 10, 2)],
   [type |-> "acct", named |-> TRUE, quoted |-> TRUE,
    server |-> Server(<<"hostA">>, 0, <<"#", " ", "secret">>, TIMEOUT, 0)],
   [type |-> "acct", named |-> TRUE, quoted |-> FALSE,
    server |-> Server(<<"hostB">>, 7, <<"x", "QUOTE">>, TIMEOUT, MAXTRIES)]}
MCAsides == {<< >>, <<" ", "TAB">>, <<"#", "hostA">>, <<" ", "#", "QUOTE">>}
Words(words) == [words |-> words, quoted |-> FALSE, secret |-> << >>, behind |-> << >>]
Quote(secret, behind) ==
  [words |-> << <<"hostA">> >>, quoted |-> TRUE, secret |-> secret, behind |-> behind]
MCFaults ==
  {Words(<< <<"hostA">> >>),                              \* no secret
   Words(<< <<"CR">> >>),                                 \* a blank line of DOS
   Words(<< <<"acct">>, <<"hostA">> >>),
   Words(<< <<"hostA">>, <<"s">>, <<"1">>, <<"1">>, <<"1">> >>),  \* no such service
   Words(<< <<"auth">>, <<"hostA">>, <<"s">>, <<"1">>, <<"1">>, <<"1">> >>),
   Quote(<<"secret">>, << >>),                            \* not terminated
   Quote(<<"secret">>, <<"ESCAPE">>),
   Quote(<< >>, <<"QUOTE">>),                             \* empty
   Quote(<<"s">>, <<"ESCAPE", "s", "QUOTE">>),
   Quote(<<"s">>, <<"QUOTE", "s">>)}                      \* no blank behind it

MCFiles ==
  {<<"hostA", " ", "s", "LF", "acct", " ", "hostB", " ", "s", "LF", "hostB", "LF">>,
   <<"hostB", " ", "s", " ", "QUOTE", " ", "+", "5", "QUOTE", "x">>}
MCAdded == {<< <<"hostA">>, <<"s">> >>}
=============================================================================
