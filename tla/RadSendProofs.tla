--------------------------- MODULE RadSendProofs ----------------------------
(* Theorems about a rad_handle and its network: the sums of tries over its   *)
(* table of servers, the scan for the next one, the types of everything, and *)
(* that failover visits the servers in order and uses their tries exactly,   *)
(* and the scan always ends, for any server table whose limits of tries are  *)
(* not negative.                                                             *)
EXTENDS RadSend, RadRequestProofs, NaturalSets

-----------------------------------------------------------------------------
(* The sums of tries over the server table, and the scan for the next        *)
(* server.                                                                   *)

(* The recursive function in TriesUpTo exists for a table of integers.       *)
LEMMA PartialSumsExist ==
  ASSUME NEW s, NEW n \in Nat, \A i \in 1..n : s[i].max_tries \in Int
  PROVE  \E f \in [0..n -> Int] :
           \A i \in 0..n : f[i] = IF i = 0 THEN 0 ELSE f[i - 1] + s[i].max_tries
<1> DEFINE Sums(k, f) == \A i \in 0..k :
             f[i] = IF i = 0 THEN 0 ELSE f[i - 1] + s[i].max_tries
           S == {k \in Nat : k <= n => \E f \in [0..k -> Int] : Sums(k, f)}
<1>1. 0 \in S
  <2> DEFINE f == [i \in 0..0 |-> 0]
  <2>1. f \in [0..0 -> Int] /\ Sums(0, f)
    OBVIOUS
  <2> QED BY <2>1
<1>2. ASSUME NEW k \in Nat, k \in S
      PROVE  k + 1 \in S
  <2> SUFFICES k + 1 <= n => \E f \in [0..(k + 1) -> Int] : Sums(k + 1, f)
    <3> HIDE DEF Sums
    <3>1. k + 1 \in Nat
      OBVIOUS
    <3> QED BY <3>1
  <2> HAVE k + 1 <= n
  <2>1. k <= n
    OBVIOUS
  <2>2. PICK g \in [0..k -> Int] : Sums(k, g)
    BY <1>2, <2>1
  <2> DEFINE f == [i \in 0..(k + 1) |->
                     IF i = k + 1 THEN g[k] + s[k + 1].max_tries ELSE g[i]]
  <2>3. f \in [0..(k + 1) -> Int]
    <3>1. s[k + 1].max_tries \in Int
      OBVIOUS
    <3>2. \A i \in 0..(k + 1) : i # k + 1 => i \in 0..k
      OBVIOUS
    <3> QED BY <3>1, <3>2
  <2>4. ASSUME NEW i \in 0..(k + 1)
        PROVE  f[i] = IF i = 0 THEN 0 ELSE f[i - 1] + s[i].max_tries
    <3>1. CASE i = k + 1
      BY <3>1
    <3>2. CASE i # k + 1
      <4>1. i \in 0..k /\ f[i] = g[i]
        BY <3>2
      <4>2. i # 0 => i - 1 \in 0..k /\ f[i - 1] = g[i - 1]
        BY <4>1
      <4> QED BY <2>2, <4>1, <4>2
    <3> QED BY <3>1, <3>2
  <2> QED BY <2>3, <2>4
<1>3. n \in S
  <2> HIDE DEF S
  <2> QED BY <1>1, <1>2, SetInduction
<1> QED BY <1>3

(* What TriesUpTo computes: it starts at 0 and adds a server at a time.      *)
LEMMA TriesUpToStep ==
  ASSUME NEW s, Len(s) \in Nat, \A i \in 1..Len(s) : s[i].max_tries \in Int
  PROVE  /\ TriesUpTo(s) \in [0..Len(s) -> Int]
         /\ TriesUpTo(s)[0] = 0
         /\ \A i \in 1..Len(s) :
              TriesUpTo(s)[i] = TriesUpTo(s)[i - 1] + s[i].max_tries
<1> DEFINE n == Len(s)
           F(f) == [i \in 0..n |-> IF i = 0 THEN 0 ELSE f[i - 1] + s[i].max_tries]
<1>1. PICK f \in [0..n -> Int] :
        \A i \in 0..n : f[i] = IF i = 0 THEN 0 ELSE f[i - 1] + s[i].max_tries
  BY PartialSumsExist
<1>2. f = F(f)
  BY <1>1
<1>3. TriesUpTo(s) = CHOOSE g : g = F(g)
  BY DEF TriesUpTo
<1>4. TriesUpTo(s) = F(TriesUpTo(s))
  BY <1>2, <1>3
<1> DEFINE t == TriesUpTo(s)
<1>5. \A i \in 0..n : t[i] = IF i = 0 THEN 0 ELSE t[i - 1] + s[i].max_tries
  BY <1>4
<1>6. \A i \in 0..n : t[i] \in Int
  <2> DEFINE S == {k \in Nat : k <= n => t[k] \in Int}
  <2> HIDE DEF t
  <2>1. 0 \in S
    BY <1>5
  <2>2. \A k \in Nat : k \in S => k + 1 \in S
    BY <1>5
  <2>3. \A k \in Nat : k \in S
    <3> HIDE DEF S
    <3> QED BY <2>1, <2>2, SetInduction
  <2> QED BY <2>3
<1>7. t \in [0..n -> Int]
  BY <1>4, <1>6
<1>8. t[0] = 0 /\ \A i \in 1..n : t[i] = t[i - 1] + s[i].max_tries
  <2> HIDE DEF t
  <2> QED BY <1>5
<1> QED BY <1>7, <1>8

(* Over servers that have no tries the sum stays where it is.                *)
LEMMA TriesUpToFlat ==
  ASSUME NEW s, Len(s) \in Nat, \A i \in 1..Len(s) : s[i].max_tries \in Int,
         NEW a \in 0..Len(s), NEW b \in 0..Len(s), a <= b,
         \A i \in (a + 1)..b : s[i].max_tries = 0
  PROVE  TriesUpTo(s)[b] = TriesUpTo(s)[a]
<1> DEFINE t == TriesUpTo(s)
           S == {k \in Nat : a + k <= b => t[a + k] = t[a]}
<1>1. \A i \in 1..Len(s) : t[i] = t[i - 1] + s[i].max_tries
  BY TriesUpToStep
<1>2. \A i \in 0..Len(s) : t[i] \in Int
  BY TriesUpToStep
<1> HIDE DEF t
<1>3. 0 \in S
  OBVIOUS
<1>4. ASSUME NEW k \in Nat, k \in S
      PROVE  k + 1 \in S
  <2>1. SUFFICES ASSUME a + (k + 1) <= b
                 PROVE  t[a + (k + 1)] = t[a]
    OBVIOUS
  <2>2. t[a + k] = t[a]
    BY <1>4, <2>1
  <2>3. a + (k + 1) \in 1..Len(s) /\ a + (k + 1) \in (a + 1)..b
    BY <2>1
  <2>4. (a + (k + 1)) - 1 = a + k
    OBVIOUS
  <2>5. t[a + (k + 1)] = t[a + k] + 0
    BY <1>1, <2>3, <2>4
  <2> QED BY <1>2, <2>2, <2>5
<1>5. b - a \in S
  <2> HIDE DEF S
  <2>1. b - a \in Nat
    OBVIOUS
  <2> QED BY <1>3, <1>4, <2>1, SetInduction
<1>6. a + (b - a) = b
  OBVIOUS
<1> QED BY <1>5, <1>6 DEF t

(* Over servers that have no negative limit the sums never fall.             *)
LEMMA TriesUpToMonotonic ==
  ASSUME NEW s, Len(s) \in Nat, \A i \in 1..Len(s) : s[i].max_tries \in Nat,
         NEW a \in 0..Len(s), NEW b \in 0..Len(s), a <= b
  PROVE  TriesUpTo(s)[a] <= TriesUpTo(s)[b]
<1> DEFINE t == TriesUpTo(s)
           S == {k \in Nat : a + k <= b => t[a] <= t[a + k]}
<1>1. \A i \in 1..Len(s) : t[i] = t[i - 1] + s[i].max_tries
  BY TriesUpToStep
<1>2. \A i \in 0..Len(s) : t[i] \in Int
  BY TriesUpToStep
<1> HIDE DEF t
<1>3. 0 \in S
  BY <1>2
<1>4. ASSUME NEW k \in Nat, k \in S
      PROVE  k + 1 \in S
  <2>1. SUFFICES ASSUME a + (k + 1) <= b
                 PROVE  t[a] <= t[a + (k + 1)]
    OBVIOUS
  <2>2. t[a] <= t[a + k]
    BY <1>4, <2>1
  <2>3. a + (k + 1) \in 1..Len(s) /\ a + k \in 0..Len(s)
    BY <2>1
  <2>4. (a + (k + 1)) - 1 = a + k
    OBVIOUS
  <2>5. t[a + (k + 1)] = t[a + k] + s[a + (k + 1)].max_tries
    BY <1>1, <2>3, <2>4
  <2>6. t[a] \in Int /\ t[a + k] \in Int /\ s[a + (k + 1)].max_tries \in Nat
    BY <1>2, <2>3
  <2> QED BY SMTT(30), <2>2, <2>5, <2>6
<1>5. b - a \in S
  <2> HIDE DEF S
  <2>1. b - a \in Nat
    OBVIOUS
  <2> QED BY <1>3, <1>4, <2>1, SetInduction
<1>6. a + (b - a) = b
  OBVIOUS
<1> QED BY <1>5, <1>6 DEF t

(* If any server has tries left, the scan stops at one of them, and at the   *)
(* first one it comes to.                                                    *)
LEMMA NextServerIsFirst ==
  ASSUME servers \in Seq(Servers), NEW from \in 1..Len(servers), NEW tries,
         \E i \in 1..Len(servers) : HasTriesLeft(i, tries)
  PROVE  /\ NextServer(from, tries) \in 1..Len(servers)
         /\ HasTriesLeft(NextServer(from, tries), tries)
         /\ \A j \in 1..Len(servers) : HasTriesLeft(j, tries) =>
              Steps(from, NextServer(from, tries)) <= Steps(from, j)
<1> DEFINE Left == {i \in 1..Len(servers) : HasTriesLeft(i, tries)}
           Distances == {Steps(from, i) : i \in Left}
<1>1. Len(servers) \in Nat
  OBVIOUS
<1>2. \A i \in 1..Len(servers) : Steps(from, i) \in Nat
  BY <1>1 DEF Steps
<1>3. Distances \subseteq Nat /\ Distances # {}
  BY <1>2
<1>4. PICK d \in Distances : \A e \in Distances : d <= e
  <2> HIDE DEF Distances
  <2> QED BY <1>3, LeastNumber
<1>5. PICK i \in Left : d = Steps(from, i)
  OBVIOUS
<1>6. /\ i \in 1..Len(servers)
      /\ HasTriesLeft(i, tries)
      /\ \A j \in 1..Len(servers) :
           HasTriesLeft(j, tries) => Steps(from, i) <= Steps(from, j)
  BY <1>4, <1>5
<1> HIDE DEF Left, Distances
<1> QED BY <1>6 DEF NextServer

-----------------------------------------------------------------------------
(* What a step computes has the right type.                                  *)

(* The table holds servers.                                                  *)
LEMMA ServersAreTyped ==
  ASSUME SendTypeOK
  PROVE  /\ Len(servers) \in Nat
         /\ \A i \in 1..Len(servers) : servers[i] \in Servers
BY DEF SendTypeOK

(* The fields of a server have their types.                                  *)
LEMMA ServerFields ==
  ASSUME NEW s \in Servers
  PROVE  s.addr \in Addrs /\ s.secret \in Secrets /\ s.max_tries \in Int
BY DEF Servers

(* The authenticator of a transmission is one.                               *)
LEMMA AuthForType ==
  ASSUME SendTypeOK, NEW s \in Servers
  PROVE  AuthFor(s) \in Auths
<1>1. [code |-> code, ident |-> ident, attrs |-> attrs, secret |-> s.secret] \in Contents
  BY ServerFields DEF SendTypeOK, RequestTypeOK, Contents
<1>2. Digest(s.secret) \in Auths
  BY <1>1 DEF Digest, Auths
<1> QED BY <1>2 DEF AuthFor, SendTypeOK, RequestTypeOK

(* What a password is scrambled with is a key.                               *)
LEMMA PassKeyForType ==
  ASSUME SendTypeOK, NEW s \in Servers
  PROVE  PassKeyFor(s) \in Keys
<1>1. KeyWith(s.secret) \in Keys
  BY ServerFields, SaltKeyType DEF SendTypeOK, RequestTypeOK
<1> QED BY <1>1 DEF PassKeyFor, SendTypeOK

(* A scrambled password may take an attribute's identity, not its place.     *)
LEMMA AttrsSentType ==
  ASSUME attrs \in Seq(Attrs)
  PROVE  /\ AttrsSent \in Seq(Attrs) /\ Len(AttrsSent) = Len(attrs)
         /\ \A i \in 1..Len(attrs) :
              \/ AttrsSent[i] = attrs[i]
              \/ /\ AttrsSent[i].off = attrs[i].off /\ AttrsSent[i].len = attrs[i].len
                 /\ AttrsSent[i].type = Overwritten /\ AttrsSent[i].sub = Plain
<1>1. Len(attrs) \in Nat /\ \A i \in 1..Len(attrs) : attrs[i] \in Attrs
  OBVIOUS
<1>2. NoKey \in Keys /\ Plain \in Nat \X Nat
  BY DEF NoKey, Keys, Plain
<1>3. ASSUME NEW a \in Attrs
      PROVE  /\ Scrambled(a) \in Attrs
             /\ \/ Scrambled(a) = a
                \/ /\ Scrambled(a).off = a.off /\ Scrambled(a).len = a.len
                   /\ Scrambled(a).type = Overwritten /\ Scrambled(a).sub = Plain
  <2>1. CASE LiesUnderPassword(a)
    <3> DEFINE b == [a EXCEPT !.type = Overwritten, !.sub = Plain, !.key = NoKey]
    <3>1. b \in Attrs /\ b.off = a.off /\ b.len = a.len
      BY <1>2 DEF Attrs
    <3>2. b.type = Overwritten /\ b.sub = Plain
      BY DEF Attrs
    <3>3. Scrambled(a) = b
      BY <2>1 DEF Scrambled
    <3> QED BY <3>1, <3>2, <3>3
  <2>2. CASE ~LiesUnderPassword(a)
    BY <2>2 DEF Scrambled
  <2> QED BY <2>1, <2>2
<1>4. CASE AttrsSent = [i \in 1..Len(attrs) |-> Scrambled(attrs[i])]
  <2>1. \A i \in 1..Len(attrs) : AttrsSent[i] = Scrambled(attrs[i])
    BY <1>4
  <2>2. AttrsSent \in [1..Len(attrs) -> Attrs]
    BY <1>1, <1>3, <1>4
  <2>3. AttrsSent \in Seq(Attrs) /\ Len(AttrsSent) = Len(attrs)
    <3> HIDE DEF AttrsSent
    <3> QED BY <1>1, <2>2
  <2> QED BY <1>1, <1>3, <2>1, <2>3
<1>5. CASE AttrsSent = attrs
  BY <1>5
<1> QED BY <1>4, <1>5 DEF AttrsSent

(* What is transmitted is a datagram.                                        *)
LEMMA DatagramType ==
  ASSUME SendTypeOK, NEW s \in Servers, NEW a \in Auths, NEW as \in Seq(Attrs),
         NEW k \in Keys
  PROVE  [dst |-> s, code |-> code, ident |-> ident, auth |-> a, attrs |-> as,
          pass |-> k, gen |-> nonce] \in Datagrams
BY DEF SendTypeOK, RequestTypeOK, Datagrams

(* The fields a transmission may change.                                     *)
TransmitTyped ==
  /\ srv' \in Nat \ {0}
  /\ auth' \in Auths
  /\ attrs' \in Seq(Attrs)
  /\ pass_key' \in Keys
  /\ sent' \subseteq Datagrams
  /\ num_tries' \in [1..Len(servers) -> Nat]
  /\ try' \in Nat
  /\ pc' \in {"idle", "select", "spin"}
  /\ pc' = "select" => srv' <= Len(servers)
  /\ ret' \in Results

(* The datagram the request buffer becomes for a server.                     *)
DatagramFor(s) ==
  [dst |-> s, code |-> code, ident |-> ident, auth |-> AuthFor(s),
   attrs |-> AttrsSent, pass |-> PassKeyFor(s), gen |-> nonce]

(* The transmission to a server of the table, when the scan ends.            *)
TransmitTo(at, s, tries, count) ==
  /\ s = servers[at] /\ HasTriesLeft(at, tries)
  /\ srv' = at /\ auth' = AuthFor(s) /\ attrs' = AttrsSent
  /\ pass_key' = PassKeyFor(s)
  /\ \/ /\ sent' = sent \cup {DatagramFor(s)}
        /\ num_tries' = [tries EXCEPT ![at] = @ + 1]
        /\ try' = count + 1
        /\ pc' = "select"
        /\ ret' = "none"
     \/ /\ num_tries' = tries
        /\ try' = count
        /\ pc' = "idle"
        /\ ret' = "io_error"
        /\ UNCHANGED sent

(* A transmission spins, or goes to some server of the table.                *)
LEMMA TransmitCases ==
  ASSUME SendTypeOK, NEW from \in Nat \ {0}, Len(servers) > 0 => from <= Len(servers),
         NEW tries \in [1..Len(servers) -> Nat], NEW count, Transmit(from, tries, count)
  PROVE  \/ /\ pc' = "spin" /\ ret' = "none" /\ num_tries' = tries /\ try' = count
            /\ UNCHANGED <<srv, auth, attrs, pass_key, sent>>
         \/ \E at \in 1..Len(servers), s \in Servers : TransmitTo(at, s, tries, count)
<1>1. Len(servers) \in Nat /\ \A i \in 1..Len(servers) : servers[i] \in Servers
  BY ServersAreTyped
<1>2. CASE \A i \in 1..Len(servers) : ~HasTriesLeft(i, tries)
  BY <1>2 DEF Transmit
<1>3. CASE \E i \in 1..Len(servers) : HasTriesLeft(i, tries)
  <2>1. PICK next : next = NextServer(from, tries)
    OBVIOUS
  <2>2. next \in 1..Len(servers) /\ HasTriesLeft(next, tries)
    <3>1. from \in 1..Len(servers)
      BY <1>1, <1>3
    <3>2. servers \in Seq(Servers)
      BY DEF SendTypeOK
    <3> QED BY <1>3, <2>1, <3>1, <3>2, NextServerIsFirst
  <2>3. PICK s \in Servers : s = servers[next]
    BY <1>1, <2>2
  <2>4. TransmitTo(next, s, tries, count)
    BY <1>3, <2>1, <2>2, <2>3 DEF Transmit, TransmitTo, DatagramFor
  <2> QED BY <2>2, <2>4
<1> QED BY <1>2, <1>3

(* A transmission keeps the types.                                           *)
LEMMA TransmitType ==
  ASSUME SendTypeOK, NEW from \in Nat \ {0}, Len(servers) > 0 => from <= Len(servers),
         NEW tries \in [1..Len(servers) -> Nat], NEW count \in Nat,
         Transmit(from, tries, count)
  PROVE  TransmitTyped
<1>1. /\ srv \in Nat \ {0} /\ auth \in Auths /\ attrs \in Seq(Attrs)
      /\ pass_key \in Keys /\ sent \subseteq Datagrams /\ Len(servers) \in Nat
  BY ServersAreTyped DEF SendTypeOK, RequestTypeOK
<1>2. CASE /\ pc' = "spin" /\ ret' = "none" /\ num_tries' = tries /\ try' = count
           /\ UNCHANGED <<srv, auth, attrs, pass_key, sent>>
  BY <1>1, <1>2 DEF TransmitTyped, Results
<1>3. ASSUME NEW at \in 1..Len(servers), NEW s \in Servers, TransmitTo(at, s, tries, count)
      PROVE  TransmitTyped
  <2>1. AttrsSent \in Seq(Attrs) /\ AuthFor(s) \in Auths /\ PassKeyFor(s) \in Keys
    BY <1>1, AttrsSentType, AuthForType, PassKeyForType
  <2>2. DatagramFor(s) \in Datagrams
    BY <2>1, DatagramType DEF DatagramFor
  <2>3. /\ auth' \in Auths /\ attrs' \in Seq(Attrs) /\ pass_key' \in Keys
        /\ sent' \subseteq Datagrams
    BY <1>1, <1>3, <2>1, <2>2 DEF TransmitTo
  <2>4. srv' \in Nat \ {0} /\ srv' <= Len(servers)
    BY <1>1, <1>3 DEF TransmitTo
  <2>5. num_tries' \in [1..Len(servers) -> Nat] /\ try' \in Nat
    BY <1>3 DEF TransmitTo
  <2>6. pc' \in {"idle", "select", "spin"} /\ ret' \in Results
    BY <1>3 DEF TransmitTo, Results
  <2> QED BY <2>3, <2>4, <2>5, <2>6 DEF TransmitTyped
<1> QED BY <1>2, <1>3, TransmitCases

(* A step that leaves the request and the server table alone.                *)
LEMMA StepType ==
  ASSUME SendTypeOK, RequestUnchanged, TransmitTyped, servers' = servers,
         total_tries' \in Int, fd' \in BOOLEAN,
         response' \in Replies \cup {NoReply}, rcvbuf' \in Seq(Replies)
  PROVE  SendTypeOK'
<1>1. RequestTypeOK'
  BY DEF SendTypeOK, RequestTypeOK, RequestUnchanged, TransmitTyped
<1> QED BY <1>1 DEF SendTypeOK, TransmitTyped

(* So does what follows a timeout or an invalid datagram.                    *)
LEMMA TryAgainType ==
  ASSUME SendTypeOK, pc = "select", TryAgain
  PROVE  TransmitTyped
<1>1. /\ srv \in Nat \ {0} /\ srv <= Len(servers) /\ try \in Nat
      /\ num_tries \in [1..Len(servers) -> Nat]
  BY DEF SendTypeOK
<1>2. CASE Transmit(srv, num_tries, try)
  BY <1>1, <1>2, TransmitType
<1>3. CASE /\ pc' = "idle"
           /\ ret' = "no_valid_response"
           /\ UNCHANGED <<srv, num_tries, try, auth, attrs, pass_key, sent>>
  BY <1>3 DEF SendTypeOK, RequestTypeOK, TransmitTyped, Results
<1> QED BY <1>2, <1>3 DEF TryAgain

(* A step that touches neither what Transmit changes nor pc, except ret.     *)
LEMMA NoTransmitType ==
  ASSUME SendTypeOK, ret' \in Results, pc' \in {"idle", pc},
         UNCHANGED <<srv, auth, attrs, pass_key, sent, try>>,
         num_tries' \in [1..Len(servers) -> Nat]
  PROVE  TransmitTyped
BY DEF SendTypeOK, RequestTypeOK, TransmitTyped

(* The sum of all limits is a number.                                        *)
LEMMA TotalIsInt ==
  ASSUME SendTypeOK
  PROVE  TotalTries(servers) \in Int
<1>1. Len(servers) \in Nat /\ \A i \in 1..Len(servers) : servers[i].max_tries \in Int
  BY ServersAreTyped, ServerFields
<1>2. TriesUpTo(servers) \in [0..Len(servers) -> Int]
  BY <1>1, TriesUpToStep
<1> QED BY <1>1, <1>2 DEF TotalTries

(* What is received is a reply.                                              *)
LEMMA ReceiveBufferType ==
  ASSUME SendTypeOK, rcvbuf # << >>
  PROVE  Head(rcvbuf) \in Replies /\ Tail(rcvbuf) \in Seq(Replies)
BY DEF SendTypeOK

-----------------------------------------------------------------------------
(* Every action keeps the types.                                             *)

(* Each group of actions keeps the types.  Adding a server:                  *)
LEMMA AddServerType == SendTypeOK /\ AddServer => SendTypeOK'
<1> SUFFICES ASSUME SendTypeOK, AddServer
             PROVE  SendTypeOK'
  OBVIOUS
<1>1. pc = "idle" /\ pc' = "idle"
  BY DEF AddServer
<1>2. RequestTypeOK'
  BY DEF AddServer, SendTypeOK, RequestTypeOK, Results
<1>3. CASE UNCHANGED <<servers, num_tries>>
  BY <1>1, <1>2, <1>3 DEF AddServer, SendTypeOK
<1>4. ASSUME NEW s \in ServerMenu, Len(servers) < MAXSERVERS,
             servers' = Append(servers, s), num_tries' = Append(num_tries, 0)
      PROVE  SendTypeOK'
  <2>1. servers \in Seq(Servers) /\ s \in Servers /\ MAXSERVERS \in Nat
    BY SendAssumption DEF SendTypeOK
  <2>2. servers' \in Seq(Servers) /\ Len(servers') = Len(servers) + 1
    BY <1>4, <2>1
  <2>3. Len(servers') <= MAXSERVERS
    BY <1>4, <2>1, <2>2
  <2>4. num_tries \in Seq(Nat) /\ Len(num_tries) = Len(servers)
    BY <2>1 DEF SendTypeOK
  <2>5. num_tries' \in Seq(Nat) /\ Len(num_tries') = Len(servers')
    BY <1>4, <2>2, <2>4
  <2>6. num_tries' \in [1..Len(servers') -> Nat]
    BY <2>5
  <2> QED BY <1>1, <1>2, <2>2, <2>3, <2>6 DEF AddServer, SendTypeOK
<1> QED BY <1>3, <1>4 DEF AddServer

(* The secret a value is salted with is one, or there is none.               *)
LEMMA ServerSecretType ==
  ASSUME SendTypeOK
  PROVE  ServerSecret \in Secrets \cup {NoSecret}
<1>1. srv \in Nat \ {0} /\ servers \in Seq(Servers)
  BY DEF SendTypeOK
<1>2. ~(srv > Len(servers)) => srv \in 1..Len(servers)
  BY <1>1
<1>3. ~(srv > Len(servers)) => servers[srv] \in Servers
  BY <1>1, <1>2
<1> QED BY <1>3, ServerFields DEF ServerSecret

(* Building a request.                                                       *)
LEMMA BuildRequestType == SendTypeOK /\ BuildRequest => SendTypeOK'
<1> SUFFICES ASSUME SendTypeOK, BuildRequest
             PROVE  SendTypeOK'
  OBVIOUS
<1>1. ServerSecret \in Secrets \cup {NoSecret}
  BY ServerSecretType
<1>2. RequestTypeOK'
  BY <1>1, BuildType DEF SendTypeOK, BuildRequest
<1>3. pass_key' \in Keys
  BY DEF BuildRequest, SendTypeOK, NoKey, Keys
<1> QED BY <1>2, <1>3 DEF BuildRequest, SendTypeOK

(* The four ways through rad_init_send_request.                              *)
LEMMA CallType ==
  SendTypeOK /\ (SendWithoutSocket \/ SendRefused \/ SendNoServers \/ Send)
    => SendTypeOK'
<1> SUFFICES ASSUME SendTypeOK,
                    SendWithoutSocket \/ SendRefused \/ SendNoServers \/ Send
             PROVE  SendTypeOK'
  OBVIOUS
<1>1. /\ num_tries \in [1..Len(servers) -> Nat] /\ total_tries \in Int
      /\ fd \in BOOLEAN /\ response \in Replies \cup {NoReply}
      /\ rcvbuf \in Seq(Replies)
      /\ pc \in {"idle", "select", "spin"}
  BY DEF SendTypeOK
<1>2. NoTries \in [1..Len(servers) -> Nat]
  BY DEF NoTries
<1>3. "refused" \in Results /\ "io_error" \in Results
  BY DEF Results
<1>4. CASE SendWithoutSocket
  <2>1. TransmitTyped
    BY <1>1, <1>3, <1>4, NoTransmitType DEF SendWithoutSocket, handleVars
  <2> QED BY <1>1, <1>4, <2>1, StepType
          DEF SendWithoutSocket, handleVars
<1>5. CASE SendRefused
  <2>1. TransmitTyped
    BY <1>1, <1>3, <1>5, NoTransmitType DEF SendRefused
  <2> QED BY <1>1, <1>5, <2>1, StepType DEF SendRefused
<1>6. CASE SendNoServers
  <2>1. TransmitTyped
    BY <1>2, <1>3, <1>6, NoTransmitType DEF SendNoServers
  <2> QED BY <1>1, <1>6, <2>1, StepType DEF SendNoServers
<1>7. CASE Send
  <2>1. Len(servers) > 0 => 1 <= Len(servers)
    BY ServersAreTyped
  <2>2. TransmitTyped
    BY <1>2, <1>7, <2>1, TransmitType DEF Send
  <2>3. total_tries' \in Int
    BY <1>7, TotalIsInt DEF Send
  <2> QED BY <1>1, <1>7, <2>2, <2>3, StepType DEF Send
<1> QED BY <1>4, <1>5, <1>6, <1>7

(* What ends the waiting in select.                                          *)
LEMMA WaitType == SendTypeOK /\ Wait => SendTypeOK'
<1> SUFFICES ASSUME SendTypeOK, Wait
             PROVE  SendTypeOK'
  OBVIOUS
<1>1. /\ num_tries \in [1..Len(servers) -> Nat] /\ total_tries \in Int
      /\ fd \in BOOLEAN /\ response \in Replies \cup {NoReply}
      /\ rcvbuf \in Seq(Replies)
  BY DEF SendTypeOK
<1>2. /\ "reply" \in Results /\ "io_error" \in Results /\ "crash" \in Results
      /\ ret \in Results
  BY DEF Results, SendTypeOK, RequestTypeOK
<1>3. CASE Timeout
  <2>1. TransmitTyped
    BY <1>3, TryAgainType DEF Timeout
  <2> QED BY <1>1, <1>3, <2>1, StepType DEF Timeout
<1>4. CASE ReceiveInvalid
  <2>1. TransmitTyped
    BY <1>4, TryAgainType DEF ReceiveInvalid, Receive
  <2>2. response' \in Replies /\ rcvbuf' \in Seq(Replies)
    BY <1>4, ReceiveBufferType DEF ReceiveInvalid, Receive
  <2> QED BY <1>1, <1>4, <2>1, <2>2, StepType DEF ReceiveInvalid
<1>5. CASE ReceiveValid
  <2>1. TransmitTyped
    BY <1>1, <1>2, <1>5, NoTransmitType DEF ReceiveValid, Receive
  <2>2. response' \in Replies /\ rcvbuf' \in Seq(Replies)
    BY <1>5, ReceiveBufferType DEF ReceiveValid, Receive
  <2> QED BY <1>1, <1>5, <2>1, <2>2, StepType DEF ReceiveValid
<1>6. CASE WaitFails
  <2>1. TransmitTyped
    BY <1>1, <1>2, <1>6, NoTransmitType DEF WaitFails
  <2> QED BY <1>1, <1>6, <2>1, StepType DEF WaitFails
<1>7. CASE ReceiveShort
  <2>1. TransmitTyped
    BY <1>1, <1>2, <1>7, NoTransmitType DEF ReceiveShort
  <2>2. response' \in Replies /\ rcvbuf' \in Seq(Replies)
    BY <1>7, ReceiveBufferType DEF ReceiveShort, Receive
  <2> QED BY <1>1, <1>7, <2>1, <2>2, StepType DEF ReceiveShort
<1> QED BY <1>3, <1>4, <1>5, <1>6, <1>7 DEF Wait

(* Datagrams that arrive.                                                    *)
LEMMA NetworkType == SendTypeOK /\ Network => SendTypeOK'
<1> SUFFICES ASSUME SendTypeOK, Network
             PROVE  SendTypeOK'
  OBVIOUS
<1>1. ASSUME NEW from \in Addrs, NEW c \in 0..255, NEW a \in Auths,
             NEW secret \in Secrets \cup {NoSecret}, NEW size \in Nat \X Nat,
             Arrive(from, c, a, secret, size)
      PROVE  SendTypeOK'
  <2>1. [from |-> from, got |-> size[1], length |-> size[2], code |-> c,
         auth |-> a, secret |-> secret] \in Replies
    BY DEF Replies
  <2>2. rcvbuf \in Seq(Replies)
    BY DEF SendTypeOK
  <2>3. rcvbuf' \in Seq(Replies)
    BY <1>1, <2>1, <2>2 DEF Arrive
  <2>4. RequestTypeOK'
    BY <1>1 DEF Arrive, SendTypeOK, RequestTypeOK, requestVars
  <2> QED BY <1>1, <2>3, <2>4 DEF Arrive, SendTypeOK, handleVars
<1>2. \A d \in sent : /\ d.dst.addr \in Addrs /\ d.dst.secret \in Secrets
                      /\ d.auth \in Auths
  BY ServerFields DEF SendTypeOK, Datagrams
<1>3. \A c \in ReplyCodes : c \in 0..255
  BY SendAssumption
<1>4. \A size \in ReplySizes : size \in Nat \X Nat
  BY SendAssumption
<1>5. \A t \in Strays : t[1] \in Addrs /\ t[2] \in Secrets \cup {NoSecret}
  BY SendAssumption
<1>6. CASE Answer
  BY <1>1, <1>2, <1>3, <1>4, <1>6 DEF Answer
<1>7. CASE Stray
  BY <1>1, <1>2, <1>3, <1>4, <1>5, <1>7 DEF Stray
<1> QED BY <1>6, <1>7 DEF Network

(* The types hold initially.                                                 *)
LEMMA SendInitType == SendInit => SendTypeOK
<1> SUFFICES ASSUME SendInit
             PROVE  SendTypeOK
  OBVIOUS
<1>1. RequestTypeOK
  BY InitType DEF SendInit
<1>2. servers \in Seq(Servers) /\ rcvbuf \in Seq(Replies) /\ Len(servers) = 0
  BY DEF SendInit
<1>3. num_tries \in [1..Len(servers) -> Nat]
  BY <1>2 DEF SendInit
<1>4. pass_key \in Keys
  BY DEF SendInit, NoKey, Keys
<1>5. 0 <= MAXSERVERS
  BY SendAssumption
<1>6. Len(servers) <= MAXSERVERS
  BY <1>2, <1>5
<1>7. srv \in Nat \ {0} /\ try \in Nat /\ total_tries \in Int
  BY DEF SendInit
<1>8. fd \in BOOLEAN
  BY DEF SendInit
<1>9. response \in Replies \cup {NoReply}
  BY DEF SendInit
<1>10. /\ sent \subseteq Datagrams
       /\ pc \in {"idle", "select", "spin"} /\ pc # "select"
  BY <1>5 DEF SendInit
<1> QED BY <1>1, <1>2, <1>3, <1>4, <1>6, <1>7, <1>8, <1>9, <1>10 DEF SendTypeOK

(* The handle, its socket and the datagrams keep their types for every size  *)
(* of the server table, every menu of servers (negative limits of tries      *)
(* included), and every network: while rad_send_request waits, srv is an     *)
(* index into the table.                                                     *)
THEOREM SendTypeCorrect == SendSpec => []SendTypeOK
<1>1. SendInit => SendTypeOK
  BY SendInitType
<1>2. SendTypeOK /\ [SendNext]_vars => SendTypeOK'
  <2>1. SendTypeOK /\ UNCHANGED vars => SendTypeOK'
    BY DEF SendTypeOK, RequestTypeOK, vars, requestVars, handleVars
  <2>2. SendTypeOK /\ SendNext => SendTypeOK'
    BY <2>1, AddServerType, BuildRequestType, CallType, WaitType, NetworkType
       DEF SendNext, Call, Over
  <2> QED BY <2>1, <2>2
<1> QED BY <1>1, <1>2, PTL DEF SendSpec

-----------------------------------------------------------------------------
(* Failover.                                                                 *)

LimitsAreNatural == \A s \in ServerMenu : s.max_tries \in Nat

TableIsNatural ==
  \A i \in 1..Len(servers) : servers[i].max_tries \in Nat

(* The counters of tries inside a send, with a server and a number of        *)
(* transmissions: the servers before it are exhausted, the ones after it are *)
(* untouched, and the number is the tries of the ones before plus its own.   *)
CountersAgree(at, tries, count) ==
  /\ at \in 1..Len(servers)
  /\ \A i \in 1..Len(servers) : tries[i] <= servers[i].max_tries
  /\ \A i \in 1..(at - 1) : ~HasTriesLeft(i, tries)
  /\ \A i \in (at + 1)..Len(servers) : tries[i] = 0
  /\ count = TriesUpTo(servers)[at - 1] + tries[at]

(* The inductive invariant.                                                  *)
FailoverInv ==
  /\ TableIsNatural
  /\ pc # "spin"
  /\ \A i \in 1..Len(servers) : num_tries[i] <= servers[i].max_tries
  /\ pc = "select" => /\ CountersAgree(srv, num_tries, try)
                      /\ num_tries[srv] > 0
                      /\ total_tries = TotalTries(servers)
  /\ ret = "no_valid_response" =>
       \A i \in 1..Len(servers) : ~HasTriesLeft(i, num_tries)

-----------------------------------------------------------------------------
(* Sums over a table with natural limits.                                    *)

(* The partial sums of the table's limits follow their recursion.            *)
LEMMA TableSums ==
  ASSUME SendTypeOK, TableIsNatural
  PROVE  /\ Len(servers) \in Nat
         /\ \A i \in 0..Len(servers) : TriesUpTo(servers)[i] \in Int
         /\ TriesUpTo(servers)[0] = 0
         /\ \A i \in 1..Len(servers) :
              TriesUpTo(servers)[i] = TriesUpTo(servers)[i - 1] + servers[i].max_tries
<1>1. Len(servers) \in Nat
  BY ServersAreTyped
<1>2. \A i \in 1..Len(servers) : servers[i].max_tries \in Int
  BY DEF TableIsNatural
<1> QED BY <1>1, <1>2, TriesUpToStep

(* With no server left to try, the tries made are all there were.            *)
LEMMA ExhaustedMeansTotal ==
  ASSUME SendTypeOK, TableIsNatural, NEW at, NEW tries \in [1..Len(servers) -> Nat],
         NEW count, CountersAgree(at, tries, count),
         \A i \in 1..Len(servers) : ~HasTriesLeft(i, tries)
  PROVE  count = TotalTries(servers)
<1> DEFINE t == TriesUpTo(servers)
           n == Len(servers)
<1>1. /\ n \in Nat /\ \A i \in 0..n : t[i] \in Int
      /\ \A i \in 1..n : t[i] = t[i - 1] + servers[i].max_tries
  BY TableSums
<1>2. at \in 1..n /\ tries[at] <= servers[at].max_tries /\ count = t[at - 1] + tries[at]
  BY DEF CountersAgree
<1>3. \A i \in 1..n : tries[i] \in Nat /\ servers[i].max_tries \in Nat
  BY DEF TableIsNatural
<1>4. \A i \in 1..n : tries[i] >= servers[i].max_tries
  BY <1>3 DEF HasTriesLeft
<1>5. \A i \in (at + 1)..n : i \in 1..n /\ tries[i] = 0
  BY <1>1, <1>2 DEF CountersAgree
<1>6. \A i \in (at + 1)..n : servers[i].max_tries = 0
  BY <1>3, <1>4, <1>5
<1>7. \A i \in 1..n : servers[i].max_tries \in Int
  BY <1>3
<1>8. t[n] = t[at]
  <2>1. at \in 0..n /\ n \in 0..n /\ at <= n
    BY <1>1, <1>2
  <2> QED BY <1>1, <1>6, <1>7, <2>1, TriesUpToFlat
<1>9. tries[at] = servers[at].max_tries
  BY <1>2, <1>3, <1>4
<1>10. t[at] = count
  BY <1>1, <1>2, <1>9
<1> QED BY <1>8, <1>10 DEF TotalTries

(* With all the tries made, no server has any left.                          *)
LEMMA TotalMeansExhausted ==
  ASSUME SendTypeOK, TableIsNatural, NEW at, NEW tries \in [1..Len(servers) -> Nat],
         NEW count, CountersAgree(at, tries, count), count = TotalTries(servers)
  PROVE  \A i \in 1..Len(servers) : ~HasTriesLeft(i, tries)
<1> DEFINE t == TriesUpTo(servers)
           n == Len(servers)
<1>1. /\ n \in Nat /\ \A i \in 0..n : t[i] \in Int
      /\ \A i \in 1..n : t[i] = t[i - 1] + servers[i].max_tries
  BY TableSums
<1>2. at \in 1..n /\ tries[at] <= servers[at].max_tries /\ count = t[at - 1] + tries[at]
  BY DEF CountersAgree
<1>3. \A i \in 1..n : tries[i] \in Nat /\ servers[i].max_tries \in Nat
  BY DEF TableIsNatural
<1>4. \A a, b \in 0..n : a <= b => t[a] <= t[b]
  BY <1>1, <1>3, TriesUpToMonotonic
<1>5. t[n] = t[at - 1] + tries[at]
  BY <1>2 DEF TotalTries
<1> SUFFICES ASSUME NEW i \in 1..n
             PROVE  ~HasTriesLeft(i, tries)
  OBVIOUS
<1> HIDE DEF t
<1>6. CASE i < at
  BY <1>2, <1>6 DEF CountersAgree
<1>7. CASE i = at
  <2>1. t[at] <= t[n]
    BY <1>1, <1>2, <1>4
  <2>2. t[at] = t[at - 1] + servers[at].max_tries
    BY <1>1, <1>2
  <2>3. t[at - 1] \in Int
    BY <1>1, <1>2
  <2>4. servers[at].max_tries <= tries[at]
    BY <1>2, <1>3, <1>5, <2>1, <2>2, <2>3
  <2> QED BY <1>2, <1>3, <1>7, <2>4 DEF HasTriesLeft
<1>8. CASE i > at
  <2>1. t[i] <= t[n] /\ t[at] <= t[i - 1]
    BY <1>1, <1>2, <1>4, <1>8
  <2>2. t[i] = t[i - 1] + servers[i].max_tries
    BY <1>1
  <2>3. t[at] = t[at - 1] + servers[at].max_tries
    BY <1>1, <1>2
  <2>4. t[i - 1] \in Int /\ t[at - 1] \in Int /\ t[at] \in Int
    BY <1>1, <1>2
  <2>5. tries[at] \in Nat /\ servers[at].max_tries \in Nat /\ servers[i].max_tries \in Nat
    BY <1>2, <1>3
  <2>6. t[n] <= t[i - 1]
    <3>1. tries[at] <= servers[at].max_tries
      BY <1>2
    <3>2. t[n] <= t[at]
      BY <1>5, <2>3, <2>4, <2>5, <3>1
    <3>3. t[n] \in Int
      BY <1>1
    <3> QED BY <2>1, <2>4, <3>2, <3>3
  <2>7. t[i - 1] + servers[i].max_tries <= t[i - 1]
    <3>1. t[n] \in Int
      BY <1>1
    <3> QED BY SMTT(30), <2>1, <2>2, <2>4, <2>5, <2>6, <3>1
  <2>8. servers[i].max_tries <= 0
    BY <2>4, <2>5, <2>7
  <2> QED BY <1>3, <2>8 DEF HasTriesLeft
<1> QED BY <1>1, <1>2, <1>6, <1>7, <1>8

-----------------------------------------------------------------------------
(* A transmission keeps the counters in agreement, and finds a server.       *)
LEMMA TransmitKeepsOrder ==
  ASSUME SendTypeOK, TableIsNatural, NEW from, NEW tries \in [1..Len(servers) -> Nat],
         NEW count \in Nat, CountersAgree(from, tries, count),
         count # TotalTries(servers), Transmit(from, tries, count),
         servers' = servers
  PROVE  /\ pc' # "spin" /\ ret' # "no_valid_response"
         /\ \A i \in 1..Len(servers) : num_tries'[i] <= servers[i].max_tries
         /\ pc' = "select" => /\ CountersAgree(srv, num_tries, try)'
                              /\ num_tries'[srv'] > 0
<1> DEFINE t == TriesUpTo(servers)
           n == Len(servers)
<1>1. /\ n \in Nat /\ \A i \in 0..n : t[i] \in Int
      /\ \A i \in 1..n : t[i] = t[i - 1] + servers[i].max_tries
  BY TableSums
<1>2. from \in 1..n /\ count = t[from - 1] + tries[from]
  BY DEF CountersAgree
<1>3. \A i \in 1..n : /\ tries[i] \in Nat /\ servers[i].max_tries \in Nat
                      /\ tries[i] <= servers[i].max_tries
  BY DEF TableIsNatural, CountersAgree
<1>4. \E i \in 1..n : HasTriesLeft(i, tries)
  BY ExhaustedMeansTotal
<1>5. PICK next : next = NextServer(from, tries)
  OBVIOUS
<1>6. /\ next \in 1..n /\ HasTriesLeft(next, tries)
      /\ \A j \in 1..n : HasTriesLeft(j, tries) => Steps(from, next) <= Steps(from, j)
  <2>1. servers \in Seq(Servers)
    BY DEF SendTypeOK
  <2> QED BY <1>2, <1>4, <1>5, <2>1, NextServerIsFirst
<1>7. next >= from
  <2>1. ~(next < from)
    BY <1>1, <1>2, <1>6 DEF CountersAgree
  <2> QED BY <1>1, <1>2, <1>6, <2>1
<1>8. \A j \in from..(next - 1) : ~HasTriesLeft(j, tries)
  <2> SUFFICES ASSUME NEW j \in from..(next - 1), HasTriesLeft(j, tries)
               PROVE  FALSE
    OBVIOUS
  <2>1. j \in 1..n /\ from <= j /\ j < next
    BY <1>1, <1>2, <1>6
  <2>2. Steps(from, next) = next - from /\ Steps(from, j) = j - from
    BY <1>2, <1>6, <1>7, <2>1 DEF Steps
  <2>3. next - from <= j - from
    BY <1>6, <2>1, <2>2
  <2> QED BY <1>2, <1>6, <2>1, <2>3
<1>9. \A i \in 1..(next - 1) : ~HasTriesLeft(i, tries)
  BY <1>2, <1>6, <1>8 DEF CountersAgree
<1>10. \A i \in (next + 1)..n : tries[i] = 0
  BY <1>1, <1>2, <1>6, <1>7 DEF CountersAgree
<1>11. count = t[next - 1] + tries[next]
  <2>1. CASE next = from
    BY <1>2, <2>1
  <2>2. CASE next > from
    <3>1. tries[next] = 0
      BY <1>1, <1>2, <1>6, <2>2 DEF CountersAgree
    <3>2. tries[from] = servers[from].max_tries
      <4>1. ~HasTriesLeft(from, tries)
        BY <1>2, <1>6, <1>8, <2>2
      <4> QED BY <1>2, <1>3, <4>1 DEF HasTriesLeft
    <3>3. t[from] = count
      BY <1>1, <1>2, <3>2
    <3>4. \A i \in (from + 1)..(next - 1) : servers[i].max_tries = 0
      <4> SUFFICES ASSUME NEW i \in (from + 1)..(next - 1)
                   PROVE  servers[i].max_tries = 0
        OBVIOUS
      <4>1. i \in 1..n /\ i \in from..(next - 1) /\ i \in (from + 1)..n
        BY <1>1, <1>2, <1>6
      <4>2. tries[i] = 0 /\ ~HasTriesLeft(i, tries)
        BY <1>8, <4>1 DEF CountersAgree
      <4> QED BY <1>3, <4>1, <4>2 DEF HasTriesLeft
    <3>5. t[next - 1] = t[from]
      <4>1. from \in 0..n /\ next - 1 \in 0..n /\ from <= next - 1
        BY <1>1, <1>2, <1>6, <2>2
      <4>2. \A i \in 1..n : servers[i].max_tries \in Int
        BY <1>3
      <4> QED BY <1>1, <3>4, <4>1, <4>2, TriesUpToFlat
    <3> QED BY <3>1, <3>3, <3>5
  <2> QED BY <1>2, <1>6, <1>7, <2>1, <2>2
<1>12. /\ srv' = next
       /\ \/ /\ num_tries' = [tries EXCEPT ![next] = @ + 1]
             /\ try' = count + 1 /\ pc' = "select" /\ ret' = "none"
          \/ num_tries' = tries /\ pc' = "idle" /\ ret' = "io_error"
  BY <1>4, <1>5 DEF Transmit
<1>13. CASE num_tries' = tries /\ pc' = "idle" /\ ret' = "io_error"
  BY <1>3, <1>13
<1>14. CASE /\ num_tries' = [tries EXCEPT ![next] = @ + 1]
            /\ try' = count + 1 /\ pc' = "select" /\ ret' = "none"
  <2>1. \A i \in 1..n : num_tries'[i] = IF i = next THEN tries[i] + 1 ELSE tries[i]
    BY <1>6, <1>14
  <2>2. tries[next] < servers[next].max_tries
    BY <1>6 DEF HasTriesLeft
  <2>3. \A i \in 1..n : num_tries'[i] <= servers[i].max_tries
    BY SMTT(30), <1>3, <1>6, <2>1, <2>2
  <2>4. \A i \in 1..(next - 1) : num_tries'[i] = tries[i] /\ ~HasTriesLeft(i, tries)
    BY <1>6, <1>9, <2>1
  <2>5. \A i \in (next + 1)..n : num_tries'[i] = 0
    BY <1>6, <1>10, <2>1
  <2>6. try' = t[next - 1] + num_tries'[next]
    <3>1. t[next - 1] \in Int /\ tries[next] \in Nat
      BY <1>1, <1>3, <1>6
    <3>2. num_tries'[next] = tries[next] + 1 /\ try' = count + 1
      BY <1>6, <1>14, <2>1
    <3> HIDE DEF t
    <3> QED BY <1>11, <3>1, <3>2
  <2>7. num_tries'[srv'] > 0
    BY <1>3, <1>6, <1>12, <2>1
  <2>8. CountersAgree(srv, num_tries, try)'
    <3>1. \A i \in 1..(next - 1) : ~HasTriesLeft(i, num_tries)'
      BY <2>4 DEF HasTriesLeft
    <3> QED BY <1>6, <1>12, <2>3, <2>5, <2>6, <3>1 DEF CountersAgree
  <2> QED BY <1>14, <2>3, <2>7, <2>8
<1> QED BY <1>12, <1>13, <1>14

-----------------------------------------------------------------------------
(* The invariant is inductive.                                               *)

(* A step outside of select that keeps the table and the counters.           *)
LEMMA IdleStep ==
  ASSUME FailoverInv, servers' = servers, pc' = "idle",
         num_tries' = num_tries \/ num_tries' = NoTries,
         ret' = "no_valid_response" => ret = "no_valid_response" /\ num_tries' = num_tries
  PROVE  FailoverInv'
<1>1. TableIsNatural'
  BY DEF FailoverInv, TableIsNatural
<1>2. \A i \in 1..Len(servers) : num_tries'[i] <= servers[i].max_tries
  BY DEF FailoverInv, TableIsNatural, NoTries
<1>3. ret' = "no_valid_response" =>
        \A i \in 1..Len(servers) : ~HasTriesLeft(i, num_tries)'
  BY DEF FailoverInv, HasTriesLeft
<1> QED BY <1>1, <1>2, <1>3 DEF FailoverInv

(* A server added while idle keeps the counters in order.                    *)
LEMMA AddServerOrder ==
  ASSUME LimitsAreNatural, SendTypeOK, FailoverInv, AddServer
  PROVE  FailoverInv'
<1>1. pc' = "idle" /\ ret' \in {"ok", "refused"}
  BY DEF AddServer
<1>2. CASE UNCHANGED <<servers, num_tries>>
  BY <1>1, <1>2, IdleStep
<1>3. ASSUME NEW s \in ServerMenu, servers' = Append(servers, s),
             num_tries' = Append(num_tries, 0)
      PROVE  FailoverInv'
  <2>1. /\ servers \in Seq(Servers) /\ s \in Servers /\ s.max_tries \in Nat
        /\ num_tries \in [1..Len(servers) -> Nat]
    BY SendAssumption DEF SendTypeOK, LimitsAreNatural
  <2>2. num_tries \in Seq(Nat) /\ Len(num_tries) = Len(servers)
    BY <2>1
  <2>3. Len(servers') = Len(servers) + 1
    BY <1>3, <2>1
  <2>4. \A i \in 1..Len(servers') :
          IF i = Len(servers) + 1
            THEN servers'[i] = s /\ num_tries'[i] = 0
            ELSE /\ i \in 1..Len(servers)
                 /\ servers'[i] = servers[i] /\ num_tries'[i] = num_tries[i]
    BY <1>3, <2>1, <2>2, <2>3
  <2>5. TableIsNatural'
    BY <2>1, <2>4 DEF FailoverInv, TableIsNatural
  <2>6. \A i \in 1..Len(servers') : num_tries'[i] <= servers'[i].max_tries
    BY <2>1, <2>4 DEF FailoverInv
  <2> QED BY <1>1, <2>5, <2>6 DEF FailoverInv
<1> QED BY <1>2, <1>3 DEF AddServer

(* A send starts with no tries used at all.                                  *)
LEMMA SendOrder ==
  ASSUME SendTypeOK, FailoverInv, Send
  PROVE  FailoverInv'
<1>1. /\ servers' = servers /\ TotalTries(servers) # 0
      /\ total_tries' = TotalTries(servers) /\ Transmit(1, NoTries, 0)
  BY DEF Send
<1>2. TableIsNatural
  BY DEF FailoverInv
<1>3. Len(servers) \in Nat /\ TriesUpTo(servers)[0] = 0
  BY <1>2, TableSums
<1>4. 1 \in 1..Len(servers)
  <2>1. Len(servers) # 0
    BY <1>1, <1>3 DEF TotalTries
  <2> QED BY <1>3, <2>1
<1>5. NoTries \in [1..Len(servers) -> Nat] /\ \A i \in 1..Len(servers) : NoTries[i] = 0
  BY DEF NoTries
<1>6. CountersAgree(1, NoTries, 0)
  <2>1. \A i \in 1..Len(servers) : NoTries[i] <= servers[i].max_tries
    BY <1>2, <1>5 DEF TableIsNatural
  <2>2. 1 - 1 = 0 /\ 0 = TriesUpTo(servers)[0] + NoTries[1]
    BY <1>3, <1>4, <1>5
  <2>3. \A i \in (1 + 1)..Len(servers) : NoTries[i] = 0
    BY <1>3, <1>5
  <2> QED BY <1>4, <2>1, <2>2, <2>3 DEF CountersAgree
<1>7. /\ pc' # "spin" /\ ret' # "no_valid_response"
      /\ \A i \in 1..Len(servers) : num_tries'[i] <= servers[i].max_tries
      /\ pc' = "select" => CountersAgree(srv, num_tries, try)' /\ num_tries'[srv'] > 0
  BY <1>1, <1>2, <1>5, <1>6, TransmitKeepsOrder
<1>8. TableIsNatural' /\ TotalTries(servers)' = TotalTries(servers)
  BY <1>1, <1>2 DEF TableIsNatural
<1> QED BY <1>1, <1>7, <1>8 DEF FailoverInv

(* Another try is counted with the server it goes to, and with the whole.    *)
LEMMA TryAgainOrder ==
  ASSUME SendTypeOK, FailoverInv, pc = "select", TryAgain,
         servers' = servers, total_tries' = total_tries
  PROVE  FailoverInv'
<1>1. /\ TableIsNatural /\ CountersAgree(srv, num_tries, try)
      /\ total_tries = TotalTries(servers)
  BY DEF FailoverInv
<1>2. num_tries \in [1..Len(servers) -> Nat] /\ try \in Nat
  BY DEF SendTypeOK
<1>3. TableIsNatural' /\ TotalTries(servers)' = TotalTries(servers)
  BY <1>1 DEF TableIsNatural
<1>4. CASE try = total_tries /\ pc' = "idle" /\ num_tries' = num_tries
  <2>1. \A i \in 1..Len(servers) : ~HasTriesLeft(i, num_tries)
    BY <1>1, <1>2, <1>4, TotalMeansExhausted
  <2>2. \A i \in 1..Len(servers) : ~HasTriesLeft(i, num_tries)'
    BY <1>4, <2>1 DEF HasTriesLeft
  <2> QED BY <1>3, <1>4, <2>2 DEF FailoverInv
<1>5. CASE try # total_tries /\ Transmit(srv, num_tries, try)
  <2>1. /\ pc' # "spin" /\ ret' # "no_valid_response"
        /\ \A i \in 1..Len(servers) : num_tries'[i] <= servers[i].max_tries
        /\ pc' = "select" => CountersAgree(srv, num_tries, try)' /\ num_tries'[srv'] > 0
    BY <1>1, <1>2, <1>5, TransmitKeepsOrder
  <2> QED BY <1>1, <1>3, <2>1 DEF FailoverInv
<1> QED BY <1>4, <1>5 DEF TryAgain

(* A step that changes nothing the invariant speaks of, except perhaps ret.  *)
LEMMA UnchangedOrder ==
  ASSUME FailoverInv, UNCHANGED <<servers, num_tries, srv, try, total_tries, pc>>,
         ret' = "no_valid_response" => ret = "no_valid_response"
  PROVE  FailoverInv'
BY DEF FailoverInv, TableIsNatural, CountersAgree, HasTriesLeft

(* The invariant is inductive.                                               *)
LEMMA FailoverStep ==
  ASSUME LimitsAreNatural, SendTypeOK, FailoverInv, SendNext
  PROVE  FailoverInv'
<1>1. CASE AddServer
  BY <1>1, AddServerOrder
<1>2. CASE BuildRequest
  <2>1. ret' # "no_valid_response"
    BY <1>2, BuildResult DEF BuildRequest, Failures
  <2> QED BY <1>2, <2>1, UnchangedOrder DEF BuildRequest
<1>3. CASE SendWithoutSocket
  BY <1>3, UnchangedOrder DEF SendWithoutSocket, handleVars
<1>4. CASE SendRefused
  BY <1>4, UnchangedOrder DEF SendRefused
<1>5. CASE SendNoServers
  BY <1>5, IdleStep DEF SendNoServers
<1>6. CASE Send
  BY <1>6, SendOrder
<1>7. CASE Timeout
  BY <1>7, TryAgainOrder DEF Timeout
<1>8. CASE ReceiveInvalid
  BY <1>8, TryAgainOrder DEF ReceiveInvalid, Receive
<1>9. CASE ReceiveValid
  <2>1. CASE pc' = "idle" /\ ret' = "reply"
    BY <1>9, <2>1, IdleStep DEF ReceiveValid
  <2>2. CASE UNCHANGED <<pc, ret>>
    BY <1>9, <2>2, UnchangedOrder DEF ReceiveValid
  <2> QED BY <1>9, <2>1, <2>2 DEF ReceiveValid
<1>10. CASE WaitFails
  BY <1>10, IdleStep DEF WaitFails
<1>11. CASE Network
  <2>1. UNCHANGED <<servers, num_tries, srv, try, total_tries, pc, ret>>
    BY <1>11 DEF Network, Answer, Stray, Arrive, handleVars, requestVars
  <2> QED BY <2>1, UnchangedOrder
<1>12. CASE ReceiveShort
  BY <1>12, IdleStep DEF ReceiveShort
<1>13. CASE Over
  BY <1>13, UnchangedOrder DEF Over, vars, requestVars, handleVars
<1> QED BY <1>1, <1>2, <1>3, <1>4, <1>5, <1>6, <1>7, <1>8, <1>9, <1>10, <1>11, <1>12, <1>13
        DEF SendNext, Call, Wait

(* The empty table has no counters.                                          *)
LEMMA FailoverInit == SendInit => FailoverInv
<1> SUFFICES ASSUME SendInit
             PROVE  FailoverInv
  OBVIOUS
<1>1. Len(servers) = 0 /\ pc = "idle" /\ ret = "none"
  BY DEF SendInit, Init
<1> QED BY <1>1 DEF FailoverInv, TableIsNatural

(* The counters agree in every reachable state, if no limit is negative.     *)
LEMMA FailoverInvariant ==
  ASSUME LimitsAreNatural
  PROVE  SendSpec => []FailoverInv
<1>1. SendInit => FailoverInv
  BY FailoverInit
<1>2. SendTypeOK /\ FailoverInv /\ [SendNext]_vars => FailoverInv'
  <2>1. SendTypeOK /\ FailoverInv /\ SendNext => FailoverInv'
    BY FailoverStep
  <2>2. FailoverInv /\ UNCHANGED vars => FailoverInv'
    BY UnchangedOrder DEF vars, requestVars, handleVars
  <2> QED BY <2>1, <2>2
<1> QED BY <1>1, <1>2, SendTypeCorrect, PTL DEF SendSpec

-----------------------------------------------------------------------------
(* While rad_send_request waits, the servers before the current one are      *)
(* exhausted, the current one has been tried and the later ones have not.    *)
THEOREM FailoverIsInOrder ==
  ASSUME LimitsAreNatural
  PROVE  SendSpec => []FailoverInOrder
<1>1. FailoverInv => FailoverInOrder
  BY DEF FailoverInv, FailoverInOrder, CountersAgree
<1> QED BY <1>1, FailoverInvariant, PTL

(* No server is tried more often than its limit, and giving up for want of   *)
(* an answer means that every server was tried as often as its limit.        *)
THEOREM TriesAreExact ==
  ASSUME LimitsAreNatural
  PROVE  SendSpec => []TriesAreUsedExactly
<1>1. FailoverInv => TriesAreUsedExactly
  BY DEF FailoverInv, TriesAreUsedExactly
<1> QED BY <1>1, FailoverInvariant, PTL

(* The comment in rad_continue_send_request, "There is guaranteed to be one, *)
(* or we would have exited this loop by now", for every table of servers     *)
(* without negative limits.                                                  *)
THEOREM ScanAlwaysFindsServer ==
  ASSUME LimitsAreNatural
  PROVE  SendSpec => []ScanFindsServer
<1>1. FailoverInv => ScanFindsServer
  BY DEF FailoverInv, ScanFindsServer
<1> QED BY <1>1, FailoverInvariant, PTL
=============================================================================
