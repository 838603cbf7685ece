--------------------------- MODULE ExchangeProofs ---------------------------
(* What is on the wire and what is accepted from it: every datagram was made *)
(* for its destination from a created request, passwords open where they     *)
(* arrive, only an answer to the request in the buffer is accepted, and the  *)
(* library implements the exchange RadExchange describes.                    *)
EXTENDS RadSendProofs, RadRefinement

(* What a transmission finds in the request buffer.                          *)
BufferInv ==
  /\ request_created <=> nonce > 0
  /\ code \notin AuthenticatorAtSend => auth = Random(nonce)
  /\ pass_key # NoKey => pass_pos # 0 /\ code \notin AuthenticatorAtSend
  /\ pc = "select" => PasswordsFit /\ ret = "none"

(* The digest a server computes of a datagram.                               *)
DigestOf(d) ==
  [md5 |-> [code |-> d.code, ident |-> d.ident, attrs |-> d.attrs,
            secret |-> d.dst.secret]]

(* A datagram was made for its destination from a created request, and the   *)
(* one in the buffer has only had passwords added since.                     *)
MadeFromRequest(d) ==
  /\ d.gen \in 1..nonce
  /\ d.auth = IF d.code \in AuthenticatorAtSend THEN DigestOf(d) ELSE Random(d.gen)
  /\ d.pass # NoKey =>
       /\ d.code \notin AuthenticatorAtSend
       /\ d.pass = [secret |-> d.dst.secret, nonce |-> d.gen]
  /\ d.gen = nonce =>
       /\ d.code = code /\ d.ident = ident
       /\ d.pass # NoKey => pass_pos # 0
       /\ d.pass = NoKey => code \in AuthenticatorAtSend \/ chap_pass

(* Two datagrams of one request agree on all but attributes put in between   *)
(* and what depends on the destination.                                      *)
AgreeOnRequest(d, e) ==
  d.gen = e.gen =>
    d.code = e.code /\ d.ident = e.ident /\ (d.pass = NoKey <=> e.pass = NoKey)

(* The server whose answer is waited for was sent what is in the buffer.     *)
CurrentWasAsked ==
  pc = "select" =>
    \E d \in sent :
      /\ d.gen = nonce /\ d.dst = servers[srv]
      /\ d.auth = auth /\ d.attrs = attrs

(* The inductive invariant.                                                  *)
DatagramInv ==
  /\ BufferInv
  /\ \A d \in sent : MadeFromRequest(d)
  /\ \A d, e \in sent : AgreeOnRequest(d, e)
  /\ CurrentWasAsked
  /\ AcceptedAnswerIsOurs

(* With it, for passwords: a datagram with a placeholder has it filled, and  *)
(* one with CHAP credentials has none and is an access request.              *)
PasswordsInv ==
  /\ CredentialsInv
  /\ \A d \in sent :
       /\ Carries(d, IsPassword) => d.pass # NoKey
       /\ Carries(d, IsChap) => d.pass = NoKey /\ d.code \notin AuthenticatorAtSend

-----------------------------------------------------------------------------
(* The kinds of steps.                                                       *)

(* A transmission of the request in the buffer.                              *)
Transmission(s) ==
  /\ PasswordsFit /\ pc \in {"idle", "select"}
  /\ RequestUnchanged /\ servers' = servers
  /\ srv' \in 1..Len(servers) /\ servers[srv'] = s
  /\ auth' = AuthFor(s) /\ attrs' = AttrsSent /\ pass_key' = PassKeyFor(s)
  /\ \/ sent' = sent \cup {DatagramFor(s)} /\ pc' = "select" /\ ret' = "none"
     \/ UNCHANGED sent /\ pc' = "idle" /\ ret' = "io_error"

(* A step that neither builds nor sends nor accepts.                         *)
Quiet ==
  /\ RequestUnchanged
  /\ UNCHANGED <<auth, attrs, pass_key, sent>>
  /\ pc' = "select" => pc = "select" /\ UNCHANGED <<servers, srv, ret>>
  /\ ret' = "reply" => UNCHANGED <<ret, servers, srv, response>>

Acceptance ==
  /\ pc = "select" /\ pc' = "idle" /\ ret' = "reply"
  /\ RequestUnchanged
  /\ UNCHANGED <<auth, attrs, pass_key, sent, servers, srv>>
  /\ response'.from = servers[srv].addr
  /\ response'.auth = auth
  /\ response'.secret = servers[srv].secret

(* A send or a further try that scans for a server transmits to one, or is   *)
(* quiet when the scan cannot end.                                           *)
LEMMA SendingKinds ==
  ASSUME SendTypeOK, PasswordsFit, pc \in {"idle", "select"},
         RequestUnchanged, servers' = servers,
         NEW from \in Nat \ {0}, Len(servers) > 0 => from <= Len(servers),
         NEW tries \in [1..Len(servers) -> Nat], NEW count, Transmit(from, tries, count)
  PROVE  Quiet \/ \E s \in Servers : Transmission(s)
<1>1. CASE /\ pc' = "spin" /\ ret' = "none"
           /\ UNCHANGED <<srv, auth, attrs, pass_key, sent>>
  BY <1>1 DEF Quiet
<1>2. ASSUME NEW at \in 1..Len(servers), NEW s \in Servers, TransmitTo(at, s, tries, count)
      PROVE  Transmission(s)
  BY <1>2 DEF TransmitTo, Transmission
<1> QED BY <1>1, <1>2, TransmitCases

(* What follows a timeout or an invalid datagram transmits, or gives up      *)
(* quietly.                                                                  *)
LEMMA TryAgainKinds ==
  ASSUME SendTypeOK, BufferInv, pc = "select", TryAgain, RequestUnchanged,
         servers' = servers
  PROVE  Quiet \/ \E s \in Servers : Transmission(s)
<1>1. /\ srv \in Nat \ {0} /\ srv <= Len(servers) /\ PasswordsFit
      /\ num_tries \in [1..Len(servers) -> Nat]
  BY DEF SendTypeOK, BufferInv
<1>2. CASE Transmit(srv, num_tries, try)
  BY <1>1, <1>2, SendingKinds
<1>3. CASE /\ pc' = "idle"
           /\ ret' = "no_valid_response"
           /\ UNCHANGED <<srv, num_tries, try, auth, attrs, pass_key, sent>>
  BY <1>3 DEF Quiet
<1> QED BY <1>2, <1>3 DEF TryAgain

(* Every step builds, transmits, accepts an answer, or is quiet.             *)
LEMMA StepKinds ==
  ASSUME SendTypeOK, BufferInv, SendNext
  PROVE  BuildRequest \/ Quiet \/ Acceptance \/ \E s \in Servers : Transmission(s)
<1>1. CASE AddServer
  BY <1>1 DEF AddServer, Quiet, RequestUnchanged
<1>2. CASE SendWithoutSocket
  BY <1>2 DEF SendWithoutSocket, Quiet, handleVars
<1>3. CASE SendRefused
  BY <1>3 DEF SendRefused, Quiet
<1>4. CASE SendNoServers
  BY <1>4 DEF SendNoServers, Quiet
<1>5. CASE Send
  <2>1. NoTries \in [1..Len(servers) -> Nat] /\ (Len(servers) > 0 => 1 <= Len(servers))
    BY ServersAreTyped DEF NoTries
  <2> QED BY <1>5, <2>1, SendingKinds DEF Send
<1>6. CASE Timeout
  BY <1>6, TryAgainKinds DEF Timeout
<1>7. CASE ReceiveInvalid
  BY <1>7, TryAgainKinds DEF ReceiveInvalid, Receive
<1>8. CASE ReceiveValid
  <2>1. CASE response'.code = 0
    BY <1>8, <2>1 DEF ReceiveValid, Receive, BufferInv, Quiet
  <2>2. CASE response'.code # 0
    BY <1>8, <2>2 DEF ReceiveValid, Receive, IsValid, IsDigested, Acceptance
  <2> QED BY <2>1, <2>2
<1>9. CASE WaitFails
  BY <1>9 DEF WaitFails, Quiet
<1>10. CASE Network
  <2>1. UNCHANGED <<requestVars, handleVars>>
    BY <1>10 DEF Network, Answer, Stray, Arrive
  <2> QED BY <2>1 DEF requestVars, handleVars, Quiet, RequestUnchanged
<1>11. CASE ReceiveShort
  BY <1>11 DEF ReceiveShort, Quiet
<1>12. CASE Over
  BY <1>12 DEF Over, vars, requestVars, handleVars, Quiet, RequestUnchanged
<1> QED BY <1>1, <1>2, <1>3, <1>4, <1>5, <1>6, <1>7, <1>8, <1>9, <1>10, <1>11, <1>12
        DEF SendNext, Call, Wait

(* A call that builds: a new request, or one that only grows.                *)
LEMMA BuildKinds ==
  ASSUME SendTypeOK, BuildRequest
  PROVE  /\ ret' \in {"ok"} \cup Failures /\ sent' = sent
         /\ pc = "idle" /\ pc' = "idle"
         /\ \/ /\ request_created' /\ nonce' = nonce + 1 /\ auth' = Random(nonce')
               /\ pass_key' = NoKey /\ ret' = "ok"
            \/ /\ UNCHANGED <<request_created, nonce, code, ident, auth, pass_key>>
               /\ chap_pass => chap_pass'
               /\ pass_pos' # pass_pos => pass_pos = 0
<1>1. PICK secret \in Secrets \cup {NoSecret} : Build(secret)
  <2>1. ServerSecret \in Secrets \cup {NoSecret}
    BY ServerSecretType
  <2> QED BY <2>1 DEF BuildRequest
<1>2. ret' \in {"ok"} \cup Failures
  BY <1>1, BuildResult
<1>3. CASE \E c \in Codes : CreateRequest(c)
  <2>1. /\ request_created' /\ nonce' = nonce + 1 /\ auth' = Random(nonce')
        /\ ret' = "ok"
    BY <1>3 DEF CreateRequest
  <2>2. nonce' # nonce
    BY <2>1 DEF SendTypeOK, RequestTypeOK
  <2> QED BY <1>2, <2>1, <2>2 DEF BuildRequest
<1>4. CASE Fails
  BY <1>2, <1>4 DEF Fails, Fail, BuildRequest
<1>5. ASSUME NEW type \in Nat, NEW sub \in Nat \X Nat, NEW vlen \in Nat,
             NEW key \in Keys, ValuePut(type, sub, vlen, key)
      PROVE  /\ UNCHANGED <<request_created, nonce, code, ident, auth, pass_pos>>
             /\ chap_pass => chap_pass'
  BY <1>5 DEF ValuePut
<1>6. ASSUME NEW padded \in 16..PASSSIZE, PasswordPut(padded)
      PROVE  /\ UNCHANGED <<request_created, nonce, code, ident, auth, chap_pass>>
             /\ pass_pos = 0
  BY <1>6 DEF PasswordPut
<1>7. RequestTypeOK
  BY DEF SendTypeOK
<1> QED BY <1>1, <1>2, <1>3, <1>4, <1>5, <1>6, <1>7, BuildCases DEF BuildRequest

-----------------------------------------------------------------------------
(* The invariant of the datagrams is inductive.                              *)

(* What rad_init_send_request lets through: accounting without passwords,    *)
(* access with one kind.                                                     *)
LEMMA PasswordsFitCases ==
  ASSUME SendTypeOK, PasswordsFit
  PROVE  IF code \in AuthenticatorAtSend
           THEN pass_pos = 0 /\ ~chap_pass
           ELSE (pass_pos # 0 /\ ~chap_pass) \/ (pass_pos = 0 /\ chap_pass)
<1>1. chap_pass = TRUE \/ chap_pass = FALSE
  BY DEF SendTypeOK, RequestTypeOK
<1>2. CASE chap_pass = TRUE
  BY <1>2 DEF PasswordsFit
<1>3. CASE chap_pass = FALSE
  BY <1>3 DEF PasswordsFit
<1> QED BY <1>1, <1>2, <1>3

(* A request whose passwords fit was created.                                *)
LEMMA RequestIsCreated ==
  ASSUME SendTypeOK, LayoutInv, PasswordsFit
  PROVE  request_created
<1>1. CASE ~request_created
  <2>1. pass_pos = 0 /\ ~chap_pass /\ code = 0
    BY <1>1 DEF LayoutInv
  <2>2. 0 \notin AuthenticatorAtSend
    BY DEF AuthenticatorAtSend
  <2> QED BY <2>1, <2>2, PasswordsFitCases
<1> QED BY <1>1

(* What is inserted into the buffer for a server.                            *)
LEMMA Inserted ==
  ASSUME SendTypeOK, BufferInv, PasswordsFit, NEW s \in Servers
  PROVE  /\ AuthFor(s) = IF code \in AuthenticatorAtSend THEN Digest(s.secret)
                         ELSE Random(nonce)
         /\ PassKeyFor(s) = IF code \notin AuthenticatorAtSend /\ pass_pos # 0
                             THEN [secret |-> s.secret, nonce |-> nonce] ELSE NoKey
         /\ [secret |-> s.secret, nonce |-> nonce] # NoKey
<1>1. code \notin AuthenticatorAtSend => auth = Random(nonce)
  BY DEF BufferInv
<1>2. code \notin AuthenticatorAtSend =>
        KeyWith(s.secret) = [secret |-> s.secret, nonce |-> nonce]
  BY <1>1 DEF KeyWith, IsRandom, Random
<1>3. pass_key # NoKey => pass_pos # 0 /\ code \notin AuthenticatorAtSend
  BY DEF BufferInv
<1>4. s.secret # NoSecret
  BY ServerFields, RequestAssumption
<1> QED BY <1>1, <1>2, <1>3, <1>4 DEF AuthFor, PassKeyFor, NoKey

(* A transmission adds a datagram made from the request in the buffer.       *)
LEMMA TransmissionKeepsDatagrams ==
  ASSUME SendTypeOK, LayoutInv, DatagramInv, NEW s \in Servers, Transmission(s)
  PROVE  DatagramInv'
<1>1. /\ BufferInv /\ PasswordsFit /\ request_created
      /\ \A d \in sent : MadeFromRequest(d)
      /\ \A d, e \in sent : AgreeOnRequest(d, e)
  BY RequestIsCreated DEF DatagramInv, Transmission
<1>2. UNCHANGED <<request_created, code, ident, pass_pos, chap_pass, nonce>>
  BY DEF Transmission, RequestUnchanged
<1>3. nonce \in Nat /\ nonce > 0
  BY <1>1 DEF BufferInv, SendTypeOK, RequestTypeOK
<1>4. PICK d : d = DatagramFor(s)
  OBVIOUS
<1>5. /\ d.dst = s /\ d.code = code /\ d.ident = ident /\ d.attrs = attrs'
      /\ d.gen = nonce /\ d.auth = auth' /\ d.pass = pass_key'
      /\ auth' = AuthFor(s) /\ pass_key' = PassKeyFor(s)
  BY <1>4 DEF DatagramFor, Transmission
<1>6. /\ auth' = IF code \in AuthenticatorAtSend THEN Digest(s.secret) ELSE Random(nonce)
      /\ pass_key' = IF code \notin AuthenticatorAtSend /\ pass_pos # 0
                       THEN [secret |-> s.secret, nonce |-> nonce] ELSE NoKey
      /\ [secret |-> s.secret, nonce |-> nonce] # NoKey
  BY <1>1, <1>5, Inserted
<1>7. BufferInv'
  <2>1. PasswordsFit'
    BY <1>1, <1>2 DEF PasswordsFit
  <2> QED BY <1>1, <1>2, <1>6, <2>1 DEF BufferInv, Transmission
<1>8. MadeFromRequest(d)'
  <2>1. d.auth = IF d.code \in AuthenticatorAtSend THEN DigestOf(d) ELSE Random(d.gen)
    <3>1. code \in AuthenticatorAtSend => attrs' = attrs
      BY DEF Transmission, AttrsSent
    <3> QED BY <1>5, <1>6, <3>1 DEF Digest, DigestOf
  <2>2. d.gen \in 1..nonce
    BY <1>3, <1>5
  <2>3. d.pass = NoKey => code \in AuthenticatorAtSend \/ chap_pass
    BY <1>1, <1>5, <1>6, PasswordsFitCases
  <2>4. d.pass # NoKey => /\ code \notin AuthenticatorAtSend /\ pass_pos # 0
                         /\ d.pass = [secret |-> s.secret, nonce |-> nonce]
    BY <1>5, <1>6
  <2> QED BY <1>2, <1>5, <2>1, <2>2, <2>3, <2>4 DEF MadeFromRequest
<1>9. \A e \in sent : MadeFromRequest(e)'
  BY <1>1, <1>2 DEF MadeFromRequest
<1>10. \A e \in sent : AgreeOnRequest(d, e) /\ AgreeOnRequest(e, d)
  <2> SUFFICES ASSUME NEW e \in sent, e.gen = nonce
               PROVE  d.code = e.code /\ d.ident = e.ident
                        /\ (d.pass = NoKey <=> e.pass = NoKey)
    BY <1>5 DEF AgreeOnRequest
  <2>1. /\ e.code = code /\ e.ident = ident
        /\ e.pass # NoKey => pass_pos # 0 /\ code \notin AuthenticatorAtSend
        /\ e.pass = NoKey => code \in AuthenticatorAtSend \/ chap_pass
    BY <1>1 DEF MadeFromRequest
  <2> QED BY <1>1, <1>5, <1>6, <2>1, PasswordsFitCases
<1>11. sent' \subseteq sent \cup {d} /\ (pc' = "select" => d \in sent')
  BY <1>4 DEF Transmission
<1>12. \A e \in sent' : MadeFromRequest(e)'
  BY <1>8, <1>9, <1>11
<1>13. \A e, f \in sent' : AgreeOnRequest(e, f)
  <2>1. AgreeOnRequest(d, d)
    BY DEF AgreeOnRequest
  <2> QED BY <1>1, <1>10, <1>11, <2>1
<1>14. CurrentWasAsked'
  BY <1>2, <1>5, <1>11 DEF CurrentWasAsked, Transmission
<1>15. AcceptedAnswerIsOurs'
  BY DEF AcceptedAnswerIsOurs, Transmission
<1> QED BY <1>7, <1>12, <1>13, <1>14, <1>15 DEF DatagramInv, AgreeOnRequest

(* A quiet step touches nothing the invariant speaks of.                     *)
LEMMA QuietKeepsDatagrams ==
  ASSUME DatagramInv, Quiet
  PROVE  DatagramInv'
<1>1. /\ BufferInv /\ \A d \in sent : MadeFromRequest(d)
      /\ \A d, e \in sent : AgreeOnRequest(d, e)
      /\ CurrentWasAsked /\ AcceptedAnswerIsOurs
  BY DEF DatagramInv
<1>2. UNCHANGED <<request_created, code, ident, pass_pos, chap_pass, nonce,
                  auth, attrs, pass_key, sent>>
  BY DEF Quiet, RequestUnchanged
<1>3. BufferInv'
  BY <1>1, <1>2 DEF BufferInv, PasswordsFit, Quiet
<1>4. \A d \in sent' : MadeFromRequest(d)'
  BY <1>1, <1>2 DEF MadeFromRequest
<1>5. CurrentWasAsked'
  BY <1>1, <1>2 DEF CurrentWasAsked, Quiet
<1>6. AcceptedAnswerIsOurs'
  BY <1>1, <1>2 DEF AcceptedAnswerIsOurs, IsTwin, Quiet
<1> QED BY <1>1, <1>2, <1>3, <1>4, <1>5, <1>6 DEF DatagramInv, AgreeOnRequest

(* A call that builds leaves what was sent, and gives a new request a new    *)
(* number.                                                                   *)
LEMMA BuildKeepsDatagrams ==
  ASSUME SendTypeOK, DatagramInv, BuildRequest
  PROVE  DatagramInv'
<1>1. /\ BufferInv /\ \A d \in sent : MadeFromRequest(d)
      /\ \A d, e \in sent : AgreeOnRequest(d, e)
  BY DEF DatagramInv
<1>2. /\ ret' # "reply" /\ sent' = sent
      /\ pc' = "idle" /\ nonce \in Nat
  BY BuildKinds DEF SendTypeOK, RequestTypeOK, Failures
<1>3. BufferInv' /\ \A d \in sent : MadeFromRequest(d)'
  <2>1. CASE /\ request_created' /\ nonce' = nonce + 1 /\ auth' = Random(nonce')
             /\ pass_key' = NoKey
    BY <1>1, <1>2, <2>1 DEF BufferInv, MadeFromRequest
  <2>2. CASE /\ UNCHANGED <<request_created, nonce, code, ident, auth, pass_key>>
             /\ chap_pass => chap_pass'
             /\ pass_pos' # pass_pos => pass_pos = 0
    BY <1>1, <1>2, <2>2 DEF BufferInv, MadeFromRequest
  <2> QED BY <2>1, <2>2, BuildKinds
<1>4. CurrentWasAsked' /\ AcceptedAnswerIsOurs'
  BY <1>2 DEF CurrentWasAsked, AcceptedAnswerIsOurs
<1> QED BY <1>1, <1>2, <1>3, <1>4 DEF DatagramInv, AgreeOnRequest

(* The step that accepts: a datagram with the same authenticator as the one  *)
(* in the buffer is of the same request, or its twin.                        *)
LEMMA AcceptanceKeepsDatagrams ==
  ASSUME SendTypeOK, DatagramInv, Acceptance
  PROVE  DatagramInv'
<1>1. /\ BufferInv /\ \A d \in sent : MadeFromRequest(d)
      /\ \A d, e \in sent : AgreeOnRequest(d, e)
  BY DEF DatagramInv
<1>2. UNCHANGED <<request_created, code, ident, pass_pos, chap_pass, nonce,
                  auth, attrs, pass_key, sent, servers, srv>>
  BY DEF Acceptance, RequestUnchanged
<1>3. /\ pc' = "idle" /\ ret' = "reply" /\ response'.auth = auth
      /\ response'.from = servers[srv].addr /\ response'.secret = servers[srv].secret
  BY DEF Acceptance
<1>4. PICK d \in sent : /\ d.gen = nonce /\ d.dst = servers[srv]
                        /\ d.auth = auth /\ d.attrs = attrs
  BY DEF DatagramInv, CurrentWasAsked, Acceptance
<1>5. d.code = code /\ d.ident = ident
  BY <1>1, <1>4 DEF MadeFromRequest
<1>6. ASSUME NEW e \in sent, e.auth = auth
      PROVE  e.gen = nonce \/ IsTwin(e)
  <2>1. /\ d.auth = IF code \in AuthenticatorAtSend THEN DigestOf(d) ELSE Random(nonce)
        /\ e.auth = IF e.code \in AuthenticatorAtSend THEN DigestOf(e) ELSE Random(e.gen)
    BY <1>1, <1>4, <1>5 DEF MadeFromRequest
  <2>2. \A n : DigestOf(d) # Random(n) /\ DigestOf(e) # Random(n)
    BY DEF DigestOf, Random
  <2>3. CASE code \notin AuthenticatorAtSend
    <3>1. Random(e.gen) = Random(nonce)
      BY <1>4, <1>6, <2>1, <2>2, <2>3
    <3> QED BY <3>1 DEF Random
  <2>4. CASE code \in AuthenticatorAtSend
    <3>1. DigestOf(e) = DigestOf(d)
      BY <1>4, <1>6, <2>1, <2>2, <2>4
    <3>2. e.code = d.code /\ e.ident = d.ident /\ e.attrs = d.attrs
      BY <3>1 DEF DigestOf
    <3> QED BY <1>4, <1>5, <2>4, <3>2 DEF IsTwin
  <2> QED BY <2>3, <2>4
<1>7. AcceptedAnswerIsOurs'
  <2>1. \A e \in sent : e.auth = auth => e.gen = nonce \/ IsTwin(e)'
    BY <1>2, <1>6 DEF IsTwin
  <2> QED BY <1>2, <1>3, <1>4, <1>5, <2>1 DEF AcceptedAnswerIsOurs
<1>8. BufferInv' /\ CurrentWasAsked'
  BY <1>1, <1>2, <1>3 DEF BufferInv, CurrentWasAsked
<1>9. \A e \in sent : MadeFromRequest(e)'
  BY <1>1, <1>2 DEF MadeFromRequest
<1> QED BY <1>1, <1>2, <1>7, <1>8, <1>9 DEF DatagramInv, AgreeOnRequest

(* The invariant is inductive: one case for each kind of step.               *)
LEMMA DatagramStep ==
  ASSUME SendTypeOK, LayoutInv, DatagramInv, SendNext
  PROVE  DatagramInv'
<1>1. BufferInv
  BY DEF DatagramInv
<1> QED BY <1>1, StepKinds, BuildKeepsDatagrams, QuietKeepsDatagrams,
           AcceptanceKeepsDatagrams, TransmissionKeepsDatagrams

(* Attributes stay where they are, whatever is written over them.            *)
LEMMA ScrambledLayout ==
  ASSUME RequestTypeOK, LayoutInv, attrs' = AttrsSent,
         UNCHANGED <<request_created, code, req_len, pass_len, pass_pos, chap_pass>>
  PROVE  LayoutInv'
<1>1. /\ Len(attrs') = Len(attrs) /\ attrs' \in Seq(Attrs)
      /\ \A i \in 1..Len(attrs) : attrs'[i].off = attrs[i].off /\ attrs'[i].len = attrs[i].len
  BY AttrsSentType DEF RequestTypeOK
<1>2. Len(attrs) \in Nat /\ (attrs = << >> <=> Len(attrs) = 0)
        /\ (attrs' = << >> <=> Len(attrs) = 0)
  BY <1>1 DEF RequestTypeOK
<1>3. \A i \in 1..Len(attrs) : EndOf(attrs'[i]) = EndOf(attrs[i])
  BY <1>1 DEF EndOf
<1>4. AttributesTile'
  <2> SUFFICES ASSUME request_created
               PROVE  /\ \A i \in 1..Len(attrs) :
                           /\ attrs'[i].off = 2 + (IF i = 1 THEN POS_ATTRS
                                                   ELSE EndOf(attrs'[i - 1]))
                           /\ 2 + attrs'[i].len <= MaxFullLen
                      /\ req_len = IF attrs' = << >> THEN POS_ATTRS
                                   ELSE EndOf(attrs'[Len(attrs)])
    BY <1>1 DEF AttributesTile, EndOf
  <2>1. /\ \A i \in 1..Len(attrs) :
             /\ attrs[i].off = 2 + (IF i = 1 THEN POS_ATTRS ELSE EndOf(attrs[i - 1]))
             /\ 2 + attrs[i].len <= MaxFullLen
        /\ req_len = IF attrs = << >> THEN POS_ATTRS ELSE EndOf(attrs[Len(attrs)])
    BY DEF LayoutInv, AttributesTile
  <2>2. \A i \in 1..Len(attrs) : i # 1 => i - 1 \in 1..Len(attrs)
    BY <1>2
  <2>3. Len(attrs) # 0 => Len(attrs) \in 1..Len(attrs)
    BY <1>2
  <2> QED BY <1>1, <1>2, <1>3, <2>1, <2>2, <2>3
<1>5. ScrambleInsideMessage'
  BY DEF LayoutInv, ScrambleInsideMessage
<1>6. \A i \in 1..Len(attrs') : attrs'[i].off >= POS_ATTRS + 2
  BY <1>1 DEF LayoutInv
<1>7. ~request_created => attrs' = << >>
  BY <1>2 DEF LayoutInv
<1> QED BY <1>4, <1>5, <1>6, <1>7 DEF LayoutInv

(* Sending leaves the layout of the request alone.                           *)
LEMMA LayoutStep ==
  ASSUME SendTypeOK, LayoutInv, BufferInv, SendNext
  PROVE  LayoutInv'
<1>1. CASE BuildRequest
  <2>1. RequestTypeOK /\ ServerSecret \in Secrets \cup {NoSecret}
    BY ServerSecretType DEF SendTypeOK
  <2> QED BY <1>1, <2>1, BuildLayout DEF BuildRequest
<1>2. CASE RequestUnchanged /\ attrs' = attrs
  BY <1>2, UnchangedLayout DEF RequestUnchanged
<1>3. CASE RequestUnchanged /\ attrs' = AttrsSent
  BY <1>3, ScrambledLayout DEF RequestUnchanged, SendTypeOK
<1> QED BY <1>1, <1>2, <1>3, StepKinds DEF Quiet, Acceptance, Transmission

(* Initially nothing has been sent.                                          *)
LEMMA DatagramInit == SendInit => LayoutInv /\ DatagramInv
<1> SUFFICES ASSUME SendInit
             PROVE  LayoutInv /\ DatagramInv
  OBVIOUS
<1>1. LayoutInv
  BY InitLayout DEF SendInit
<1>2. /\ ~request_created /\ nonce = 0 /\ auth = Random(nonce) /\ pass_key = NoKey
      /\ pc = "idle" /\ ret = "none" /\ sent = {}
  BY DEF SendInit, Init
<1> QED BY <1>1, <1>2 DEF DatagramInv, BufferInv, CurrentWasAsked, AcceptedAnswerIsOurs

(* The layout of the request and the datagrams, together, in every           *)
(* reachable state.                                                          *)
LEMMA DatagramInvariant == SendSpec => [](LayoutInv /\ DatagramInv)
<1>1. SendInit => LayoutInv /\ DatagramInv
  BY DatagramInit
<1>2. SendTypeOK /\ (LayoutInv /\ DatagramInv) /\ [SendNext]_vars
        => (LayoutInv /\ DatagramInv)'
  <2>1. ASSUME SendTypeOK, LayoutInv, DatagramInv, SendNext
        PROVE  LayoutInv' /\ DatagramInv'
    BY <2>1, LayoutStep, DatagramStep DEF DatagramInv
  <2>2. ASSUME LayoutInv, DatagramInv, UNCHANGED vars
        PROVE  LayoutInv' /\ DatagramInv'
    <3>1. UNCHANGED <<requestVars, handleVars>>
      BY <2>2 DEF vars
    <3>2. LayoutInv'
      BY <2>2, <3>1, UnchangedLayout DEF requestVars
    <3>3. Quiet
      BY <3>1 DEF Quiet, RequestUnchanged, requestVars, handleVars
    <3> QED BY <2>2, <3>2, <3>3, QuietKeepsDatagrams
  <2> QED BY <2>1, <2>2
<1> QED BY <1>1, <1>2, SendTypeCorrect, PTL DEF SendSpec

-----------------------------------------------------------------------------
(* Nothing is put on the wire before rad_create_request has been called, for *)
(* every order of calls an application can make.                             *)
THEOREM NothingIsSentUncreated == SendSpec => []NothingSentUncreated
<1>1. SendTypeOK /\ DatagramInv => NothingSentUncreated
  <2>1. nonce \in Nat => \A d \in sent : MadeFromRequest(d) => d.gen > 0
    BY DEF MadeFromRequest
  <2> QED BY <2>1 DEF DatagramInv, NothingSentUncreated, SendTypeOK, RequestTypeOK
<1> QED BY <1>1, SendTypeCorrect, DatagramInvariant, PTL

(* Two transmissions of a request to a server are the same datagram unless   *)
(* the application put something in between, however the sends, the answers  *)
(* and the calls in between interleave.                                      *)
THEOREM RetransmissionsAreIdentical == SendSpec => []RetransmissionIsIdentical
<1>1. SendTypeOK /\ DatagramInv => RetransmissionIsIdentical
  <2> SUFFICES ASSUME SendTypeOK, DatagramInv, NEW d \in sent, NEW e \in sent,
                      d.gen = e.gen, d.dst = e.dst, d.attrs = e.attrs
               PROVE  d = e
    BY DEF RetransmissionIsIdentical
  <2>1. d \in Datagrams /\ e \in Datagrams
    BY DEF SendTypeOK
  <2>2. d.code = e.code /\ d.ident = e.ident /\ (d.pass = NoKey <=> e.pass = NoKey)
    BY DEF DatagramInv, AgreeOnRequest
  <2>3. MadeFromRequest(d) /\ MadeFromRequest(e)
    BY DEF DatagramInv
  <2>4. d.auth = e.auth
    BY <2>2, <2>3 DEF MadeFromRequest, DigestOf
  <2>5. d.pass = e.pass
    BY <2>2, <2>3 DEF MadeFromRequest
  <2> QED BY <2>1, <2>2, <2>4, <2>5 DEF Datagrams
<1> QED BY <1>1, SendTypeCorrect, DatagramInvariant, PTL

(* is_valid_response accepts only answers to the request in the buffer, from *)
(* the server asked last, for every network that loses, delays, duplicates   *)
(* and reorders; the one exception is an accounting or disconnect request    *)
(* that repeats an earlier one after the identifier has wrapped.             *)
THEOREM AcceptedAnswersAreOurs == SendSpec => []AcceptedAnswerIsOurs
<1>1. DatagramInv => AcceptedAnswerIsOurs
  BY DEF DatagramInv
<1> QED BY <1>1, DatagramInvariant, PTL

-----------------------------------------------------------------------------
(* Passwords.                                                                *)

(* What a scrambled password lies over is neither of the two passwords.      *)
LEMMA ScrambledCredentials ==
  ASSUME RequestTypeOK, CredentialsInv, attrs' = AttrsSent,
         UNCHANGED <<pass_len, pass_pos, chap_pass>>
  PROVE  /\ CredentialsInv'
         /\ \A i \in 1..Len(attrs') :
              /\ i \in 1..Len(attrs)
              /\ IsPassword(attrs'[i]) => attrs'[i] = attrs[i]
              /\ IsChap(attrs'[i]) => attrs'[i] = attrs[i]
<1>1. /\ Len(attrs') = Len(attrs)
      /\ \A i \in 1..Len(attrs) :
           \/ attrs'[i] = attrs[i]
           \/ attrs'[i].type = Overwritten /\ attrs'[i].sub = Plain
  BY AttrsSentType DEF RequestTypeOK
<1>2. /\ Overwritten # RAD_USER_PASSWORD /\ Overwritten # RAD_CHAP_PASSWORD
      /\ Plain \notin MsChapResponses
  BY DEF Overwritten, RAD_USER_PASSWORD, RAD_CHAP_PASSWORD, Plain, MsChapResponses
<1>3. \A i \in 1..Len(attrs) :
        \/ attrs'[i] = attrs[i]
        \/ ~IsPassword(attrs'[i]) /\ ~IsChap(attrs'[i])
  BY <1>1, <1>2 DEF IsPassword, IsChap
<1>4. EveryPlaceholderIsFilled'
  BY <1>1, <1>3 DEF CredentialsInv, EveryPlaceholderIsFilled, IsPassword
<1>5. ChapIsRecorded'
  BY <1>1, <1>3 DEF CredentialsInv, ChapIsRecorded, IsChap
<1> QED BY <1>1, <1>3, <1>4, <1>5 DEF CredentialsInv

(* A transmission of a request with a placeholder fills it, one with CHAP    *)
(* credentials has none.                                                     *)
LEMMA TransmissionKeepsPasswords ==
  ASSUME SendTypeOK, LayoutInv, DatagramInv, PasswordsInv, NEW s \in Servers,
         Transmission(s)
  PROVE  PasswordsInv'
<1>1. /\ BufferInv /\ PasswordsFit /\ CredentialsInv
      /\ \A d \in sent :
           /\ Carries(d, IsPassword) => d.pass # NoKey
           /\ Carries(d, IsChap) => d.pass = NoKey /\ d.code \notin AuthenticatorAtSend
  BY DEF DatagramInv, PasswordsInv, Transmission
<1>2. /\ CredentialsInv'
      /\ \A i \in 1..Len(attrs') :
           /\ i \in 1..Len(attrs)
           /\ IsPassword(attrs'[i]) => attrs'[i] = attrs[i]
           /\ IsChap(attrs'[i]) => attrs'[i] = attrs[i]
  BY <1>1, ScrambledCredentials DEF Transmission, RequestUnchanged, SendTypeOK
<1>3. PICK d : d = DatagramFor(s)
  OBVIOUS
<1>4. d.code = code /\ d.attrs = attrs' /\ d.pass = PassKeyFor(s)
  BY <1>3 DEF DatagramFor, Transmission
<1>5. ASSUME Carries(d, IsPassword)
      PROVE  d.pass # NoKey
  <2>1. PICK i \in 1..Len(attrs) : attrs[i].type = RAD_USER_PASSWORD
    BY <1>2, <1>4, <1>5 DEF Carries, IsPassword
  <2>2. pass_pos # 0
    <3>1. attrs[i].off = pass_pos
      BY <1>1, <2>1 DEF CredentialsInv, EveryPlaceholderIsFilled
    <3>2. attrs[i].off >= POS_ATTRS + 2
      BY <2>1 DEF LayoutInv
    <3> QED BY <3>1, <3>2 DEF POS_ATTRS
  <2>3. code \notin AuthenticatorAtSend
    BY <1>1, <2>2, PasswordsFitCases
  <2> QED BY <1>1, <1>4, <2>2, <2>3, Inserted
<1>6. ASSUME Carries(d, IsChap)
      PROVE  d.pass = NoKey /\ d.code \notin AuthenticatorAtSend
  <2>1. chap_pass
    <3>1. PICK i \in 1..Len(attrs') : IsChap(attrs'[i])
      BY <1>4, <1>6 DEF Carries
    <3> QED BY <1>1, <1>2, <3>1 DEF CredentialsInv, ChapIsRecorded
  <2>2. pass_pos = 0 /\ code \notin AuthenticatorAtSend
    BY <1>1, <2>1, PasswordsFitCases
  <2> QED BY <1>1, <1>4, <2>2, Inserted
<1>7. sent' \subseteq sent \cup {d}
  BY <1>3 DEF Transmission
<1> QED BY <1>1, <1>2, <1>5, <1>6, <1>7 DEF PasswordsInv

(* The invariant about passwords is inductive: one case for each kind of     *)
(* step.                                                                     *)
LEMMA PasswordsStep ==
  ASSUME TypesAreBytes, SendTypeOK, LayoutInv, DatagramInv, PasswordsInv, SendNext
  PROVE  PasswordsInv'
<1>1. BufferInv
  BY DEF DatagramInv
<1>2. CASE BuildRequest
  <2>1. RequestTypeOK /\ ServerSecret \in Secrets \cup {NoSecret}
    BY ServerSecretType DEF SendTypeOK
  <2>2. CredentialsInv'
    BY <1>2, <2>1, BuildCredentials DEF BuildRequest, PasswordsInv
  <2> QED BY <1>2, <2>2 DEF PasswordsInv, BuildRequest
<1>3. CASE Quiet \/ Acceptance
  <2>1. RequestUnchanged /\ UNCHANGED <<attrs, sent>>
    BY <1>3 DEF Quiet, Acceptance
  <2>2. CredentialsInv'
    BY <2>1, UnchangedCredentials DEF RequestUnchanged, PasswordsInv
  <2> QED BY <2>1, <2>2 DEF PasswordsInv
<1> QED BY <1>1, <1>2, <1>3, StepKinds, TransmissionKeepsPasswords

(* It holds in every reachable state, if types are bytes.                    *)
LEMMA PasswordsInvariant ==
  ASSUME TypesAreBytes
  PROVE  SendSpec => []PasswordsInv
<1>1. SendInit => PasswordsInv
  BY InitCredentials DEF SendInit, PasswordsInv
<1>2. SendTypeOK /\ (LayoutInv /\ DatagramInv) /\ PasswordsInv /\ [SendNext]_vars
        => PasswordsInv'
  <2>1. SendTypeOK /\ (LayoutInv /\ DatagramInv) /\ PasswordsInv /\ SendNext
          => PasswordsInv'
    BY PasswordsStep
  <2>2. ASSUME PasswordsInv, UNCHANGED vars
        PROVE  PasswordsInv'
    <3>1. UNCHANGED <<attrs, pass_len, pass_pos, chap_pass, sent>>
      BY <2>2 DEF vars, requestVars, handleVars
    <3> QED BY <2>2, <3>1, UnchangedCredentials DEF PasswordsInv
  <2> QED BY <2>1, <2>2
<1> QED BY <1>1, <1>2, SendTypeCorrect, DatagramInvariant, PTL DEF SendSpec

(* In every datagram a password is scrambled with the secret of the server   *)
(* it goes to and the authenticator next to it, over any number of servers   *)
(* and retransmissions, for applications that put attribute types of one     *)
(* byte.                                                                     *)
THEOREM PasswordsOpenAtServer ==
  ASSUME TypesAreBytes
  PROVE  SendSpec => []PasswordOpensAtServer
<1>1. DatagramInv /\ PasswordsInv => PasswordOpensAtServer
  <2> SUFFICES ASSUME DatagramInv, PasswordsInv, NEW d \in sent, Carries(d, IsPassword)
               PROVE  IsRandom(d.auth)
                        /\ d.pass = [secret |-> d.dst.secret, nonce |-> d.auth.random]
    BY DEF PasswordOpensAtServer
  <2>1. d.pass # NoKey /\ MadeFromRequest(d)
    BY DEF PasswordsInv, DatagramInv
  <2>2. /\ d.auth = Random(d.gen)
        /\ d.pass = [secret |-> d.dst.secret, nonce |-> d.gen]
    BY <2>1 DEF MadeFromRequest
  <2> QED BY <2>2 DEF Random, IsRandom
<1> QED BY <1>1, DatagramInvariant, PasswordsInvariant, PTL

(* No datagram has both kinds of password, and requests with a digest for an *)
(* authenticator have none, whatever the application puts between two sends, *)
(* for applications that put attribute types of one byte.                    *)
THEOREM PasswordsStayApart ==
  ASSUME TypesAreBytes
  PROVE  SendSpec => []PasswordsAreKeptApart
<1>1. DatagramInv /\ PasswordsInv => PasswordsAreKeptApart
  BY DEF DatagramInv, PasswordsInv, PasswordsAreKeptApart, MadeFromRequest
<1> QED BY <1>1, DatagramInvariant, PasswordsInvariant, PTL

-----------------------------------------------------------------------------
(* The library implements the exchange.                                      *)

TableFromMenu == \A i \in 1..Len(servers) : servers[i] \in ServerMenu

(* Servers are only added from the menu and never changed.                   *)
LEMMA MenuStep ==
  ASSUME SendTypeOK, TableFromMenu, SendNext
  PROVE  TableFromMenu'
<1>1. CASE AddServer
  <2>1. CASE servers' = servers
    BY <2>1 DEF TableFromMenu
  <2>2. ASSUME NEW s \in ServerMenu, servers' = Append(servers, s)
        PROVE  TableFromMenu'
    <3>1. servers \in Seq(Servers) /\ s \in Servers
      BY SendAssumption DEF SendTypeOK
    <3>2. \A i \in 1..Len(servers') :
            servers'[i] = s \/ (i \in 1..Len(servers) /\ servers'[i] = servers[i])
      BY <2>2, <3>1
    <3> QED BY <3>2 DEF TableFromMenu
  <2> QED BY <1>1, <2>1, <2>2 DEF AddServer
<1>2. CASE ~AddServer
  <2>1. servers' = servers
    BY <1>2 DEF SendNext, Call, Wait, Network, BuildRequest, SendWithoutSocket,
                SendRefused, SendNoServers, Send, Timeout, ReceiveShort,
                ReceiveInvalid, ReceiveValid, WaitFails, Answer, Stray, Arrive,
                Over, vars, handleVars
  <2> QED BY <2>1 DEF TableFromMenu
<1> QED BY <1>1, <1>2

(* The table holds servers of the menu in every reachable state.             *)
LEMMA MenuInvariant == SendSpec => []TableFromMenu
<1>1. SendInit => TableFromMenu
  BY DEF SendInit, TableFromMenu
<1>2. SendTypeOK /\ TableFromMenu /\ [SendNext]_vars => TableFromMenu'
  <2>1. TableFromMenu /\ UNCHANGED vars => TableFromMenu'
    BY DEF TableFromMenu, vars, handleVars
  <2> QED BY <2>1, MenuStep
<1> QED BY <1>1, <1>2, SendTypeCorrect, PTL DEF SendSpec

(* The servers asked, and those heard of, under the refinement mapping.      *)
LEMMA AnsweredWereAsked == Answered \subseteq Asked /\ Answered' \subseteq Asked'
BY DEF Answered, Asked

(* The servers asked depend on what was sent and on the request.             *)
LEMMA AskedUnchanged ==
  ASSUME UNCHANGED <<sent, nonce>>
  PROVE  Asked' = Asked
BY DEF Asked

(* The answers depend on what was sent, on the request and on the receive    *)
(* buffer.                                                                   *)
LEMMA AnsweredUnchanged ==
  ASSUME UNCHANGED <<sent, nonce, rcvbuf>>
  PROVE  Answered' = Answered
BY DEF Answered

(* A transmission asks one server more.                                      *)
LEMMA AskedOneMore ==
  ASSUME NEW s, sent' = sent \cup {DatagramFor(s)}, nonce' = nonce
  PROVE  Asked' = Asked \cup {s}
<1>1. PICK d : d = DatagramFor(s)
  OBVIOUS
<1>2. d.gen = nonce /\ d.dst = s
  BY <1>1 DEF DatagramFor
<1> QED BY <1>1, <1>2 DEF Asked

(* A call between two sends.                                                 *)
LEMMA IdleImplements ==
  ASSUME pc # "select", pc' # "select", UNCHANGED <<sent, nonce, rcvbuf>>,
         ret' \in {"none", "ok", "io_error"} \cup Failures
  PROVE  Exchange!Next
<1>1. Asked' = Asked /\ Answered' = Answered
  BY AskedUnchanged, AnsweredUnchanged
<1> QED BY <1>1 DEF Exchange!Next, Exchange!OtherCall, Waiting, Verdict, Failures

(* To the exchange, a call that builds is a new request, or one of its       *)
(* other calls.                                                              *)
LEMMA BuildImplements ==
  ASSUME SendTypeOK, DatagramInv, BuildRequest
  PROVE  Exchange!Next
<1>1. rcvbuf' = rcvbuf
  BY DEF BuildRequest
<1>2. CASE nonce' = nonce
  BY <1>1, <1>2, BuildKinds, IdleImplements
<1>3. CASE nonce' # nonce
  <2>1. /\ nonce' = nonce + 1 /\ ret' = "ok" /\ sent' = sent
        /\ pc = "idle" /\ pc' = "idle"
    BY <1>3, BuildKinds DEF SendTypeOK, RequestTypeOK
  <2>2. nonce \in Nat
    BY DEF SendTypeOK, RequestTypeOK
  <2>3. \A d \in sent : d.gen # nonce + 1
    <3>1. \A d \in sent : d.gen \in 1..nonce
      BY DEF DatagramInv, MadeFromRequest
    <3> QED BY <2>2, <3>1
  <2>4. Asked' = {} /\ Answered' = {}
    BY <2>1, <2>3 DEF Asked, Answered
  <2> QED BY <2>1, <2>4 DEF Exchange!Next, Exchange!NewRequest, Waiting, Verdict
<1> QED BY <1>2, <1>3

(* A transmission asks a server.                                             *)
LEMMA TransmissionImplements ==
  ASSUME SendTypeOK, SendTypeOK', FailoverInv, FailoverInv', TableFromMenu,
         pc \in {"idle", "select"}, RequestUnchanged, servers' = servers,
         NEW tries \in [1..Len(servers) -> Nat], pc = "select" => tries = num_tries,
         NEW count, NEW at \in 1..Len(servers), NEW s \in Servers,
         TransmitTo(at, s, tries, count), pc = "idle" => rcvbuf' = rcvbuf
  PROVE  Exchange!Next
<1>1. Len(servers) \in Nat
  BY ServersAreTyped
<1>2. num_tries' \in [1..Len(servers) -> Nat]
  BY DEF SendTypeOK
<1>3. CASE pc' = "idle"
  <2>1. UNCHANGED <<sent, nonce>> /\ ret' = "io_error"
    BY <1>3 DEF TransmitTo, RequestUnchanged
  <2>2. CASE pc = "idle"
    BY <1>3, <2>1, <2>2, IdleImplements
  <2>3. CASE pc = "select"
    <3>1. Asked' = Asked /\ Answered' \subseteq Asked
      BY <2>1, AskedUnchanged, AnsweredWereAsked
    <3> QED BY <1>3, <2>1, <2>3, <3>1
            DEF Exchange!Next, Exchange!Fail, Exchange!End, Exchange!Nobody,
                Waiting, Verdict
  <2> QED BY <2>2, <2>3
<1>4. CASE pc' = "select"
  <2>1. /\ sent' = sent \cup {DatagramFor(s)} /\ nonce' = nonce
        /\ ret' = "none" /\ srv' = at /\ servers[at] = s
        /\ num_tries' = [tries EXCEPT ![at] = @ + 1] /\ HasTriesLeft(at, tries)
    BY <1>4 DEF TransmitTo, RequestUnchanged
  <2>2. Asked' = Asked \cup {s} /\ Answered' \subseteq Asked'
    BY <2>1, AskedOneMore, AnsweredWereAsked
  <2>3. s \in ServerMenu
    BY <2>1 DEF TableFromMenu
  <2>4. Exchange!Ask(s)
    BY <1>4, <2>1, <2>2 DEF Exchange!Ask, Waiting, Verdict
  <2>5. \A i \in 1..Len(servers) :
          /\ servers[i].max_tries \in Nat /\ num_tries'[i] \in Nat
          /\ num_tries'[i] <= servers[i].max_tries
    BY <1>2 DEF FailoverInv, TableIsNatural
  <2>6. CASE pc = "idle"
    <3>1. [i \in 1..Len(servers) |-> servers[i].max_tries - num_tries'[i]] \in Seq(Nat)
      BY <1>1, <2>5
    <3> QED BY <1>4, <2>3, <2>4, <2>6, <3>1 DEF Exchange!Next, Exchange!Begin, Waiting
  <2>7. CASE pc = "select"
    <3>1. PICK left : left = [i \in 1..Len(servers) |->
                                servers[i].max_tries - num_tries[i]]
      OBVIOUS
    <3>2. /\ DOMAIN left = 1..Len(servers) /\ left[at] > 0
          /\ [i \in 1..Len(servers) |-> servers[i].max_tries - num_tries'[i]]
               = [left EXCEPT ![at] = @ - 1]
      <4>1. tries = num_tries /\ num_tries \in [1..Len(servers) -> Nat]
        BY <2>7
      <4>2. left[at] > 0
        BY <2>1, <2>5, <3>1, <4>1 DEF HasTriesLeft
      <4>3. \A i \in 1..Len(servers) :
              servers[i].max_tries - num_tries'[i]
                = IF i = at THEN left[at] - 1 ELSE left[i]
        BY <2>1, <2>5, <3>1, <4>1
      <4> QED BY <3>1, <4>2, <4>3
    <3> QED BY ZenonT(30), <1>4, <2>3, <2>4, <2>7, <3>1, <3>2
            DEF Exchange!Next, Exchange!Retry, Waiting
  <2> QED BY <2>6, <2>7
<1> QED BY <1>3, <1>4 DEF TransmitTo

(* Another try is a step of the exchange: the next peer with tries left is   *)
(* asked, or there is none.                                                  *)
LEMMA TryAgainImplements ==
  ASSUME SendTypeOK, SendTypeOK', FailoverInv, FailoverInv', TableFromMenu,
         pc = "select", TryAgain, RequestUnchanged, servers' = servers
  PROVE  Exchange!Next
<1>1. /\ srv \in Nat \ {0} /\ srv <= Len(servers)
      /\ num_tries \in [1..Len(servers) -> Nat]
  BY DEF SendTypeOK
<1>2. CASE Transmit(srv, num_tries, try)
  <2>1. pc' # "spin"
    BY DEF FailoverInv
  <2>2. PICK at \in 1..Len(servers), s \in Servers : TransmitTo(at, s, num_tries, try)
    BY <1>1, <1>2, <2>1, TransmitCases
  <2> QED BY <1>1, <2>2, TransmissionImplements
<1>3. CASE /\ pc' = "idle"
           /\ ret' = "no_valid_response"
           /\ UNCHANGED <<srv, num_tries, try, auth, attrs, pass_key, sent>>
  <2>1. Asked' = Asked /\ Answered' \subseteq Asked
    BY <1>3, AskedUnchanged, AnsweredWereAsked DEF RequestUnchanged
  <2>2. \A i \in 1..Len(servers) :
          /\ servers[i].max_tries \in Nat /\ num_tries[i] \in Nat
          /\ num_tries[i] <= servers[i].max_tries
          /\ ~(num_tries[i] < servers[i].max_tries)
    BY <1>1, <1>3 DEF FailoverInv, TableIsNatural, HasTriesLeft
  <2>3. \A i \in 1..Len(servers) : servers[i].max_tries - num_tries[i] = 0
    BY <2>2
  <2> QED BY <1>3, <2>1, <2>3
          DEF Exchange!Next, Exchange!GiveUp, Exchange!End, Exchange!Nobody,
              Waiting, Verdict
<1> QED BY <1>2, <1>3 DEF TryAgain

(* The datagram accepted is an answer of the server asked last.              *)
LEMMA ReceiveValidImplements ==
  ASSUME SendTypeOK, DatagramInv, ReceiveValid
  PROVE  Exchange!Next
<1>1. /\ pc = "select" /\ UNCHANGED <<sent, nonce, servers, num_tries, srv>>
  BY DEF ReceiveValid, Receive, RequestUnchanged
<1>2. Asked' = Asked /\ Answered' \subseteq Asked
  BY <1>1, AskedUnchanged, AnsweredWereAsked
<1>3. CASE response'.code = 0
  <2>1. UNCHANGED <<pc, ret>>
    BY <1>3 DEF ReceiveValid
  <2> QED BY <1>1, <1>2, <2>1 DEF Exchange!Next, Exchange!Network, Waiting, Verdict
<1>4. CASE response'.code # 0
  <2>1. pc' = "idle" /\ ret' = "reply"
    BY <1>4 DEF ReceiveValid
  <2>2. PICK d \in sent : d.gen = nonce /\ d.dst = servers[srv] /\ d.auth = auth
    BY <1>1 DEF DatagramInv, CurrentWasAsked
  <2>3. 1 \in 1..Len(rcvbuf) /\ rcvbuf[1] = response'
    BY DEF ReceiveValid, Receive, SendTypeOK
  <2>4. servers[srv] \in Answered
    BY <2>2, <2>3 DEF Answered, ReceiveValid, IsValid, IsDigested
  <2> QED BY <1>1, <1>2, <2>1, <2>4
          DEF Exchange!Next, Exchange!Accept, Exchange!End, Exchange!Nobody,
              Waiting, Verdict
<1> QED BY <1>3, <1>4

(* Every step of the library is one of the exchange or changes nothing it    *)
(* sees.                                                                     *)
LEMMA ExchangeStep ==
  ASSUME SendTypeOK, SendTypeOK', FailoverInv, FailoverInv', DatagramInv,
         TableFromMenu, SendNext, ~Over
  PROVE  Exchange!Next
<1>1. CASE AddServer
  BY <1>1, IdleImplements DEF AddServer, Failures
<1>2. CASE BuildRequest
  BY <1>2, BuildImplements
<1>3. CASE SendWithoutSocket
  BY <1>3, IdleImplements
     DEF SendWithoutSocket, RequestUnchanged, handleVars, Failures
<1>4. CASE SendRefused
  BY <1>4, IdleImplements DEF SendRefused, RequestUnchanged, Failures
<1>5. CASE SendNoServers
  BY <1>5, IdleImplements DEF SendNoServers, RequestUnchanged, Failures
<1>6. CASE Send
  <2>1. /\ NoTries \in [1..Len(servers) -> Nat] /\ (Len(servers) > 0 => 1 <= Len(servers))
        /\ pc' # "spin"
    BY ServersAreTyped DEF NoTries, FailoverInv
  <2>2. PICK at \in 1..Len(servers), s \in Servers : TransmitTo(at, s, NoTries, 0)
    BY <1>6, <2>1, TransmitCases DEF Send
  <2> QED BY <1>6, <2>1, <2>2, TransmissionImplements DEF Send
<1>7. CASE Timeout
  BY <1>7, TryAgainImplements DEF Timeout
<1>8. CASE ReceiveInvalid
  BY <1>8, TryAgainImplements DEF ReceiveInvalid, Receive
<1>9. CASE ReceiveValid
  BY <1>9, ReceiveValidImplements
<1>10. CASE WaitFails \/ ReceiveShort
  <2>1. Asked' = Asked /\ Answered' \subseteq Asked
    BY <1>10, AskedUnchanged, AnsweredWereAsked
       DEF WaitFails, ReceiveShort, RequestUnchanged
  <2> QED BY <1>10, <2>1
          DEF WaitFails, ReceiveShort, Receive, Exchange!Next, Exchange!Fail, Exchange!End, Exchange!Nobody,
              Waiting, Verdict
<1>11. CASE Network
  <2>1. UNCHANGED <<requestVars, handleVars>>
    BY <1>11 DEF Network, Answer, Stray, Arrive
  <2>2. UNCHANGED <<sent, nonce, servers, num_tries, srv, pc, ret>>
    BY <2>1 DEF requestVars, handleVars
  <2>3. Asked' = Asked /\ Answered' \subseteq Asked
    BY <2>2, AskedUnchanged, AnsweredWereAsked
  <2> QED BY <2>2, <2>3 DEF Exchange!Next, Exchange!Network, Waiting, Verdict
<1> QED BY <1>1, <1>2, <1>3, <1>4, <1>5, <1>6, <1>7, <1>8, <1>9, <1>10, <1>11
        DEF SendNext, Call, Wait

(* rad_send_request implements the abstract exchange, for every server table *)
(* without negative limits: it asks one server at a time and each as often   *)
(* as its limit says, ends with an answer to this request from the server    *)
(* asked last, and gives up only when no tries are left.                     *)
THEOREM LibraryImplementsExchange ==
  ASSUME LimitsAreNatural
  PROVE  SendSpec => ImplementsExchange
<1>1. SendInit => Exchange!Init
  BY DEF SendInit, Init, Exchange!Init, Exchange!Nobody, Waiting, Verdict, Asked,
         Answered
<1>2. SendTypeOK /\ SendTypeOK' /\ FailoverInv /\ FailoverInv'
        /\ (LayoutInv /\ DatagramInv) /\ TableFromMenu /\ [SendNext]_vars
        => [Exchange!Next]_Exchange!vars
  <2>1. SendTypeOK /\ SendTypeOK' /\ FailoverInv /\ FailoverInv'
          /\ (LayoutInv /\ DatagramInv) /\ TableFromMenu /\ SendNext /\ ~Over
          => Exchange!Next
    BY ExchangeStep
  <2>2. ASSUME UNCHANGED vars
        PROVE  UNCHANGED Exchange!vars
    <3>1. UNCHANGED <<sent, nonce, rcvbuf, servers, num_tries, srv, pc, ret>>
      BY <2>2 DEF vars, requestVars, handleVars
    <3>2. Asked' = Asked /\ Answered' = Answered
      BY <3>1, AskedUnchanged, AnsweredUnchanged
    <3> QED BY <3>1, <3>2 DEF Exchange!vars, Waiting, Verdict
  <2>3. Over => UNCHANGED vars
    BY DEF Over
  <2> QED BY <2>1, <2>2, <2>3
<1> QED BY <1>1, <1>2, SendTypeCorrect, FailoverInvariant, DatagramInvariant,
           MenuInvariant, PTL DEF SendSpec, ImplementsExchange, Exchange!Spec
=============================================================================
