------------------------------ MODULE RadSend -------------------------------
(* A rad_handle and the network it talks to: rad_add_server, the calls that  *)
(* build a request (RadRequest), and rad_send_request, which keeps           *)
(* transmitting the request, server after server, until one of them gives a  *)
(* valid answer or every server has had its tries (radlib.c).                *)
(*                                                                           *)
(* pc is "idle" between the calls of the application, "select" while         *)
(* rad_send_request waits for its socket, and "spin" once the scan for the   *)
(* next server can never end.  Everything the process does between two calls *)
(* of select is one step: nothing else touches the handle.                   *)
(*                                                                           *)
(* The network loses, delays, reorders and duplicates: any datagram ever     *)
(* sent may be answered, any number of times, at any later moment, also      *)
(* while another request is under way or none is.                            *)
EXTENDS RadRequest

CONSTANTS
  MAXSERVERS,   \* entries in the server table (10)
  Addrs,        \* addresses with port
  ServerMenu,   \* the servers the application may add
  ReplyCodes,   \* codes of answers; 0 is among them if a server may send it
  ReplySizes,   \* <<bytes received, length field>> of the datagrams received
  Strays,       \* <<source, secret>> of datagrams that answer nothing
  MaxBuffered   \* datagrams the socket's receive buffer holds

Servers == [addr : Addrs, secret : Secrets, max_tries : Int]

ASSUME SendAssumption ==
  /\ MAXSERVERS \in Nat /\ MaxBuffered \in Nat
  /\ ServerMenu \subseteq Servers
  /\ ReplyCodes \subseteq 0..255
  /\ ReplySizes \subseteq Nat \X Nat
  /\ Strays \subseteq Addrs \X (Secrets \cup {NoSecret})

VARIABLES
  servers,      \* the server table
  num_tries,    \* num_tries[i]: transmissions to servers[i] in this send
  srv,          \* the server contacted last, counted from 1
  try,          \* transmissions in this send
  total_tries,  \* transmissions this send may make
  fd,           \* the handle has a socket
  pass_key,     \* what the password in the request buffer is scrambled with
  response,     \* the datagram in the response buffer
  pc,
  rcvbuf,       \* the receive buffer of the socket
  sent          \* every datagram ever sent

handleVars ==
  <<servers, num_tries, srv, try, total_tries, fd, pass_key, response, pc, sent>>
vars == <<requestVars, handleVars, rcvbuf>>

Replies == [from : Addrs, got : Nat, length : Nat, code : 0..255,
            auth : Auths, secret : Secrets \cup {NoSecret}]
NoReply == [from |-> "none"]

(* gen, the number of the request the datagram carries, is not on the wire.  *)
Datagrams == [dst : Servers, code : 0..255, ident : 0..(IDENTS - 1),
              auth : Auths, attrs : Seq(Attrs), pass : Keys, gen : Nat]

-----------------------------------------------------------------------------
(* The server table.                                                         *)

(* TriesUpTo(s)[i] is the sum of max_tries over the first i servers.         *)
TriesUpTo(s) ==
  LET sum[i \in 0..Len(s)] == IF i = 0 THEN 0 ELSE sum[i - 1] + s[i].max_tries
  IN  sum
TotalTries(s) == TriesUpTo(s)[Len(s)]

(* Mutant: one try too many.                                                 *)
HasTriesLeftOffByOne(i, tries) == tries[i] <= servers[i].max_tries

HasTriesLeft(i, tries) == tries[i] < servers[i].max_tries

(* The scan of rad_continue_send_request: round robin from a server to the   *)
(* first one with tries left.                                                *)
(* (StepsPastCurrent is a mutant: the next server before the current one's   *)
(* tries are used up.)                                                       *)
StepsPastCurrent(from, to) ==
  IF to > from THEN to - from ELSE to - from + Len(servers)
Steps(from, to) == IF to >= from THEN to - from ELSE to - from + Len(servers)
NextServer(from, tries) ==
  CHOOSE i \in 1..Len(servers) :
    /\ HasTriesLeft(i, tries)
    /\ \A j \in 1..Len(servers) :
         HasTriesLeft(j, tries) => Steps(from, i) <= Steps(from, j)

(* rad_server_secret                                                         *)
ServerSecret == IF srv > Len(servers) THEN NoSecret ELSE servers[srv].secret

(* Mutant: the check of the table's size is off by one.                      *)
AddServerOffByOne ==
  /\ pc = "idle"
  /\ \E s \in ServerMenu :
       /\ Len(servers) <= MAXSERVERS
       /\ servers' = Append(servers, s)
       /\ num_tries' = Append(num_tries, 0)
       /\ ret' = "ok"
  /\ UNCHANGED <<request_created, code, ident, auth, attrs, req_len, pass_len,
                 pass_pos, chap_pass, nonce, srv, try, total_tries, fd,
                 pass_key, response, pc, sent, rcvbuf>>

(* rad_add_server: refused when the table is full; the host may be unknown.  *)
AddServer ==
  /\ pc = "idle"
  /\ \E s \in ServerMenu :
       \/ /\ Len(servers) < MAXSERVERS
          /\ servers' = Append(servers, s)
          /\ num_tries' = Append(num_tries, 0)
          /\ ret' = "ok"
       \/ /\ ret' = "refused"
          /\ UNCHANGED <<servers, num_tries>>
  /\ UNCHANGED <<request_created, code, ident, auth, attrs, req_len, pass_len,
                 pass_pos, chap_pass, nonce, srv, try, total_tries, fd,
                 pass_key, response, pc, sent, rcvbuf>>

(* A call that builds the request.  A salted value is encrypted with the     *)
(* secret of the server contacted last.                                      *)
BuildRequest ==
  /\ pc = "idle"
  /\ Build(ServerSecret)
  /\ pass_key' = IF nonce' # nonce THEN NoKey ELSE pass_key
  /\ UNCHANGED <<servers, num_tries, srv, try, total_tries, fd, response, pc,
                 sent, rcvbuf>>

-----------------------------------------------------------------------------
(* Transmission: the second half of rad_continue_send_request.               *)

(* Mutant: the old authenticator is not zeroed before the digest.            *)
DigestOfOldAuth(secret) ==
  [md5 |-> [code |-> code, ident |-> ident, attrs |-> attrs, secret |-> secret,
            auth |-> auth]]

(* insert_request_authenticator: the digest of the request as it stands with *)
(* zeros for an authenticator.                                               *)
Digest(secret) ==
  [md5 |-> [code |-> code, ident |-> ident, attrs |-> attrs, secret |-> secret]]

(* What is put into the request buffer for a server.                         *)
AuthFor(s) == IF code \in AuthenticatorAtSend THEN Digest(s.secret) ELSE auth
(* (PassKeyOnce is a mutant: scrambled for the first server only.)           *)
PassKeyOnce(s) ==
  IF code \notin AuthenticatorAtSend /\ pass_pos # 0 /\ pass_key = NoKey
    THEN KeyWith(s.secret) ELSE pass_key
PassKeyFor(s) ==
  IF code \notin AuthenticatorAtSend /\ pass_pos # 0
    THEN KeyWith(s.secret) ELSE pass_key

(* insert_scrambled_password writes over the last bytes of what was put      *)
(* before the password when its placeholder did not fit.  Nobody can make    *)
(* out an attribute whose bytes these are.                                   *)
LiesUnderPassword(a) ==
  /\ a.off - 2 < pass_pos + PaddedLen(pass_len) /\ pass_pos < EndOf(a)
  /\ ~(a.type = RAD_USER_PASSWORD /\ a.off = pass_pos)
Scrambled(a) ==
  IF LiesUnderPassword(a)
    THEN [a EXCEPT !.type = Overwritten, !.sub = Plain, !.key = NoKey] ELSE a
AttrsSent ==
  IF code \notin AuthenticatorAtSend /\ pass_pos # 0
    THEN [i \in 1..Len(attrs) |-> Scrambled(attrs[i])] ELSE attrs

(* Scan from a server, insert the authenticator or the password, and send.   *)
(* sendto may fail, which ends the whole send.                               *)
Transmit(from, tries, count) ==
  IF \A i \in 1..Len(servers) : ~HasTriesLeft(i, tries)
    THEN /\ pc' = "spin"
         /\ ret' = "none"
         /\ num_tries' = tries
         /\ try' = count
         /\ UNCHANGED <<srv, auth, attrs, pass_key, sent>>
    ELSE LET next == NextServer(from, tries)
             s == servers[next]
         IN  /\ srv' = next
             /\ auth' = AuthFor(s)
             /\ pass_key' = PassKeyFor(s)
             /\ attrs' = AttrsSent
             /\ \/ /\ sent' = sent \cup
                        {[dst |-> s, code |-> code, ident |-> ident, auth |-> auth',
                          attrs |-> attrs', pass |-> pass_key', gen |-> nonce]}
                   /\ num_tries' = [tries EXCEPT ![next] = @ + 1]
                   /\ try' = count + 1
                   /\ pc' = "select"
                   /\ ret' = "none"
                \/ /\ num_tries' = tries
                   /\ try' = count
                   /\ pc' = "idle"
                   /\ ret' = "io_error"
                   /\ UNCHANGED sent

RequestUnchanged ==
  UNCHANGED <<request_created, code, ident, req_len, pass_len, pass_pos,
              chap_pass, nonce>>

-----------------------------------------------------------------------------
(* rad_send_request up to its first select: rad_init_send_request.           *)

(* Mutant: both kinds of password at once are let through.                   *)
PasswordsFitBoth ==
  IF code \in AuthenticatorAtSend
    THEN pass_pos = 0 /\ ~chap_pass
    ELSE pass_pos # 0 \/ chap_pass

(* An access request has a User-Password or CHAP credentials, not both; any  *)
(* other request has neither.                                                *)
PasswordsFit ==
  IF code \in AuthenticatorAtSend
    THEN pass_pos = 0 /\ ~chap_pass
    ELSE (pass_pos # 0) # chap_pass

(* socket or bind fails.                                                     *)
SendWithoutSocket ==
  /\ pc = "idle"
  /\ ~fd
  /\ ret' = "io_error"
  /\ RequestUnchanged
  /\ UNCHANGED <<auth, attrs, handleVars, rcvbuf>>

SendRefused ==
  /\ pc = "idle"
  /\ ~PasswordsFit
  /\ fd' = TRUE
  /\ ret' = "refused"
  /\ RequestUnchanged
  /\ UNCHANGED <<auth, attrs, servers, num_tries, srv, try, total_tries, pass_key,
                 response, pc, sent, rcvbuf>>

(* Mutant: the counters of the last send are kept.                           *)
KeepTries == num_tries

NoTries == [i \in 1..Len(servers) |-> 0]

SendNoServers ==
  /\ pc = "idle"
  /\ PasswordsFit
  /\ TotalTries(servers) = 0
  /\ fd' = TRUE
  /\ total_tries' = 0
  /\ num_tries' = NoTries
  /\ ret' = "refused"
  /\ RequestUnchanged
  /\ UNCHANGED <<auth, attrs, servers, srv, try, pass_key, response, pc, sent, rcvbuf>>

Send ==
  /\ pc = "idle"
  /\ PasswordsFit
  /\ TotalTries(servers) # 0
  /\ fd' = TRUE
  /\ total_tries' = TotalTries(servers)
  /\ Transmit(1, NoTries, 0)
  /\ RequestUnchanged
  /\ UNCHANGED <<servers, response, rcvbuf>>

-----------------------------------------------------------------------------
(* The loop of rad_send_request.                                             *)

(* Mutants: the authenticator, or the source address, is not checked.        *)
IsValidAnyAuth(r) ==
  /\ r.from = servers[srv].addr
  /\ r.got >= POS_ATTRS
  /\ r.length <= r.got
  /\ r.secret = servers[srv].secret
IsValidAnySource(r) ==
  /\ r.got >= POS_ATTRS
  /\ r.length <= r.got
  /\ r.auth = auth
  /\ r.secret = servers[srv].secret

(* is_valid_response: from the server contacted last, not longer than it     *)
(* says, and with the digest of an answer to the request in the buffer.      *)
IsDigested(r) ==
  /\ r.from = servers[srv].addr
  /\ r.got >= POS_ATTRS
  /\ r.length <= r.got
IsValid(r) ==
  /\ IsDigested(r)
  /\ r.auth = auth
  /\ r.secret = servers[srv].secret

(* The digest is taken over length - POS_ATTRS bytes of attributes, a size   *)
(* without a sign: with a length below POS_ATTRS it runs off the memory of   *)
(* the process.                                                              *)
OverrunsDigest(r) == IsDigested(r) /\ r.length < POS_ATTRS

(* Mutant: round robin, with counters that start again at every server.      *)
TryForever == Transmit((srv % Len(servers)) + 1, NoTries, 0)

(* rad_continue_send_request when there is no answer: the next transmission, *)
(* or the end.                                                               *)
TryAgain ==
  \/ /\ try = total_tries
     /\ pc' = "idle"
     /\ ret' = "no_valid_response"
     /\ UNCHANGED <<srv, num_tries, try, auth, attrs, pass_key, sent>>
  \/ /\ try # total_tries
     /\ Transmit(srv, num_tries, try)

(* The time is up and nothing has arrived.                                   *)
Timeout ==
  /\ pc = "select"
  /\ rcvbuf = << >>
  /\ TryAgain
  /\ RequestUnchanged
  /\ UNCHANGED <<servers, total_tries, fd, response, rcvbuf>>

(* recvfrom.                                                                 *)
Receive ==
  /\ pc = "select"
  /\ rcvbuf # << >>
  /\ response' = Head(rcvbuf)
  /\ rcvbuf' = Tail(rcvbuf)

(* A datagram is read whose digest cannot be taken.                          *)
ReceiveShort ==
  /\ Receive
  /\ OverrunsDigest(response')
  /\ pc' = "idle"
  /\ ret' = "crash"
  /\ RequestUnchanged
  /\ UNCHANGED <<auth, attrs, servers, num_tries, srv, try, total_tries, fd,
                 pass_key, sent>>

(* A datagram is read and is not a valid answer: the next transmission       *)
(* follows at once, whatever time was left.                                  *)
ReceiveInvalid ==
  /\ Receive
  /\ ~OverrunsDigest(response') /\ ~IsValid(response')
  /\ TryAgain
  /\ RequestUnchanged
  /\ UNCHANGED <<servers, total_tries, fd>>

(* A valid answer ends the send, except one with code 0, which the loop of   *)
(* rad_send_request takes for "no event".                                    *)
ReceiveValid ==
  /\ Receive
  /\ ~OverrunsDigest(response') /\ IsValid(response')
  /\ IF response'.code = 0
       THEN UNCHANGED <<pc, ret>>
       ELSE pc' = "idle" /\ ret' = "reply"
  /\ RequestUnchanged
  /\ UNCHANGED <<auth, attrs, servers, num_tries, srv, try, total_tries, fd, pass_key,
                 sent>>

(* select or recvfrom fails.                                                 *)
WaitFails ==
  /\ pc = "select"
  /\ pc' = "idle"
  /\ ret' = "io_error"
  /\ RequestUnchanged
  /\ UNCHANGED <<auth, attrs, servers, num_tries, srv, try, total_tries, fd, pass_key,
                 response, sent, rcvbuf>>

-----------------------------------------------------------------------------
(* The network.                                                              *)

Arrive(from, code_, auth_, secret, size) ==
  /\ Running
  /\ fd
  /\ Len(rcvbuf) < MaxBuffered
  /\ rcvbuf' = Append(rcvbuf,
       [from |-> from, got |-> size[1], length |-> size[2], code |-> code_,
        auth |-> auth_, secret |-> secret])
  /\ UNCHANGED <<requestVars, handleVars>>

(* A server answers a datagram it got, now or long after.                    *)
Answer ==
  \E d \in sent, c \in ReplyCodes, size \in ReplySizes :
    Arrive(d.dst.addr, c, d.auth, d.dst.secret, size)

(* A datagram from a source that does not know the server's secret, or from  *)
(* another address than the one that was asked.                              *)
Stray ==
  \E s \in Strays, d \in sent, size \in ReplySizes :
    \E c \in ReplyCodes :
      /\ s # <<d.dst.addr, d.dst.secret>>
      /\ Arrive(s[1], c, d.auth, s[2], size)

-----------------------------------------------------------------------------
SendInit ==
  /\ Init
  /\ servers = << >>
  /\ num_tries = << >>
  /\ srv = 1
  /\ try = 0           \* try and total_tries are indeterminate until the first
  /\ total_tries = 0   \* send, which sets them before it reads them
  /\ fd = FALSE
  /\ pass_key = NoKey
  /\ response = NoReply
  /\ pc = "idle"
  /\ rcvbuf = << >>
  /\ sent = {}

Call ==
  /\ Running
  /\ \/ AddServer \/ BuildRequest \/ SendWithoutSocket \/ SendRefused
     \/ SendNoServers \/ Send
Wait == Timeout \/ ReceiveShort \/ ReceiveInvalid \/ ReceiveValid \/ WaitFails
Network == Answer \/ Stray
Over == ~Running /\ UNCHANGED vars

SendNext == Call \/ Wait \/ Network \/ Over
SendSpec == SendInit /\ [][SendNext]_vars

(* select has a finite timeout, so a process in its loop keeps going.        *)
FairSpec ==
  SendSpec /\ WF_vars(Timeout \/ ReceiveShort \/ ReceiveInvalid \/ ReceiveValid)

-----------------------------------------------------------------------------
(* Properties.                                                               *)

(* Type correctness of rad_handle, its socket and the datagrams sent.        *)
SendTypeOK ==
  /\ RequestTypeOK
  /\ servers \in Seq(Servers)
  /\ Len(servers) <= MAXSERVERS
  /\ num_tries \in [1..Len(servers) -> Nat]
  /\ srv \in Nat \ {0}
  /\ try \in Nat
  /\ total_tries \in Int
  /\ fd \in BOOLEAN
  /\ pass_key \in Keys
  /\ response \in Replies \cup {NoReply}
  /\ pc \in {"idle", "select", "spin"}
  /\ pc = "select" => srv <= Len(servers)
  /\ rcvbuf \in Seq(Replies)
  /\ sent \subseteq Datagrams

(* Failover goes through the table once, in order: while rad_send_request    *)
(* waits, the servers before the current one have used up their tries, the   *)
(* current one has been tried, and the ones after it have not.               *)
FailoverInOrder ==
  pc = "select" =>
    /\ \A i \in 1..(srv - 1) : ~HasTriesLeft(i, num_tries)
    /\ num_tries[srv] > 0
    /\ \A i \in (srv + 1)..Len(servers) : num_tries[i] = 0

(* "Number of tries before giving up" (struct rad_server): no server is ever *)
(* tried more often, and a send that gives up for want of an answer has used *)
(* every try of every server.                                                *)
TriesAreUsedExactly ==
  /\ \A i \in 1..Len(servers) :
       num_tries[i] > 0 => num_tries[i] <= servers[i].max_tries
  /\ ret = "no_valid_response" =>
       \A i \in 1..Len(servers) : ~HasTriesLeft(i, num_tries)

(* The comment in rad_continue_send_request: the scan for a server with      *)
(* tries left always finds one.                                              *)
ScanFindsServer == pc # "spin"

IsPassword(a) == a.type = RAD_USER_PASSWORD
Carries(d, P(_)) == \E i \in 1..Len(d.attrs) : P(d.attrs[i])

(* A datagram of an earlier request that no answer can tell from the request *)
(* in the buffer: the identifier has come round, and the content is the same. *)
IsTwin(d) ==
  /\ code \in AuthenticatorAtSend
  /\ d.code = code /\ d.ident = ident /\ d.attrs = attrs

(* An answer is accepted only for the request in the buffer: its source is   *)
(* the server contacted last, that server was sent this very request, and    *)
(* the authenticator the answer refers to was never used for another one,    *)
(* except for an accounting request that repeats an earlier one after the    *)
(* identifier has wrapped: the digests of the two are the same.              *)
(* Late answers to an earlier request, and answers of servers that have been *)
(* given up, are not mistaken for it.                                        *)
AcceptedAnswerIsOurs ==
  ret = "reply" =>
    /\ \E d \in sent :
         /\ d.gen = nonce /\ d.ident = ident /\ d.dst = servers[srv]
         /\ d.auth = response.auth
         /\ d.dst.addr = response.from /\ d.dst.secret = response.secret
    /\ \A d \in sent : d.auth = response.auth => d.gen = nonce \/ IsTwin(d)

(* The server a password is sent to can read it: in every datagram, also a   *)
(* retransmission to another server, it is scrambled with the secret of the  *)
(* destination and the authenticator next to it.                             *)
PasswordOpensAtServer ==
  \A d \in sent :
    Carries(d, IsPassword) =>
      IsRandom(d.auth) /\ d.pass = [secret |-> d.dst.secret, nonce |-> d.auth.random]

(* rad_init_send_request keeps passwords out of the requests that may not    *)
(* have any, and the two kinds of password apart, also when the application  *)
(* adds to a request between two sends.                                      *)
PasswordsAreKeptApart ==
  \A d \in sent :
    /\ d.code \in AuthenticatorAtSend =>
         ~Carries(d, IsPassword) /\ ~Carries(d, IsChap)
    /\ ~(Carries(d, IsPassword) /\ Carries(d, IsChap))

(* A retransmission repeats its request to the last byte, so an answer to    *)
(* any of the copies counts for all of them.                                 *)
RetransmissionIsIdentical ==
  \A d, e \in sent :
    d.gen = e.gen /\ d.dst = e.dst /\ d.attrs = e.attrs => d = e

(* Nothing is sent before rad_create_request has been called.                *)
NothingSentUncreated == \A d \in sent : d.gen > 0

(* A valid answer of code 0 is read: it uses no try and ends no send.        *)
ReadCodeZero == ReceiveValid /\ pc' = "select"

(* Whatever arrives, in whatever order and however often, a send ends: with  *)
(* an answer, or having used its tries, or with an error.  The one thing     *)
(* that keeps it waiting is a stream of valid answers of code 0 without end: *)
(* it is what the comment "Number of tries before giving up" leaves out.     *)
SendReturns == (pc = "select" ~> pc = "idle") \/ []<><<ReadCodeZero>>_vars

(* The comment in is_valid_response, "Check the message length": a datagram  *)
(* that cannot be an answer is passed over.                                  *)
DatagramIsSurvived == [][pc = "select" => ret' # "crash"]_vars

(* The comment in rad_init_send_request, "Make sure the user gave us a       *)
(* password": an access request on the wire carries one.                     *)
AccessRequestCarriesPassword ==
  \A d \in sent :
    d.code \notin AuthenticatorAtSend =>
      Carries(d, IsPassword) \/ Carries(d, IsChap)

(* The comments in put_password_attr, "Put in a place-holder attribute", and *)
(* in insert_scrambled_password, "copy the result into the right place in    *)
(* the request": a password is written over no other attribute.              *)
PasswordGoesToItsPlace ==
  \A d \in sent : \A i \in 1..Len(d.attrs) : d.attrs[i].type # Overwritten

(* The comments in rad_salt_value, "Grab the request authenticator" and      *)
(* "Grab the server secret": a salted value on the wire is encrypted with    *)
(* those of the datagram that carries it.                                    *)
SaltOpensAtServer ==
  \A d \in sent : \A i \in 1..Len(d.attrs) :
    d.attrs[i].key # NoKey =>
      /\ d.attrs[i].key.secret = d.dst.secret
      /\ d.auth = Random(d.attrs[i].key.nonce)
=============================================================================
