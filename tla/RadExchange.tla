---------------------------- MODULE RadExchange -----------------------------
(* What rad_send_request promises its caller, without sockets, buffers or    *)
(* digests: a request is sent to one server at a time, every server as often *)
(* as its limit says; the call ends with an answer to this very request from *)
(* the server asked last, or gives up when no tries are left, or fails.      *)
EXTENDS Naturals, Sequences

CONSTANT Peers   \* the servers that may be asked

VARIABLES
  phase,     \* "idle" or "waiting"
  left,      \* the tries left of each server while waiting
  dest,      \* the server asked last
  asked,     \* the servers that were sent the current request
  answers,   \* those whose answer to it is there to be read
  verdict    \* how the last call ended

vars == <<phase, left, dest, asked, answers, verdict>>

Nobody == [addr |-> "none"]

Init ==
  /\ phase = "idle"
  /\ left = << >>
  /\ dest = Nobody
  /\ asked = {}
  /\ answers = {}
  /\ verdict = "none"

(* A new request: no server has been asked, and no answer is one to it.      *)
NewRequest ==
  /\ phase = "idle"
  /\ asked' = {}
  /\ answers' = {}
  /\ verdict' = "none"
  /\ UNCHANGED <<phase, left, dest>>

(* Any other call, and a send that fails before its first transmission.      *)
OtherCall ==
  /\ phase = "idle"
  /\ verdict' \in {"none", "failed"}
  /\ UNCHANGED <<phase, left, dest, asked, answers>>

(* Ask a server; what is there to be read may change meanwhile.              *)
Ask(p) ==
  /\ phase' = "waiting"
  /\ dest' = p
  /\ asked' = asked \cup {p}
  /\ answers' \subseteq asked'
  /\ verdict' = "none"

Begin ==
  /\ phase = "idle"
  /\ left' \in Seq(Nat)
  /\ \E p \in Peers : Ask(p)

Retry ==
  /\ phase = "waiting"
  /\ \E i \in DOMAIN left : left[i] > 0 /\ left' = [left EXCEPT ![i] = @ - 1]
  /\ \E p \in Peers : Ask(p)

End(v) ==
  /\ phase = "waiting"
  /\ phase' = "idle"
  /\ left' = << >>
  /\ dest' = Nobody
  /\ answers' \subseteq asked
  /\ verdict' = v
  /\ UNCHANGED asked

Accept == dest \in answers /\ End("answered")
GiveUp == (\A i \in DOMAIN left : left[i] = 0) /\ End("gave_up")
Fail == End("failed")

(* Answers arrive, are lost, or are passed over.                             *)
Network ==
  /\ answers' \subseteq asked
  /\ UNCHANGED <<phase, left, dest, asked, verdict>>

Next == NewRequest \/ OtherCall \/ Begin \/ Retry \/ Accept \/ GiveUp \/ Fail
          \/ Network

Spec == Init /\ [][Next]_vars
=============================================================================
