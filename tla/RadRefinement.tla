--------------------------- MODULE RadRefinement ----------------------------
(* RadSend implements RadExchange.                                           *)
EXTENDS RadSend

(* The servers that have been sent the request in the buffer ...             *)
Asked == {d.dst : d \in {e \in sent : e.gen = nonce}}

(* ... and those of them with an answer to it in the receive buffer.         *)
Answered ==
  {d.dst : d \in {e \in sent :
     /\ e.gen = nonce
     /\ \E i \in 1..Len(rcvbuf) :
          /\ rcvbuf[i].from = e.dst.addr
          /\ rcvbuf[i].secret = e.dst.secret
          /\ rcvbuf[i].auth = e.auth}}

Verdict ==
  CASE ret = "reply" -> "answered"
    [] ret = "no_valid_response" -> "gave_up"
    [] ret \in {"refused", "io_error", "crash", "fatal"} -> "failed"
    [] OTHER -> "none"

Waiting == pc = "select"

Exchange == INSTANCE RadExchange WITH
  Peers <- ServerMenu,
  phase <- IF Waiting THEN "waiting" ELSE "idle",
  left <- IF Waiting
            THEN [i \in 1..Len(servers) |-> servers[i].max_tries - num_tries[i]]
            ELSE << >>,
  dest <- IF Waiting THEN servers[srv] ELSE [addr |-> "none"],
  asked <- Asked,
  answers <- Answered,
  verdict <- Verdict

(* Every behaviour of the library is one the abstract exchange allows: what  *)
(* it accepts answers the request in the buffer, and it gives up only when   *)
(* no server has tries left.                                                 *)
ImplementsExchange == Exchange!Spec
=============================================================================
