-------------------------- MODULE WSClientInvariant --------------------------
(***************************************************************************)
(* The inductive invariant behind the safety properties of WSClient.  Its  *)
(* idea: the number of a call is its own, and the channel of a request is  *)
(* in one place at a time: not used yet, in the map, in the hands of       *)
(* resolvePending, in those of clearActiveConn, or filled.                 *)
(***************************************************************************)
EXTENDS WSClient

(* Numbers are handed out once.                                            *)
NumbersUnique ==
  /\ \A c \in Callers : num[c] <= requestID /\ (pc[c] = "idle" <=> num[c] = 0)
  /\ \A c, d \in Callers : num[c] = num[d] /\ num[c] # 0 => c = d

(* The locals of a call exist only while it runs.                          *)
LocalsFresh ==
  \A c \in Callers :
    /\ pc[c] = "idle" => attempt[c] = "first"
    /\ got[c] # {} => pc[c] = "return"
    /\ pc[c] \in {"register"} \cup Registered => lconn[c] # NoConn

(* What the goroutine of App.Run carries between two critical sections.    *)
HandsEmpty ==
  /\ held # {} => serve = "deliver"
  /\ AtMostOne(held)
  /\ waking # {} => serve = "wake"

InHand(x) == x \in waking \/ \E h \in held : h.chan = x
InMap(x) == \E e \in pending : e.chan = x
Unused(x) == chan[x] = {} /\ ~InHand(x) /\ ~InMap(x)

OnePlace ==
  /\ \A x \in Chans : chan[x] # {} => ~InMap(x) /\ ~InHand(x)
  /\ \A x \in Chans : InMap(x) => ~InHand(x)

ChansFresh ==
  \A c \in Callers :
    /\ pc[c] \in {"idle", "call", "register"} => Unused(Ch(c))
    /\ attempt[c] = "first" => Unused(<<c, "fallback">>)

(* The id of the request whose answer channel x is for.                    *)
IdOf(x) == [num |-> num[x[1]], attempt |-> x[2]]

AnswersOwn ==
  /\ \A x \in Chans : \A m \in chan[x] \ {Closed} : m \in answers /\ m.id = IdOf(x)
  /\ \A h \in held : h.frame \in answers /\ h.frame.id = IdOf(h.chan)

WritersLocked ==
  /\ \A c \in Callers : pc[c] = "write" => c \in writeMu
  /\ ~AutoSend => /\ serve \notin {"autosend", "autosending"}
                  /\ \A c \in writeMu : pc[c] = "write"

(* What is at the gateway carries the number of the caller that asked or   *)
(* of an automatic message, and was written by then.  One answer to each.  *)
Asked(i) ==
  /\ i.num \in 1 .. requestID
  /\ \A c \in Callers : i.num = num[c] =>
       /\ i.attempt = "fallback" => attempt[c] = "fallback"
       /\ i.attempt = attempt[c] =>
            pc[c] \in {"wait", "return", "done"} /\ result[c] # "ws_not_connected"

(* The gateway has rejected the optional parameters of c's first request.  *)
ParamsRejected(c) ==
  /\ op[c] \in WithOptions
  /\ \E f \in answers : f.id = [num |-> num[c], attempt |-> "first"] /\ f.body = "badParam"

RequestsTell ==
  /\ \A k \in Conns : \A i \in arrived[k] : Asked(i)
  /\ \A f \in answers : \E k \in Conns : f.id \in arrived[k]
  /\ \A f, g \in answers : f.id = g.id => f = g
  /\ \A c \in Callers :
       /\ attempt[c] = "fallback" => ParamsRejected(c)
       /\ pc[c] # "done" => result[c] = "none"
       /\ serve = "autosending" => autoNum # num[c]
  /\ serve = "autosending" => autoNum \in 1 .. requestID

(* The inductive invariant: it holds of every reachable state, and every   *)
(* step of the client or of its environment preserves it.                  *)
IInv ==
  /\ TypeOK
  /\ NumbersUnique
  /\ LocalsFresh
  /\ HandsEmpty
  /\ NoPendingLeak
  /\ OnePlace
  /\ ChansFresh
  /\ AnswersOwn
  /\ ReplyMatchesRequest
  /\ WritersLocked
  /\ OneConnection
  /\ NoLostWakeup
  /\ RequestsTell
=============================================================================
