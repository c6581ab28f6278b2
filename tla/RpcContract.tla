----------------------------- MODULE RpcContract -----------------------------
(***************************************************************************)
(* What SendSessionMessage and CreateSession promise to the handlers that  *)
(* call them, whatever happens to connections and frames:                  *)
(*   - the gateway executes the request of a call at most once, and the    *)
(*     fallback of a CreateSession only after it has rejected the optional *)
(*     parameters of the first request;                                    *)
(*   - a verdict (success or rejection) is the gateway's, on that very     *)
(*     call;                                                               *)
(*   - ws_not_connected means that no request is left for the gateway to   *)
(*     execute, while gateway_connectivity_error leaves that open;         *)
(*   - a call has one outcome, which never changes.                        *)
(***************************************************************************)
CONSTANTS Callers, Ops, Bodies

VARIABLES
  phase,    \* of each call
  op,       \* the operation each caller performs
  told,     \* the gateway's verdicts on the requests of each call
  result    \* the outcome of each call

vars == <<phase, op, told, result>>

Verdicts == [attempt : {"first", "fallback"}, body : Bodies]
RejectedParams == [attempt |-> "first", body |-> "badParam"]

Anonymous == {"createAnon", "createAnonOpts"}     \* no session key is given
WithOptions == {"createOpts", "createAnonOpts"}   \* a workspace or an agent id is

(* The outcome that a verdict on operation o amounts to.                   *)
Accepted(o, v) == v.body = "ok" \/ (v.body = "noKey" /\ o \notin Anonymous)
Rejection(o) == IF o = "send" THEN "send_rejected" ELSE "session_create_rejected"

Init ==
  /\ phase = [c \in Callers |-> "idle"]
  /\ op \in [Callers -> Ops]
  /\ told = [c \in Callers |-> {}]
  /\ result = [c \in Callers |-> "none"]

Issue(c) ==
  /\ phase[c] = "idle"
  /\ phase' = [phase EXCEPT ![c] = "open"]
  /\ UNCHANGED <<op, told, result>>

GatewayExecutes(c, v) ==
  /\ phase[c] # "idle"
  /\ result[c] # "ws_not_connected"
  /\ \A w \in told[c] : w.attempt # v.attempt
  /\ v.attempt = "fallback" => op[c] \in WithOptions /\ RejectedParams \in told[c]
  /\ told' = [told EXCEPT ![c] = @ \cup {v}]
  /\ UNCHANGED <<phase, op, result>>

Close(c, r) ==
  /\ phase[c] = "open"
  /\ phase' = [phase EXCEPT ![c] = "closed"]
  /\ result' = [result EXCEPT ![c] = r]
  /\ UNCHANGED <<op, told>>

(* A rejection of the optional parameters is final for nobody but the      *)
(* callers that did not give them.                                         *)
Conclude(c) ==
  \E v \in told[c] :
    \/ Accepted(op[c], v) /\ Close(c, "ok")
    \/ /\ ~Accepted(op[c], v)
       /\ ~(op[c] \in WithOptions /\ v = RejectedParams)
       /\ Close(c, Rejection(op[c]))

GiveUp(c) ==
  \/ told[c] \subseteq {RejectedParams} /\ Close(c, "ws_not_connected")
  \/ \E r \in {"gateway_connectivity_error", "aborted"} : Close(c, r)

Next ==
  \E c \in Callers :
    \/ Issue(c) \/ Conclude(c) \/ GiveUp(c)
    \/ \E v \in Verdicts : GatewayExecutes(c, v)

Spec == Init /\ [][Next]_vars

(* What a handler may conclude from the outcome, now and for ever: the     *)
(* gateway accepts an operation once at the most, the fallback included;   *)
(* after ok it did, after a rejection or ws_not_connected it never will.   *)
(* Only gateway_connectivity_error leaves it open.                         *)
AcceptedVerdicts(c) == {v \in told[c] : Accepted(op[c], v)}

Promise ==
  \A c \in Callers :
    /\ \A v, w \in AcceptedVerdicts(c) : v = w
    /\ result[c] = "ok" => AcceptedVerdicts(c) # {}
    /\ result[c] \in {Rejection(op[c]), "ws_not_connected"} => AcceptedVerdicts(c) = {}
=============================================================================
