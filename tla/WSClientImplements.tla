-------------------------- MODULE WSClientImplements --------------------------
(* The client of module WSClient implements RpcContract: a call is open    *)
(* while its goroutine runs, and the verdicts on it are the answers of the *)
(* gateway to the requests that carry its number.                          *)
EXTENDS WSClient

Phase == [c \in Callers |->
            IF pc[c] = "idle" THEN "idle" ELSE IF pc[c] = "done" THEN "closed" ELSE "open"]

ToldOf(c) ==
  {[attempt |-> f.id.attempt, body |-> f.body] : f \in {g \in answers : g.id.num = num[c]}}

Told == [c \in Callers |-> ToldOf(c)]

Abstract == INSTANCE RpcContract WITH phase <- Phase, told <- Told

(* Refinement: every execution of the client, with its reused map, its     *)
(* late and repeated answers, its timers and its reconnections, is one     *)
(* that the contract of a single isolated call allows.                     *)
Contract == Abstract!Spec

(* So the outcome tells the handler what became of its request, however    *)
(* late the gateway executes it.                                           *)
OutcomesBind == Abstract!Promise
=============================================================================
