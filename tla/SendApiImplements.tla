-------------------------- MODULE SendApiImplements --------------------------
(* The handler of module SendApi implements SendContract: a request is     *)
(* open while its goroutine runs, and nothing is said of requests that     *)
(* only create a session.                                                  *)
EXTENDS SendApi

Sending(a) == req[a] # Nobody /\ req[a].handler = "send"

Phase ==
  [a \in Attempts |->
     IF ~Sending(a) THEN "none"
     ELSE IF pc[a] = "done" THEN "answered" ELSE IF pc[a] = "cut" THEN "cut" ELSE "open"]

Token == [a \in Attempts |-> IF a \in Keyed THEN {Scoped(a)} ELSE {}]

AnswerTold == [a \in Attempts |-> IF Sending(a) THEN reply[a] ELSE "none"]

Taken == {a \in Attempts : accepted[a] > 0}

Joined == {s \o k : s \in Sessions, k \in Keys}

Abstract == INSTANCE SendContract WITH
  Tokens <- Joined, phase <- Phase, token <- Token, answer <- AnswerTold, taken <- Taken

(* Refinement: whatever the handlers of repeated requests do at the same   *)
(* time, with a table whose inserts fail, sessions that are created on the *)
(* way, lost answers and restarts, is something that the contract of       *)
(* idempotency keys allows.                                                *)
Contract == Abstract!Spec
=============================================================================
