----------------------------- MODULE JobContract -----------------------------
(***************************************************************************)
(* What POST /v1/hermes/send promises once it has answered 202 "queued":   *)
(* the job comes to one verdict, the receiver is told that verdict and no  *)
(* other, a bounded number of times and only while the job lives.  A job   *)
(* that is not told of, or that vanishes with the process, is allowed:     *)
(* 202 promises neither.                                                   *)
(***************************************************************************)
EXTENDS Naturals

CONSTANT MaxTellings

VARIABLES
  phase,    \* none, queued, decided or ended
  verdict,  \* none, ok or failed
  told      \* callbacks that the receiver took

vars == <<phase, verdict, told>>

Init == phase = "none" /\ verdict = "none" /\ told = 0

Queue == phase = "none" /\ phase' = "queued" /\ UNCHANGED <<verdict, told>>

Decide ==
  /\ phase = "queued"
  /\ phase' = "decided"
  /\ verdict' \in {"ok", "failed"}
  /\ UNCHANGED told

Tell ==
  /\ phase = "decided"
  /\ told < MaxTellings
  /\ told' = told + 1
  /\ UNCHANGED <<phase, verdict>>

End ==
  /\ phase \in {"queued", "decided"}
  /\ phase' = "ended"
  /\ UNCHANGED <<verdict, told>>

Next == Queue \/ Decide \/ Tell \/ End

Spec == Init /\ [][Next]_vars
=============================================================================
