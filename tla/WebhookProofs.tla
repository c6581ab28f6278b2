---------------------------- MODULE WebhookProofs ----------------------------
(* Proofs about Webhook, for the modules that compose it: its invariant    *)
(* holds at the start and is kept by every step, whatever ends contexts.   *)
EXTENDS Webhook, TLAPS

(* At the start nothing has been sent.                                     *)
LEMMA WebhookInitOK ==
  ASSUME WebhookInit
  PROVE  WebhookInv
BY WebhookAssumption
   DEF WebhookInit, WebhookInv, WebhookTypeOK, Progress, RepeatsAreLostAnswers, WebhookPCs,
       WebhookAssumption

(* A call starts with its first attempt.                                   *)
LEMMA CallOK ==
  ASSUME WebhookInv, NEW d \in Deliveries, Call(d)
  PROVE  WebhookInv'
BY WebhookAssumption
   DEF Call, GoTo, WebhookInv, WebhookTypeOK, Progress, RepeatsAreLostAnswers, WebhookPCs, Results,
       WebhookAssumption

(* An error ends the delivery or makes it wait.                            *)
LEMMA FailedOK ==
  ASSUME WebhookInv, NEW d \in Deliveries, Failed(d)
  PROVE  /\ attempt' = attempt
         /\ \E p \in {"failed", "delay"} :
              /\ wpc' = [wpc EXCEPT ![d] = p]
              /\ p = "delay" => attempt[d] < MaxAttempts
<1>1. attempt[d] \in 0 .. MaxAttempts
  BY DEF WebhookInv, WebhookTypeOK
<1>2. ~Spent(d) => attempt[d] < MaxAttempts
  BY <1>1, WebhookAssumption DEF Spent, WebhookAssumption
<1>3. CASE Spent(d)
  <2>1. wpc' = [wpc EXCEPT ![d] = "failed"] /\ attempt' = attempt
    BY <1>3 DEF Failed, GoTo
  <2> QED
    BY <2>1
<1>4. CASE ~Spent(d)
  <2>1. wpc' = [wpc EXCEPT ![d] = "delay"] /\ attempt' = attempt
    BY <1>4 DEF Failed, GoTo
  <2> QED
    BY <1>2, <1>4, <2>1
<1> QED
  BY <1>3, <1>4

(* The loop keeps its account of requests and answers.                     *)
LEMMA WebhookStepOK ==
  ASSUME WebhookInv, NEW d \in Deliveries, WebhookStep(d)
  PROVE  WebhookInv'
<1> USE WebhookAssumption
    DEF GoTo, WebhookInv, WebhookTypeOK, Progress, RepeatsAreLostAnswers, WebhookPCs, Results,
        WebhookAssumption
<1>1. CASE Post(d)
  <2>1. CASE d \in ended
    BY <1>1, <2>1, FailedOK DEF Post
  <2>2. CASE d \notin ended
    BY <1>1, <2>2 DEF Post
  <2> QED
    BY <2>1, <2>2
<1>2. CASE Delivered(d)
  BY <1>2 DEF Delivered
<1>3. CASE Refused(d)
  BY <1>3, FailedOK DEF Refused
<1>4. CASE AnswerLost(d)
  BY <1>4, FailedOK DEF AnswerLost
<1>5. CASE Again(d)
  BY <1>5 DEF Again
<1>6. CASE GiveUp(d)
  BY <1>6 DEF GiveUp
<1> QED
  BY <1>1, <1>2, <1>3, <1>4, <1>5, <1>6 DEF WebhookStep

(* Steps of others keep it.                                                *)
LEMMA WebhookIdleOK ==
  ASSUME WebhookInv, UNCHANGED webhookVars
  PROVE  WebhookInv'
BY DEF webhookVars, WebhookInv, WebhookTypeOK, Progress, RepeatsAreLostAnswers
=============================================================================
