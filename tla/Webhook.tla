------------------------------- MODULE Webhook -------------------------------
(***************************************************************************)
(* internal/webhook: sendToURL, the loop of Send and SendToURL.  A         *)
(* delivery is one call of it.  It posts the payload until a receiver      *)
(* answers 2xx, waits longer before each further attempt, and looks at its *)
(* context in every wait.                                                  *)
(*                                                                         *)
(* The module says nothing of time: a module that composes it says when a  *)
(* context has ended (ended is only read here) and when waits are over.    *)
(* Payloads are built from maps that were decoded from JSON, so that the   *)
(* marshalling at the start never fails.                                   *)
(***************************************************************************)
EXTENDS Naturals

CONSTANTS
  Deliveries,   \* calls of sendToURL
  MaxAttempts   \* HTTP_RETRY_COUNT + 1; Validate asks that the count be >= 0

ASSUME WebhookAssumption == MaxAttempts \in Nat \ {0}

VARIABLES
  ended,    \* deliveries whose context has ended
  wpc,      \* control point
  attempt,  \* the loop variable
  posted,   \* history: requests that were given to the network
  heard,    \* the receiver: requests of this delivery that it took
  lost      \* history: those it took, though the client saw an error

webhookVars == <<wpc, attempt, posted, heard, lost>>

WebhookInit ==
  /\ wpc = [d \in Deliveries |-> "idle"]
  /\ attempt = [d \in Deliveries |-> 0]
  /\ posted = [d \in Deliveries |-> 0]
  /\ heard = [d \in Deliveries |-> 0]
  /\ lost = [d \in Deliveries |-> 0]

Results == {"ok", "failed", "cancelled"}

GoTo(d, p) == wpc' = [wpc EXCEPT ![d] = p]

(* sendToURL is called.                                                    *)
Call(d) ==
  /\ wpc[d] = "idle"
  /\ GoTo(d, "start")
  /\ attempt' = [attempt EXCEPT ![d] = 1]
  /\ UNCHANGED <<posted, heard, lost>>

BugSpent(d) == attempt[d] + 1 >= MaxAttempts      \* attempt < maxAttempts
Spent(d) == attempt[d] = MaxAttempts

(* sendOnce has returned an error.                                         *)
Failed(d) ==
  /\ GoTo(d, IF Spent(d) THEN "failed" ELSE "delay")
  /\ UNCHANGED attempt

(* Do sends nothing once the context has ended.                            *)
Post(d) ==
  /\ wpc[d] = "start"
  /\ IF d \in ended
       THEN Failed(d) /\ UNCHANGED posted
       ELSE /\ GoTo(d, "posting")
            /\ posted' = [posted EXCEPT ![d] = @ + 1]
            /\ UNCHANGED attempt
  /\ UNCHANGED <<heard, lost>>

(* The receiver takes the payload and answers 2xx.                         *)
Delivered(d) ==
  /\ wpc[d] = "posting"
  /\ GoTo(d, "ok")
  /\ heard' = [heard EXCEPT ![d] = @ + 1]
  /\ UNCHANGED <<attempt, posted, lost>>

(* It does not: no connection, no answer in time, or another status.       *)
Refused(d) ==
  /\ wpc[d] = "posting"
  /\ Failed(d)
  /\ UNCHANGED <<posted, heard, lost>>

(* It takes the payload, now or when the client has already turned away,   *)
(* but its answer is late, lost or cut off with the context.               *)
AnswerLost(d) ==
  /\ wpc[d] = "posting"
  /\ Failed(d)
  /\ heard' = [heard EXCEPT ![d] = @ + 1]
  /\ lost' = [lost EXCEPT ![d] = @ + 1]
  /\ UNCHANGED posted

(* HTTP_RETRY_DELAY_MS times the number of attempts so far have passed.    *)
(* When the context has ended as well, select takes either case.           *)
Again(d) ==
  /\ wpc[d] = "delay"
  /\ GoTo(d, "start")
  /\ attempt' = [attempt EXCEPT ![d] = @ + 1]
  /\ UNCHANGED <<posted, heard, lost>>

GiveUp(d) ==
  /\ wpc[d] = "delay"
  /\ d \in ended
  /\ GoTo(d, "cancelled")
  /\ UNCHANGED <<attempt, posted, heard, lost>>

WebhookStep(d) ==
  Post(d) \/ Delivered(d) \/ Refused(d) \/ AnswerLost(d) \/ Again(d) \/ GiveUp(d)

-----------------------------------------------------------------------------
WebhookPCs == {"idle", "start", "posting", "delay"} \cup Results

WebhookTypeOK ==
  /\ wpc \in [Deliveries -> WebhookPCs]
  /\ attempt \in [Deliveries -> 0 .. MaxAttempts]
  /\ posted \in [Deliveries -> 0 .. MaxAttempts]
  /\ heard \in [Deliveries -> Nat]
  /\ lost \in [Deliveries -> Nat]

(* What the number of requests has to do with the control point.           *)
Progress ==
  \A d \in Deliveries :
    /\ wpc[d] = "idle" <=> attempt[d] = 0
    /\ wpc[d] = "delay" => attempt[d] < MaxAttempts
    /\ posted[d] + (IF wpc[d] = "start" THEN 1 ELSE 0) <= attempt[d]
    /\ lost[d] + (IF wpc[d] \in {"posting", "ok"} THEN 1 ELSE 0) <= posted[d]

(* A receiver hears of a delivery more than once only as often as its      *)
(* answer did not reach the client; the caller is told of success only if  *)
(* the receiver took the payload, and the receiver is asked at most        *)
(* HTTP_RETRY_COUNT + 1 times.                                             *)
RepeatsAreLostAnswers ==
  \A d \in Deliveries :
    /\ heard[d] = lost[d] + (IF wpc[d] = "ok" THEN 1 ELSE 0)
    /\ heard[d] <= MaxAttempts

WebhookInv == WebhookTypeOK /\ Progress /\ RepeatsAreLostAnswers
=============================================================================
