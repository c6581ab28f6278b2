---------------------------- MODULE SendContract ----------------------------
(***************************************************************************)
(* What POST /v1/sessions/send promises to clients that repeat a message   *)
(* with its idempotency key, whatever is sent at the same time, lost, or   *)
(* cut off by a restart:                                                   *)
(*   - of the requests with one key one claims it, for ever; another gets  *)
(*     past it only at the price of an insert that failed, or in a process *)
(*     that came up without its database;                                  *)
(*   - the gateway takes messages of requests that got past their key      *)
(*     only, each message at most once;                                    *)
(*   - ok is said of messages that were taken, a refusal of messages that  *)
(*     never will be, duplicate of requests that stand behind another one; *)
(*   - no answer, or gateway_connectivity_error, leaves it open: the       *)
(*     gateway may take the message later.                                 *)
(* The table, the sessions, their creation and the second send are gone.   *)
(***************************************************************************)
EXTENDS Naturals

CONSTANTS Attempts, Tokens, MaxErrors

VARIABLES
  persistent, \* whether this process has the table of the tokens
  phase,      \* of each request
  token,      \* its key, joined with its session: a set of one, or of none
  insert,     \* how it got past its key
  answer,
  taken,      \* the requests whose message the gateway took
  errors      \* inserts that failed

vars == <<persistent, phase, token, insert, answer, taken, errors>>

Refusals == {"bad_request", "send_rejected", "session_create_rejected", "ws_not_connected"}

Init ==
  /\ persistent \in BOOLEAN
  /\ phase = [a \in Attempts |-> "none"]
  /\ token = [a \in Attempts |-> {}]
  /\ insert = [a \in Attempts |-> "none"]
  /\ answer = [a \in Attempts |-> "none"]
  /\ taken = {}
  /\ errors = 0

Ask(a) ==
  /\ phase[a] = "none"
  /\ phase' = [phase EXCEPT ![a] = "open"]
  /\ \E T \in {{}} \cup {{t} : t \in Tokens} : token' = [token EXCEPT ![a] = T]
  /\ UNCHANGED <<persistent, insert, answer, taken, errors>>

AtItsKey(a) == phase[a] = "open" /\ token[a] # {} /\ insert[a] = "none"

Claim(a) ==
  /\ AtItsKey(a) /\ persistent
  /\ \A b \in Attempts : insert[b] = "new" => token[b] # token[a]
  /\ insert' = [insert EXCEPT ![a] = "new"]
  /\ UNCHANGED <<persistent, phase, token, answer, taken, errors>>

Slip(a) ==
  /\ AtItsKey(a) /\ persistent
  /\ errors < MaxErrors
  /\ errors' = errors + 1
  /\ insert' = [insert EXCEPT ![a] = "failed"]
  /\ UNCHANGED <<persistent, phase, token, answer, taken>>

GoUnchecked(a) ==
  /\ AtItsKey(a) /\ ~persistent
  /\ insert' = [insert EXCEPT ![a] = "unchecked"]
  /\ UNCHANGED <<persistent, phase, token, answer, taken, errors>>

Entitled(a) == token[a] # {} => insert[a] # "none"

Take(a) ==
  /\ Entitled(a) /\ a \notin taken
  /\ taken' = taken \cup {a}

Close(a, r) ==
  /\ phase[a] = "open"
  /\ phase' = [phase EXCEPT ![a] = "answered"]
  /\ answer' = [answer EXCEPT ![a] = r]
  /\ UNCHANGED <<persistent, token, insert, errors>>

Confirm(a) == Take(a) /\ Close(a, "ok")

Refuse(a) == \E r \in Refusals : Close(a, r) /\ UNCHANGED taken

Repeat(a) ==
  /\ AtItsKey(a) /\ persistent
  /\ \E b \in Attempts : insert[b] \in {"new", "failed"} /\ token[b] = token[a]
  /\ Close(a, "duplicate") /\ UNCHANGED taken

GiveUp(a) == Close(a, "gateway_connectivity_error") /\ UNCHANGED taken

TakeLate(a) ==
  /\ phase[a] = "cut" \/ answer[a] = "gateway_connectivity_error"
  /\ Take(a)
  /\ UNCHANGED <<persistent, phase, token, insert, answer, errors>>

Cut ==
  /\ phase' = [a \in Attempts |-> IF phase[a] = "open" THEN "cut" ELSE phase[a]]
  /\ persistent' \in BOOLEAN
  /\ UNCHANGED <<token, insert, answer, taken, errors>>

Next ==
  \/ \E a \in Attempts :
       \/ Ask(a) \/ Claim(a) \/ Slip(a) \/ GoUnchecked(a)
       \/ Confirm(a) \/ Refuse(a) \/ Repeat(a) \/ GiveUp(a) \/ TakeLate(a)
  \/ Cut

Spec == Init /\ [][Next]_vars
=============================================================================
