------------------------------- MODULE SendApi -------------------------------
(***************************************************************************)
(* internal/httpapi: POST /v1/sessions/send and /v1/sessions/create.  An   *)
(* attempt is one HTTP request, served by a goroutine of its own; a client *)
(* that repeats a message does so in a new attempt with the same           *)
(* idempotency key.  Attempts share the table dedupe_keys, the delivery    *)
(* options of their session and the gateway.                               *)
(*                                                                         *)
(* An RPC of wsclient is one step: it returns what RpcContract promises,   *)
(* and WSClient models how.  The delivery options are set in one step:     *)
(* Forwarding models the map and the row apart.  Requests the handlers     *)
(* refuse for their form alone (method, body, no session key, no message)  *)
(* change nothing and are left out.                                        *)
(*                                                                         *)
(* A session key or an idempotency key is the sequence of the parts that   *)
(* its colons separate, so that joining two texts with a colon is \o.      *)
(***************************************************************************)
EXTENDS Naturals, Sequences, FiniteSets

CONSTANTS
  Attempts,     \* HTTP requests, numbered as they arrive
  Parts,        \* texts without a colon
  Sessions,     \* session keys, as resolveSessionKey returns them
  Keys, NoKey,  \* idempotency keys; an attempt may carry none
  Nobody,       \* no attempt
  MaxErrors,    \* bound: inserts that fail (the context of a request ends, too)
  MaxRestarts,  \* bound: restarts of the process
  Stores        \* what a start may find: is a database there? a set of Booleans

(* A request: which handler, and what of its body matters here.  badUrl    *)
(* says that callbackUrl has neither of the two schemes: such a request    *)
(* gets no further, so that nothing looks at its createSession.            *)
Requests ==
  {q \in [handler : {"send"}, session : Sessions, key : Keys \cup {NoKey},
          create : BOOLEAN, badUrl : BOOLEAN] : ~(q.create /\ q.badUrl)}
    \cup
  [handler : {"create"}, session : Sessions, key : {NoKey},
   create : {FALSE}, badUrl : {FALSE}]

ASSUME SendApiAssumption ==
  /\ Sessions \subseteq Seq(Parts) /\ Keys \subseteq Seq(Parts)
  /\ Attempts \subseteq Nat
  /\ NoKey \notin Keys /\ Nobody \notin Attempts \cup Requests
  /\ MaxErrors \in Nat /\ MaxRestarts \in Nat /\ Stores \subseteq BOOLEAN

Replies == {"ok", "duplicate", "bad_request", "send_rejected", "session_create_rejected",
            "ws_not_connected", "gateway_connectivity_error"}

VARIABLES
  persistent, \* Store.Enabled: this process found its database when it started
  registered, \* dedupe_keys: the scoped keys inserted
  stale,      \* those whose expires_at is past
  delivery,   \* delivery[s]: the attempt whose options are in force
  row,        \* row[s]: the attempt whose options the database keeps
  accepted,   \* the gateway: accepted[a] counts the messages of a it took
  onWay,      \* requests given up whose message the gateway may still take
  pc, req, reply,
  insert,     \* history: what RegisterInboundDedupe told each attempt
  errors, restarts

dbVars == <<persistent, registered, stale, errors>>
optionVars == <<delivery, row>>
gatewayVars == <<accepted, onWay>>
vars == <<dbVars, optionVars, gatewayVars, pc, req, reply, insert, restarts>>

Init ==
  /\ persistent \in Stores
  /\ registered = {}
  /\ stale = {}
  /\ delivery = [s \in Sessions |-> Nobody]
  /\ row = [s \in Sessions |-> Nobody]
  /\ accepted = [a \in Attempts |-> 0]
  /\ onWay = {}
  /\ pc = [a \in Attempts |-> "idle"]
  /\ req = [a \in Attempts |-> Nobody]
  /\ reply = [a \in Attempts |-> "none"]
  /\ insert = [a \in Attempts |-> "none"]
  /\ errors = 0
  /\ restarts = 0

BugScoped(a) == req[a].key                \* not scoped
(* "in:" + sessionKey + ":" + dedupeKey                                    *)
Scoped(a) == req[a].session \o req[a].key

Keyed == {a \in Attempts : req[a] # Nobody /\ req[a].key # NoKey}

GoOn(a, p) == pc' = [pc EXCEPT ![a] = p] /\ UNCHANGED reply

Answer(a, r) ==
  /\ pc' = [pc EXCEPT ![a] = "done"]
  /\ reply' = [reply EXCEPT ![a] = r]

-----------------------------------------------------------------------------
Arrive(a) ==
  /\ pc[a] = "idle"
  /\ \A b \in Attempts : b < a => pc[b] # "idle"
  /\ \E q \in Requests :
       /\ req' = [req EXCEPT ![a] = q]
       /\ GoOn(a, IF q.handler = "create" THEN "onlyCreate"
                  ELSE IF q.key # NoKey THEN "dedupe" ELSE "options")
  /\ UNCHANGED <<dbVars, optionVars, gatewayVars, insert, restarts>>

BugIsNew(a) == TRUE                       \* RowsAffected is not looked at
IsNew(a) == Scoped(a) \notin registered

Told(a, verdict) == insert' = [insert EXCEPT ![a] = verdict]

(* RegisterInboundDedupe.  Without a database every key is new, and an     *)
(* insert that fails, perhaps after it took effect, lets the attempt go on.*)
Dedupe(a) ==
  /\ pc[a] = "dedupe"
  /\ \/ /\ persistent
        /\ registered' = registered \cup {Scoped(a)}
        /\ \/ IsNew(a) /\ GoOn(a, "options") /\ Told(a, "new")
           \/ /\ ~IsNew(a) /\ Answer(a, "duplicate") /\ UNCHANGED insert
        /\ UNCHANGED errors
     \/ /\ ~persistent
        /\ GoOn(a, "options") /\ Told(a, "unchecked")
        /\ UNCHANGED <<registered, errors>>
     \/ /\ persistent /\ errors < MaxErrors
        /\ errors' = errors + 1
        /\ registered' \in {registered, registered \cup {Scoped(a)}}
        /\ GoOn(a, "options") /\ Told(a, "failed")
  /\ UNCHANGED <<persistent, stale, optionVars, gatewayVars, req, restarts>>

BugConfigured(a, options) == [options EXCEPT ![req[a].session] = a]  \* before the check
Configured(a, options) ==
  IF req[a].badUrl THEN options ELSE [options EXCEPT ![req[a].session] = a]

(* The check of callbackUrl, then SetSessionDelivery, which leaves the row *)
(* alone without a database (and if its statement fails: see Forwarding).  *)
SetOptions(a) ==
  /\ pc[a] = "options"
  /\ delivery' = Configured(a, delivery)
  /\ row' = IF persistent THEN Configured(a, row) ELSE row
  /\ IF req[a].badUrl THEN Answer(a, "bad_request") ELSE GoOn(a, "send")
  /\ UNCHANGED <<dbVars, gatewayVars, req, insert, restarts>>

(* SendSessionMessage.  The gateway learns of sessions, from others too,   *)
(* and forgets them as it likes, so that any one may be missing; it may    *)
(* refuse a message for another reason; of one whose answer is lost or     *)
(* late nobody knows whether it was, or will be, taken.                    *)
Gateway(a, r) ==
  /\ accepted' = IF r = "taken" THEN [accepted EXCEPT ![a] = @ + 1] ELSE accepted
  /\ onWay' = IF r = "lost" THEN onWay \cup {a} ELSE onWay

(* classifyGatewayError                                                    *)
BugCode(r) ==                             \* a timeout passes for a refusal
  CASE r = "taken" -> "ok"
    [] r \in {"missing", "refused", "lost"} -> "send_rejected"
    [] r = "unsent" -> "ws_not_connected"
Code(r) ==
  CASE r = "taken" -> "ok"
    [] r \in {"missing", "refused"} -> "send_rejected"
    [] r = "unsent" -> "ws_not_connected"
    [] r = "lost" -> "gateway_connectivity_error"

BugMissing(r) == r # "taken"              \* any error creates the session
Missing(r) == r = "missing"

BugMayCreate(a) == req[a].create          \* as often as it takes
MayCreate(a) == req[a].create /\ pc[a] = "send"

Send(a) ==
  /\ pc[a] \in {"send", "resend"}
  /\ \E r \in {"taken", "missing", "refused", "unsent", "lost"} :
       /\ Gateway(a, r)
       /\ IF Missing(r) /\ MayCreate(a) THEN GoOn(a, "create") ELSE Answer(a, Code(r))
  /\ UNCHANGED <<dbVars, optionVars, req, insert, restarts>>

(* CreateSession.  The gateway may give the session another key; the       *)
(* handler of send ignores it.                                             *)
Create(a) ==
  /\ pc[a] \in {"create", "onlyCreate"}
  /\ \/ pc[a] = "create" /\ GoOn(a, "resend")
     \/ pc[a] = "onlyCreate" /\ Answer(a, "ok")
     \/ \E r \in {"session_create_rejected", "ws_not_connected", "gateway_connectivity_error"} :
          Answer(a, r)
  /\ UNCHANGED <<dbVars, optionVars, gatewayVars, req, insert, restarts>>

-----------------------------------------------------------------------------
(* The gateway takes the message of a request that was given up: a frame   *)
(* that was written outlives the call, and the process (GatewayExecutes of *)
(* RpcContract).                                                           *)
TakeLate(a) ==
  /\ a \in onWay
  /\ accepted' = [accepted EXCEPT ![a] = @ + 1]
  /\ onWay' = onWay \ {a}
  /\ UNCHANGED <<dbVars, optionVars, pc, req, reply, insert, restarts>>

(* DEDUPE_RECORD_TTL_SECONDS pass.  CleanupExpiredDedupeKeys, which would  *)
(* delete the key, is never called.                                        *)
Expire ==
  /\ stale # registered
  /\ stale' = registered
  /\ UNCHANGED <<persistent, registered, errors, optionVars, gatewayVars, pc, req, reply, insert, restarts>>

(* The process stops and starts again: requests under way get no answer,   *)
(* and what they were sending may arrive.  The tables outlive the process, *)
(* but store.New decides anew whether there is a database: the new process *)
(* may go on without one.                                                  *)
Restart ==
  /\ restarts < MaxRestarts
  /\ restarts' = restarts + 1
  /\ persistent' \in Stores
  /\ pc' = [a \in Attempts |-> IF pc[a] \in {"idle", "done"} THEN pc[a] ELSE "cut"]
  /\ delivery' = IF persistent' THEN row ELSE [s \in Sessions |-> Nobody]
  /\ onWay' = onWay \cup {a \in Attempts : pc[a] \in {"send", "resend"}}
  /\ UNCHANGED <<registered, stale, errors, row, accepted, req, reply, insert>>

Handle(a) == Dedupe(a) \/ SetOptions(a) \/ Send(a) \/ Create(a)

Next ==
  \/ \E a \in Attempts : Arrive(a) \/ Handle(a)
  \/ \E a \in Attempts : TakeLate(a)
  \/ Expire
  \/ Restart

Spec == Init /\ [][Next]_vars

(* The goroutines that can run do not all wait for ever, and an RPC        *)
(* returns: CallsTerminate of WSClient, by RPC_TIMEOUT.  Clients and the   *)
(* gateway owe nothing.                                                    *)
FairSpec == Spec /\ WF_vars(\E a \in Attempts : Handle(a))

-----------------------------------------------------------------------------
TypeOK ==
  /\ persistent \in BOOLEAN
  /\ (\A k \in registered : \E s \in Sessions, i \in Keys : k = s \o i) /\ stale \subseteq registered
  /\ {delivery, row} \subseteq [Sessions -> Attempts \cup {Nobody}]
  /\ accepted \in [Attempts -> Nat] /\ onWay \subseteq Attempts
  /\ pc \in [Attempts -> {"idle", "dedupe", "options", "send", "create", "resend",
                          "onlyCreate", "done", "cut"}]
  /\ req \in [Attempts -> Requests \cup {Nobody}]
  /\ reply \in [Attempts -> Replies \cup {"none"}]
  /\ insert \in [Attempts -> {"none", "new", "failed", "unchecked"}]
  /\ errors \in 0 .. MaxErrors /\ restarts \in 0 .. MaxRestarts

(* However often and however concurrently a client repeats a keyed message *)
(* of a session, and whatever is lost or restarted, with a database or     *)
(* without, the gateway takes one of the requests only, but for those that *)
(* got no answer of the table: their insert failed, or their process had   *)
(* no database.                                                            *)
Slipped == {a \in Attempts : insert[a] \in {"failed", "unchecked"}}

AcceptedOnce ==
  \A a, b \in Keyed :
    a # b /\ Scoped(a) = Scoped(b) /\ accepted[a] > 0 /\ accepted[b] > 0
      => a \in Slipped \/ b \in Slipped

(* However many copies there are, the gateway takes one, and one more for  *)
(* every insert that failed and every copy that came to a process without  *)
(* its database, at the most.                                              *)
Copies(a) == {b \in Keyed : Scoped(b) = Scoped(a) /\ accepted[b] > 0}

Unchecked == {a \in Attempts : insert[a] = "unchecked"}

CopiesBounded ==
  \A a \in Keyed : Cardinality(Copies(a)) <= 1 + errors + Cardinality(Unchecked)

(* Creating the session and sending again never delivers the message of    *)
(* one request twice, the answer "ok" means that it was delivered, and the *)
(* refusals mean that it was not.                                          *)
RepliesTell ==
  \A a \in Attempts :
    /\ accepted[a] <= 1
    /\ reply[a] = "ok" /\ req[a].handler = "send" => accepted[a] = 1
    /\ reply[a] \in Replies \ {"ok", "gateway_connectivity_error"} => accepted[a] = 0

(* A request that is answered 400 or as a duplicate leaves the delivery    *)
(* options of its session to the requests that are carried out.            *)
RefusedIsInert ==
  \A s \in Sessions, a \in Attempts :
    a \in {delivery[s], row[s]} => reply[a] \notin {"bad_request", "duplicate"}

(* Only a copy of an earlier request of the session, which was let         *)
(* through, is a duplicate, if idempotency keys have no colon.  With one,  *)
(* a request of another session may stand for the original:                *)
(* "a" + ":" + "b:c" is "a:b" + ":" + "c".                                  *)
Plain(a) == Len(req[a].key) = 1

DuplicateHasOriginal ==
  \A a \in Attempts : reply[a] = "duplicate" =>
    \E b \in Keyed \ {a} :
      /\ insert[b] \in {"new", "failed"}
      /\ Scoped(b) = Scoped(a)
      /\ Plain(a) /\ Plain(b) => req[b].session = req[a].session /\ req[b].key = req[a].key

(* How far a request is, and what that says of its answer.                 *)
Phases ==
  \A a \in Attempts :
    /\ pc[a] = "idle" <=> req[a] = Nobody
    /\ pc[a] = "done" <=> reply[a] # "none"
    /\ pc[a] = "onlyCreate" => req[a].handler = "create"
    /\ pc[a] \in {"dedupe", "options", "send", "create", "resend"} => req[a].handler = "send"
    /\ pc[a] = "dedupe" => req[a].key # NoKey
    /\ pc[a] \in {"idle", "dedupe"} => insert[a] = "none"
    /\ pc[a] \notin {"done", "cut"} => accepted[a] = 0
    /\ reply[a] = "duplicate" => insert[a] = "none"
    /\ a \in onWay =>
         /\ accepted[a] = 0 /\ req[a].handler = "send"
         /\ pc[a] = "cut" \/ reply[a] = "gateway_connectivity_error"

(* A row of dedupe_keys is the trace of a request that was let through by  *)
(* an insert, of one only unless inserts failed.                           *)
RowsTell ==
  /\ \A a \in Attempts : insert[a] # "none" => a \in Keyed
  /\ \A k \in registered : \E a \in Keyed : insert[a] \in {"new", "failed"} /\ Scoped(a) = k
  /\ \A a \in Attempts : insert[a] = "new" => Scoped(a) \in registered
  /\ \A a, b \in Attempts :
       insert[a] = "new" /\ insert[b] = "new" /\ Scoped(a) = Scoped(b) => a = b
  /\ \A a \in Keyed :
       pc[a] \in {"options", "send", "create", "resend"} \/ a \in onWay \/ accepted[a] > 0
         => insert[a] # "none"

(* Options come from requests that got past their checks.                  *)
OptionsTell ==
  \A s \in Sessions, a \in Attempts :
    a \in {delivery[s], row[s]} => pc[a] \notin {"idle", "dedupe", "options"}

(* The invariant the others follow from.                                   *)
SendInv ==
  /\ TypeOK /\ Phases /\ RowsTell /\ OptionsTell
  /\ RepliesTell /\ RefusedIsInert /\ DuplicateHasOriginal

(* The inserts that failed are counted.                                    *)
Failed == {a \in Attempts : insert[a] = "failed"}

ErrorsCount == IsFiniteSet(Failed) /\ Cardinality(Failed) = errors /\ IsFiniteSet(Unchecked)

(* README.md:115: the key keeps duplicate input from being processed.      *)
(* Input that failed, or that was refused, is not a duplicate: the client  *)
(* is told ok=true, so some copy was taken, or may still have been.        *)
DuplicateWasSent ==
  \A a \in Attempts : reply[a] = "duplicate" =>
    \E b \in Keyed \ {a} :
      /\ Scoped(b) = Scoped(a)
      /\ \/ accepted[b] > 0
         \/ pc[b] # "done"
         \/ reply[b] = "gateway_connectivity_error"

(* docs/manual-tecnico-api-go.md:324: DEDUPE_RECORD_TTL_SECONDS controls   *)
(* how long a key is remembered.                                           *)
DuplicateIsFresh ==
  [][\A a \in Attempts : reply[a] # "duplicate" /\ reply'[a] = "duplicate" =>
       Scoped(a) \notin stale]_vars

(* A request never goes back: a session that is missing again and again    *)
(* does not make it create or send again and again.                        *)
StepsLeft(a) ==
  [idle |-> 6, dedupe |-> 5, options |-> 4, send |-> 3, create |-> 2, resend |-> 1,
   onlyCreate |-> 1, done |-> 0, cut |-> 0][pc[a]]

RequestsAdvance ==
  [][\A a \in Attempts : UNCHANGED <<pc[a], req[a], reply[a]>>
                           \/ StepsLeft(a)' < StepsLeft(a)]_vars

(* Every request is answered, even if its session is missing again and     *)
(* again, unless the process stops: in the end none is left.               *)
Answered == <>[](\A a \in Attempts : pc[a] \in {"idle", "done", "cut"})
=============================================================================
