---------------------------- MODULE SendApiProofs ----------------------------
(* Proofs about SendApi: its invariants, for any number of requests,       *)
(* sessions, keys, failures and restarts.                                  *)
EXTENDS SendApiImplements, FiniteSetTheorems, TLAPS

(* What a request is made of.                                              *)
LEMMA RequestParts ==
  ASSUME NEW q \in Requests
  PROVE  /\ q.session \in Sessions /\ q.key \in Keys \cup {NoKey}
         /\ q.handler \in {"send", "create"} /\ q.create \in BOOLEAN /\ q.badUrl \in BOOLEAN
         /\ q.handler = "create" => q.key = NoKey
         /\ q # Nobody
BY SendApiAssumption DEF Requests, SendApiAssumption

(* At the start there are no requests.                                     *)
LEMMA SendInit == Init => SendInv
<1> SUFFICES ASSUME Init PROVE SendInv
  OBVIOUS
<1>1. /\ onWay = {}
      /\ \A a \in Attempts : /\ pc[a] = "idle" /\ req[a] = Nobody /\ reply[a] = "none"
                             /\ insert[a] = "none" /\ accepted[a] = 0
  BY DEF Init
<1>2. TypeOK
  BY SendApiAssumption DEF Init, TypeOK, SendApiAssumption
<1>3. Phases /\ RepliesTell /\ DuplicateHasOriginal
  BY <1>1 DEF Phases, RepliesTell, DuplicateHasOriginal, Replies
<1>4. RowsTell
  BY <1>1 DEF Init, RowsTell, Keyed
<1>5. OptionsTell /\ RefusedIsInert
  BY SendApiAssumption DEF Init, OptionsTell, RefusedIsInert, SendApiAssumption
<1> QED
  BY <1>2, <1>3, <1>4, <1>5 DEF SendInv

(* The steps that leave the requests alone leave their joined keys alone.  *)
LEMMA SameKeys ==
  ASSUME req' = req
  PROVE  /\ Keyed' = Keyed
         /\ \A a \in Attempts : Scoped(a)' = Scoped(a) /\ Plain(a)' = Plain(a)
BY DEF Keyed, Scoped, Plain

(* Keyed requests have sequences for a session and a key.                  *)
LEMMA KeyedParts ==
  ASSUME TypeOK, NEW a \in Keyed
  PROVE  /\ a \in Attempts /\ req[a] \in Requests
         /\ req[a].session \in Sessions /\ req[a].key \in Keys
         /\ req[a].session \in Seq(Parts) /\ req[a].key \in Seq(Parts)
         /\ \E s \in Sessions, i \in Keys : Scoped(a) = s \o i
<1>1. a \in Attempts /\ req[a] # Nobody /\ req[a].key # NoKey
  BY DEF Keyed
<1>2. req[a] \in Requests
  BY <1>1 DEF TypeOK
<1>3. req[a].session \in Sessions /\ req[a].key \in Keys
  BY <1>1, <1>2, RequestParts
<1>4. req[a].session \in Seq(Parts) /\ req[a].key \in Seq(Parts)
  BY <1>3, SendApiAssumption DEF SendApiAssumption
<1>5. \E s \in Sessions, i \in Keys : Scoped(a) = s \o i
  BY <1>3, Zenon DEF Scoped
<1> QED
  BY <1>1, <1>2, <1>3, <1>4, <1>5

(* A new request.                                                          *)
LEMMA ArriveOK ==
  ASSUME SendInv, NEW a \in Attempts, Arrive(a)
  PROVE  SendInv'
<1>1. PICK q \in Requests :
        /\ req' = [req EXCEPT ![a] = q]
        /\ GoOn(a, IF q.handler = "create" THEN "onlyCreate"
                   ELSE IF q.key # NoKey THEN "dedupe" ELSE "options")
  BY DEF Arrive
<1>2. /\ pc[a] = "idle" /\ reply' = reply
      /\ UNCHANGED <<dbVars, optionVars, gatewayVars, insert, restarts>>
  BY <1>1 DEF Arrive, GoOn
<1>3. PICK p \in {"onlyCreate", "dedupe", "options"} :
        /\ pc' = [pc EXCEPT ![a] = p]
        /\ p = "onlyCreate" <=> q.handler = "create"
        /\ p = "dedupe" => q.key # NoKey
        /\ p = "options" => q.key = NoKey
  BY <1>1 DEF GoOn
<1>4. /\ q.session \in Sessions /\ q.key \in Keys \cup {NoKey} /\ q # Nobody
      /\ q.handler \in {"send", "create"} /\ (q.handler = "create" => q.key = NoKey)
  BY RequestParts
<1>5. TypeOK /\ Phases
  BY DEF SendInv
<1>6. /\ req' \in [Attempts -> Requests \cup {Nobody}] /\ req'[a] = q
      /\ \A b \in Attempts \ {a} : req'[b] = req[b] /\ pc'[b] = pc[b]
      /\ pc'[a] = p
  BY <1>1, <1>3, <1>5 DEF TypeOK
<1>7. TypeOK'
  BY <1>2, <1>3, <1>5, <1>6 DEF TypeOK, dbVars, optionVars, gatewayVars
<1>8. /\ insert[a] = "none" /\ accepted[a] = 0 /\ reply[a] = "none" /\ req[a] = Nobody
      /\ a \notin onWay
  BY <1>2, <1>5 DEF Phases
<1>9. Phases'
  BY <1>2, <1>3, <1>4, <1>5, <1>6, <1>8 DEF Phases, dbVars, gatewayVars
<1>10. /\ a \notin Keyed
       /\ \A b \in Attempts \ {a} : b \in Keyed' <=> b \in Keyed
       /\ \A b \in Attempts \ {a} : Scoped(b)' = Scoped(b) /\ Plain(b)' = Plain(b)
  BY <1>6, <1>8 DEF Keyed, Scoped, Plain
<1>11. RowsTell'
  <2>1. RowsTell
    BY DEF SendInv
  <2>2. \A b \in Attempts : insert[b] # "none" => b # a /\ b \in Keyed /\ b \in Keyed'
    BY <2>1, <1>8, <1>10 DEF RowsTell
  <2>3. \A k \in registered : \E b \in Keyed' : insert[b] \in {"new", "failed"} /\ Scoped(b)' = k
    BY <2>1, <2>2, <1>10 DEF RowsTell, Keyed
  <2>4. /\ \A b \in Attempts : insert[b] = "new" => Scoped(b)' \in registered
        /\ \A b, c \in Attempts :
             insert[b] = "new" /\ insert[c] = "new" /\ Scoped(b)' = Scoped(c)' => b = c
    BY <2>1, <2>2, <1>10 DEF RowsTell
  <2>5. ASSUME NEW b \in Keyed',
               \/ pc'[b] \in {"options", "send", "create", "resend"}
               \/ b \in onWay \/ accepted[b] > 0
        PROVE  insert[b] # "none"
    <3>1. b \in Attempts
      BY DEF Keyed
    <3>2. b # a
      BY <2>5, <1>3, <1>6, <1>8 DEF Keyed
    <3> QED
      BY <2>1, <2>5, <3>1, <3>2, <1>6, <1>10 DEF RowsTell
  <2> QED
    BY <1>2, <2>2, <2>3, <2>4, <2>5 DEF RowsTell, dbVars, gatewayVars
<1>12. OptionsTell' /\ RefusedIsInert'
  <2>1. \A s \in Sessions : a \notin {delivery[s], row[s]}
    BY <1>2 DEF SendInv, OptionsTell
  <2> QED
    BY <2>1, <1>2, <1>6 DEF SendInv, OptionsTell, RefusedIsInert, optionVars
<1>13. RepliesTell'
  BY <1>2, <1>6, <1>8 DEF SendInv, RepliesTell, gatewayVars, Replies
<1>14. DuplicateHasOriginal'
  <2> SUFFICES ASSUME NEW b \in Attempts, reply'[b] = "duplicate"
               PROVE  \E c \in Keyed' \ {b} :
                        /\ insert'[c] \in {"new", "failed"}
                        /\ Scoped(c)' = Scoped(b)'
                        /\ Plain(b)' /\ Plain(c)'
                             => req'[c].session = req'[b].session /\ req'[c].key = req'[b].key
    BY DEF DuplicateHasOriginal
  <2>1. b # a /\ reply[b] = "duplicate"
    BY <1>2, <1>8
  <2>2. PICK c \in Keyed \ {b} :
          /\ insert[c] \in {"new", "failed"}
          /\ Scoped(c) = Scoped(b)
          /\ Plain(b) /\ Plain(c)
               => req[c].session = req[b].session /\ req[c].key = req[b].key
    BY <2>1 DEF SendInv, DuplicateHasOriginal
  <2>3. c \in Attempts \ {a} /\ c \in Keyed' \ {b}
    BY <1>10, <2>2 DEF Keyed
  <2> QED
    BY <1>2, <1>6, <1>10, <2>1, <2>2, <2>3
<1> QED
  BY <1>7, <1>9, <1>11, <1>12, <1>13, <1>14 DEF SendInv

(* What the insert decided holds on while no other insert is made.         *)
LEMMA RowsKept ==
  ASSUME SendInv, UNCHANGED <<registered, req, insert>>,
         \A b \in Attempts :
           /\ reply'[b] = "duplicate" => reply[b] = "duplicate"
           /\ pc'[b] \in {"options", "send", "create", "resend"} \/ b \in onWay' \/ accepted'[b] > 0
                => pc[b] \in {"options", "send", "create", "resend"} \/ b \in onWay \/ accepted[b] > 0
  PROVE  RowsTell' /\ DuplicateHasOriginal'
<1>1. /\ Keyed' = Keyed
      /\ \A a \in Attempts : Scoped(a)' = Scoped(a) /\ Plain(a)' = Plain(a)
  BY SameKeys
<1>2. RowsTell /\ DuplicateHasOriginal /\ Keyed \subseteq Attempts
  BY DEF SendInv, Keyed
<1>3. RowsTell'
  BY <1>1, <1>2 DEF RowsTell
<1>4. DuplicateHasOriginal'
  <2> SUFFICES ASSUME NEW b \in Attempts, reply'[b] = "duplicate"
               PROVE  \E c \in Keyed \ {b} :
                        /\ insert[c] \in {"new", "failed"}
                        /\ Scoped(c)' = Scoped(b)'
                        /\ Plain(b)' /\ Plain(c)'
                             => req[c].session = req[b].session /\ req[c].key = req[b].key
    BY <1>1 DEF DuplicateHasOriginal
  <2>1. PICK c \in Keyed \ {b} :
          /\ insert[c] \in {"new", "failed"}
          /\ Scoped(c) = Scoped(b)
          /\ Plain(b) /\ Plain(c)
               => req[c].session = req[b].session /\ req[c].key = req[b].key
    BY <1>2 DEF DuplicateHasOriginal
  <2> QED
    BY <1>1, <1>2, <2>1
<1> QED
  BY <1>3, <1>4

(* Options are set for a request whose callbackUrl is fine.                *)
LEMMA SetOptionsOK ==
  ASSUME SendInv, NEW a \in Attempts, SetOptions(a)
  PROVE  SendInv'
<1>1. /\ pc[a] = "options" /\ delivery' = Configured(a, delivery)
      /\ row' = IF persistent THEN Configured(a, row) ELSE row
      /\ UNCHANGED <<persistent, registered, stale, errors, accepted, onWay, req, insert, restarts>>
      /\ IF req[a].badUrl THEN Answer(a, "bad_request") ELSE GoOn(a, "send")
  BY DEF SetOptions, dbVars, gatewayVars
<1>2. TypeOK /\ Phases /\ RowsTell /\ OptionsTell /\ RepliesTell /\ RefusedIsInert
  BY DEF SendInv
<1>3. /\ req[a] \in Requests /\ req[a].session \in Sessions /\ req[a].handler = "send"
      /\ accepted[a] = 0 /\ reply[a] = "none"
  <2>1. req[a] \in Requests
    BY <1>1, <1>2 DEF TypeOK, Phases
  <2> QED
    BY <1>1, <1>2, <2>1, RequestParts DEF Phases
<1>4. PICK p \in {"send", "done"}, r \in {"none", "bad_request"} :
        /\ pc' = [pc EXCEPT ![a] = p] /\ reply' = [reply EXCEPT ![a] = r]
        /\ p = "done" <=> r = "bad_request"
        /\ p = "done" => delivery' = delivery /\ row' = row
        /\ delivery' \in {delivery, [delivery EXCEPT ![req[a].session] = a]}
        /\ row' \in {row, [row EXCEPT ![req[a].session] = a]}
  <2>1. CASE req[a].badUrl
    BY <1>1, <2>1 DEF Answer, Configured
  <2>2. CASE ~req[a].badUrl
    <3>1. reply' = [reply EXCEPT ![a] = "none"]
      BY <1>1, <1>2, <1>3, <2>2 DEF GoOn, TypeOK
    <3> QED
      BY <1>1, <2>2, <3>1 DEF GoOn, Configured
  <2> QED
    BY <2>1, <2>2
<1>5. /\ pc'[a] = p /\ reply'[a] = r
      /\ \A b \in Attempts \ {a} : pc'[b] = pc[b] /\ reply'[b] = reply[b]
  BY <1>2, <1>4 DEF TypeOK
<1>6. TypeOK'
  <2>1. {delivery', row'} \subseteq [Sessions -> Attempts \cup {Nobody}]
    <3>1. delivery \in [Sessions -> Attempts \cup {Nobody}] /\ row \in [Sessions -> Attempts \cup {Nobody}]
      BY <1>2 DEF TypeOK
    <3>2. delivery' \in [Sessions -> Attempts \cup {Nobody}]
      BY <1>3, <1>4, <3>1
    <3>3. row' \in [Sessions -> Attempts \cup {Nobody}]
      BY <1>3, <1>4, <3>1
    <3> QED
      BY <3>2, <3>3
  <2>2. /\ pc' \in [Attempts -> {"idle", "dedupe", "options", "send", "create", "resend",
                                  "onlyCreate", "done", "cut"}]
        /\ reply' \in [Attempts -> Replies \cup {"none"}]
    BY <1>2, <1>4 DEF TypeOK, Replies
  <2> QED
    BY <1>1, <1>2, <2>1, <2>2 DEF TypeOK
<1>7. Phases'
  BY <1>1, <1>2, <1>3, <1>4, <1>5 DEF Phases
<1>8. RowsTell' /\ DuplicateHasOriginal'
  BY <1>1, <1>4, <1>5, RowsKept
<1>9. RepliesTell'
  BY <1>1, <1>2, <1>3, <1>4, <1>5 DEF RepliesTell, Replies
<1>10. ASSUME NEW s \in Sessions, NEW b \in Attempts, b \in {delivery'[s], row'[s]}
       PROVE  pc'[b] \notin {"idle", "dedupe", "options"} /\ reply'[b] \notin {"bad_request", "duplicate"}
  <2>1. b = a \/ b \in {delivery[s], row[s]}
    BY <1>2, <1>4, <1>10 DEF TypeOK
  <2>2. CASE b = a
    <3>1. p # "done"
      <4> SUFFICES ASSUME p = "done" PROVE FALSE
        OBVIOUS
      <4>1. a \in {delivery[s], row[s]}
        BY <1>4, <1>10, <2>2
      <4> QED
        BY <4>1, <1>1, <1>2 DEF OptionsTell
    <3> QED
      BY <1>4, <1>5, <2>2, <3>1
  <2>3. CASE b # a
    BY <1>2, <1>5, <2>1, <2>3 DEF OptionsTell, RefusedIsInert
  <2> QED
    BY <2>2, <2>3
<1> QED
  BY <1>6, <1>7, <1>8, <1>9, <1>10 DEF SendInv, OptionsTell, RefusedIsInert

(* A step that a request makes with the gateway.                           *)
LEMMA GatewayStepOK ==
  ASSUME SendInv, NEW a \in Attempts, pc[a] \in {"send", "create", "resend", "onlyCreate"},
         UNCHANGED <<dbVars, optionVars, req, insert, restarts>>,
         NEW p \in {"create", "resend", "done"}, NEW n \in {0, 1},
         NEW r \in {"none", "ok", "send_rejected", "session_create_rejected",
                    "ws_not_connected", "gateway_connectivity_error"},
         pc' = [pc EXCEPT ![a] = p], reply' = [reply EXCEPT ![a] = r],
         accepted' = [accepted EXCEPT ![a] = n],
         p = "done" <=> r # "none",
         p # "done" => n = 0,
         pc[a] = "onlyCreate" => p = "done" /\ n = 0,
         r = "ok" /\ pc[a] # "onlyCreate" => n = 1,
         r \notin {"none", "ok", "gateway_connectivity_error"} => n = 0,
         onWay' \in {onWay, onWay \cup {a}},
         a \in onWay' => pc[a] # "onlyCreate" /\ r = "gateway_connectivity_error" /\ n = 0
  PROVE  SendInv'
<1>1. TypeOK /\ Phases /\ OptionsTell /\ RepliesTell /\ RefusedIsInert
  BY DEF SendInv
<1>2. /\ UNCHANGED <<persistent, registered, stale, errors>>
      /\ pc'[a] = p /\ reply'[a] = r /\ accepted'[a] = n
      /\ \A b \in Attempts \ {a} :
           /\ pc'[b] = pc[b] /\ reply'[b] = reply[b] /\ accepted'[b] = accepted[b]
           /\ b \in onWay' <=> b \in onWay
  BY <1>1 DEF TypeOK, dbVars
<1>3. TypeOK'
  <2>1. /\ pc' \in [Attempts -> {"idle", "dedupe", "options", "send", "create", "resend",
                                  "onlyCreate", "done", "cut"}]
        /\ reply' \in [Attempts -> Replies \cup {"none"}]
        /\ accepted' \in [Attempts -> Nat]
    BY <1>1 DEF TypeOK, Replies
  <2> QED
    BY <1>1, <1>2, <2>1 DEF TypeOK, dbVars, optionVars
<1>4. Phases'
  BY <1>1, <1>2 DEF Phases
<1>5. RowsTell' /\ DuplicateHasOriginal'
  <2>1. \A b \in Attempts :
          /\ reply'[b] = "duplicate" => reply[b] = "duplicate"
          /\ pc'[b] \in {"options", "send", "create", "resend"} \/ b \in onWay' \/ accepted'[b] > 0
               => pc[b] \in {"options", "send", "create", "resend"} \/ b \in onWay \/ accepted[b] > 0
    BY <1>2
  <2> QED
    BY <1>2, <2>1, RowsKept
<1>6. RepliesTell'
  <2>1. n <= 1 /\ (r = "ok" /\ req[a].handler = "send" => n = 1)
        /\ (r \in Replies \ {"ok", "gateway_connectivity_error"} => n = 0)
    BY <1>1 DEF Phases, Replies
  <2> QED
    BY <1>1, <1>2, <2>1 DEF RepliesTell
<1>7. OptionsTell' /\ RefusedIsInert'
  BY <1>1, <1>2 DEF OptionsTell, RefusedIsInert, optionVars
<1> QED
  BY <1>3, <1>4, <1>5, <1>6, <1>7 DEF SendInv

(* The message is sent.                                                    *)
LEMMA SendOK ==
  ASSUME SendInv, NEW a \in Attempts, Send(a)
  PROVE  SendInv'
<1>1. PICK r \in {"taken", "missing", "refused", "unsent", "lost"} :
        /\ Gateway(a, r)
        /\ IF Missing(r) /\ MayCreate(a) THEN GoOn(a, "create") ELSE Answer(a, Code(r))
  BY DEF Send
<1>2. /\ pc[a] \in {"send", "resend"}
      /\ UNCHANGED <<dbVars, optionVars, req, insert, restarts>>
  BY DEF Send
<1>3. TypeOK /\ Phases
  BY DEF SendInv
<1>4. accepted[a] = 0 /\ reply[a] = "none" /\ accepted = [accepted EXCEPT ![a] = 0]
      /\ reply = [reply EXCEPT ![a] = "none"]
  BY <1>2, <1>3 DEF Phases, TypeOK
<1>5. PICK n \in {0, 1} : accepted' = [accepted EXCEPT ![a] = n] /\ (n = 1 <=> r = "taken")
  <2>1. [accepted EXCEPT ![a] = @ + 1] = [accepted EXCEPT ![a] = 1]
    BY <1>4
  <2> QED
    BY <1>1, <1>4, <2>1 DEF Gateway
<1>6. onWay' \in {onWay, onWay \cup {a}} /\ (a \in onWay' => r = "lost")
  BY <1>1, <1>2, <1>3, <1>4 DEF Gateway, Phases
<1>7. CASE Missing(r) /\ MayCreate(a)
  <2>1. /\ pc' = [pc EXCEPT ![a] = "create"] /\ reply' = [reply EXCEPT ![a] = "none"]
        /\ r = "missing"
    BY <1>1, <1>4, <1>7 DEF GoOn, Missing
  <2> QED
    BY <1>2, <1>5, <1>6, <2>1, GatewayStepOK
<1>8. CASE ~(Missing(r) /\ MayCreate(a))
  <2>1. pc' = [pc EXCEPT ![a] = "done"] /\ reply' = [reply EXCEPT ![a] = Code(r)]
    BY <1>1, <1>8 DEF Answer
  <2>2. /\ Code(r) \in {"ok", "send_rejected", "ws_not_connected", "gateway_connectivity_error"}
        /\ Code(r) = "ok" <=> r = "taken"
        /\ Code(r) = "gateway_connectivity_error" <=> r = "lost"
    BY DEF Code
  <2> QED
    BY <1>2, <1>5, <1>6, <2>1, <2>2, GatewayStepOK
<1> QED
  BY <1>7, <1>8

(* The session is created.                                                 *)
LEMMA CreateOK ==
  ASSUME SendInv, NEW a \in Attempts, Create(a)
  PROVE  SendInv'
<1>1. /\ pc[a] \in {"create", "onlyCreate"}
      /\ UNCHANGED <<dbVars, optionVars, accepted, onWay, req, insert, restarts>>
  BY DEF Create, gatewayVars
<1>2. TypeOK /\ Phases
  BY DEF SendInv
<1>3. /\ accepted' = [accepted EXCEPT ![a] = 0]
      /\ reply = [reply EXCEPT ![a] = "none"]
      /\ a \notin onWay
  BY <1>1, <1>2 DEF Phases, TypeOK
<1>4. PICK p \in {"resend", "done"},
           r \in {"none", "ok", "session_create_rejected", "ws_not_connected",
                  "gateway_connectivity_error"} :
        /\ pc' = [pc EXCEPT ![a] = p] /\ reply' = [reply EXCEPT ![a] = r]
        /\ p = "done" <=> r # "none"
        /\ pc[a] = "onlyCreate" => p = "done"
        /\ r = "ok" => pc[a] = "onlyCreate"
  <2>1. CASE pc[a] = "create" /\ GoOn(a, "resend")
    BY <1>3, <2>1 DEF GoOn
  <2>2. CASE pc[a] = "onlyCreate" /\ Answer(a, "ok")
    BY <2>2 DEF Answer
  <2>3. ASSUME NEW r \in {"session_create_rejected", "ws_not_connected",
                          "gateway_connectivity_error"}, Answer(a, r)
        PROVE  pc' = [pc EXCEPT ![a] = "done"] /\ reply' = [reply EXCEPT ![a] = r]
    BY <2>3 DEF Answer
  <2> QED
    BY <2>1, <2>2, <2>3 DEF Create
<1> QED
  BY <1>1, <1>3, <1>4, GatewayStepOK

(* Requests are cut off by a restart.                                      *)
LEMMA RestartOK ==
  ASSUME SendInv, Restart
  PROVE  SendInv'
<1>1. /\ UNCHANGED <<registered, stale, errors, row, accepted, req, reply, insert>>
      /\ restarts' \in 0 .. MaxRestarts /\ persistent' \in BOOLEAN
      /\ delivery' \in {row, [s \in Sessions |-> Nobody]}
      /\ pc' = [a \in Attempts |-> IF pc[a] \in {"idle", "done"} THEN pc[a] ELSE "cut"]
      /\ onWay' = onWay \cup {a \in Attempts : pc[a] \in {"send", "resend"}}
  <2>1. restarts' \in 0 .. MaxRestarts /\ persistent' \in BOOLEAN
    BY SendApiAssumption DEF SendInv, TypeOK, Restart, SendApiAssumption
  <2> QED
    BY <2>1 DEF Restart, dbVars
<1>2. TypeOK /\ Phases /\ OptionsTell /\ RepliesTell /\ RefusedIsInert
  BY DEF SendInv
<1>3. TypeOK'
  BY <1>1, <1>2 DEF TypeOK
<1>4. \A a \in Attempts : /\ pc'[a] = pc[a] \/ pc'[a] = "cut"
                          /\ pc[a] \in {"idle", "done"} => pc'[a] = pc[a]
                          /\ pc'[a] \in {"idle", "done", "cut"}
                          /\ a \in onWay' => a \in onWay \/ pc[a] \in {"send", "resend"}
  BY <1>1
<1>5. Phases'
  BY <1>1, <1>2, <1>4 DEF Phases
<1>6. RowsTell' /\ DuplicateHasOriginal'
  BY <1>1, <1>4, RowsKept
<1>7. RepliesTell'
  BY <1>1, <1>2 DEF RepliesTell
<1>8. OptionsTell' /\ RefusedIsInert'
  <2>1. \A s \in Sessions : row'[s] = row[s] /\ delivery'[s] \in {row[s], Nobody}
    BY <1>1
  <2>2. Nobody \notin Attempts
    BY SendApiAssumption DEF SendApiAssumption
  <2> QED
    BY <1>1, <1>2, <1>4, <2>1, <2>2 DEF OptionsTell, RefusedIsInert
<1> QED
  BY <1>3, <1>5, <1>6, <1>7, <1>8 DEF SendInv

(* Of keys without a colon the joined text tells the request.              *)
LEMMA KeyedJoinedOnce ==
  ASSUME TypeOK, NEW a \in Keyed, NEW b \in Keyed, Plain(a), Plain(b), Scoped(a) = Scoped(b)
  PROVE  req[a].session = req[b].session /\ req[a].key = req[b].key
<1> DEFINE s == req[a].session
           t == req[b].session
           k == req[a].key
           l == req[b].key
<1>1. s \in Seq(Parts) /\ t \in Seq(Parts) /\ k \in Seq(Parts) /\ l \in Seq(Parts)
  BY KeyedParts
<1>2. Len(k) = 1 /\ Len(l) = 1 /\ s \o k = t \o l
  BY DEF Plain, Scoped
<1> SUFFICES s = t /\ k = l
  OBVIOUS
<1> HIDE DEF s, t, k, l
<1> QED
  BY <1>1, <1>2, SMTT(30)

(* The idempotency key is registered: new, known, off or failing.          *)
LEMMA DedupeOK ==
  ASSUME SendInv, NEW a \in Attempts, Dedupe(a)
  PROVE  SendInv'
<1>1. /\ pc[a] = "dedupe"
      /\ UNCHANGED <<persistent, stale, delivery, row, accepted, onWay, req, restarts>>
  BY DEF Dedupe, gatewayVars, optionVars
<1>2. TypeOK /\ Phases /\ RowsTell /\ OptionsTell /\ RepliesTell /\ RefusedIsInert
      /\ DuplicateHasOriginal
  BY DEF SendInv
<1>3. /\ a \in Keyed /\ insert[a] = "none" /\ accepted[a] = 0 /\ reply[a] = "none" /\ a \notin onWay
      /\ req[a].handler = "send"
  BY <1>1, <1>2 DEF Phases, Keyed
<1>4. /\ Keyed' = Keyed /\ Keyed \subseteq Attempts
      /\ \A b \in Attempts : Scoped(b)' = Scoped(b) /\ Plain(b)' = Plain(b)
  BY <1>1, SameKeys DEF Keyed
<1>5. PICK p \in {"options", "done"}, r \in {"none", "duplicate"}, 
           i \in {"none", "new", "failed", "unchecked"} :
        /\ pc' = [pc EXCEPT ![a] = p] /\ reply' = [reply EXCEPT ![a] = r]
        /\ insert' = [insert EXCEPT ![a] = i]
        /\ p = "done" <=> r = "duplicate"
        /\ r = "duplicate" => i = "none" /\ registered' = registered /\ Scoped(a) \in registered
        /\ r = "none" => i # "none"
        /\ i = "unchecked" => registered' = registered
        /\ i = "new" => Scoped(a) \notin registered /\ registered' = registered \cup {Scoped(a)}
        /\ registered' \in {registered, registered \cup {Scoped(a)}}
        /\ errors' \in 0 .. MaxErrors
  <2>1. /\ reply = [reply EXCEPT ![a] = "none"] /\ insert = [insert EXCEPT ![a] = "none"]
        /\ errors \in 0 .. MaxErrors
    BY <1>2, <1>3 DEF TypeOK
  <2>2. CASE /\ registered' = registered \cup {Scoped(a)} /\ errors' = errors
             /\ IsNew(a) /\ GoOn(a, "options") /\ Told(a, "new")
    BY <2>1, <2>2 DEF IsNew, GoOn, Told
  <2>3. CASE /\ registered' = registered \cup {Scoped(a)} /\ errors' = errors
             /\ ~IsNew(a) /\ Answer(a, "duplicate") /\ insert' = insert
    BY <2>1, <2>3 DEF IsNew, Answer
  <2>4. CASE /\ GoOn(a, "options") /\ Told(a, "unchecked")
             /\ UNCHANGED <<registered, errors>>
    BY <2>1, <2>4 DEF GoOn, Told
  <2>5. CASE /\ errors < MaxErrors /\ errors' = errors + 1
             /\ registered' \in {registered, registered \cup {Scoped(a)}}
             /\ GoOn(a, "options") /\ Told(a, "failed")
    <3>1. errors' \in 0 .. MaxErrors
      BY <2>1, <2>5, SendApiAssumption DEF SendApiAssumption
    <3> QED
      BY <2>1, <2>5, <3>1 DEF GoOn, Told
  <2> QED
    BY <2>2, <2>3, <2>4, <2>5 DEF Dedupe
<1>6. /\ pc'[a] = p /\ reply'[a] = r /\ insert'[a] = i
      /\ \A b \in Attempts \ {a} :
           pc'[b] = pc[b] /\ reply'[b] = reply[b] /\ insert'[b] = insert[b]
  BY <1>2, <1>5 DEF TypeOK
<1>7. TypeOK'
  <2>1. /\ pc' \in [Attempts -> {"idle", "dedupe", "options", "send", "create", "resend",
                                  "onlyCreate", "done", "cut"}]
        /\ reply' \in [Attempts -> Replies \cup {"none"}]
        /\ insert' \in [Attempts -> {"none", "new", "failed", "unchecked"}]
    BY <1>2, <1>5 DEF TypeOK, Replies
  <2>2. \A k \in registered' : \E s \in Sessions, j \in Keys : k = s \o j
    <3>1. \E s \in Sessions, j \in Keys : Scoped(a) = s \o j
      BY <1>2, <1>3, KeyedParts
    <3>2. \A k \in registered : \E s \in Sessions, j \in Keys : k = s \o j
      BY <1>2 DEF TypeOK
    <3>3. \A k \in registered' : k \in registered \/ k = Scoped(a)
      BY <1>5
    <3> QED
      BY <3>1, <3>2, <3>3, Zenon
  <2>3. stale' \subseteq registered'
    BY <1>1, <1>2, <1>5 DEF TypeOK
  <2> QED
    BY <1>1, <1>2, <1>5, <2>1, <2>2, <2>3 DEF TypeOK
<1>8. Phases'
  BY <1>1, <1>2, <1>3, <1>5, <1>6 DEF Phases
<1>9. RowsTell'
  <2>1. \A b \in Attempts : insert'[b] # "none" => b \in Keyed
    BY <1>2, <1>3, <1>6 DEF RowsTell
  <2>2. ASSUME NEW k \in registered'
        PROVE  \E b \in Keyed : insert'[b] \in {"new", "failed"} /\ Scoped(b) = k
    <3>1. CASE k \in registered
      <4>1. PICK b \in Keyed : insert[b] \in {"new", "failed"} /\ Scoped(b) = k
        BY <1>2, <3>1 DEF RowsTell
      <4> QED
        BY <1>3, <1>4, <1>6, <4>1
    <3>2. CASE k \notin registered
      BY <2>2, <3>2, <1>3, <1>5, <1>6
    <3> QED
      BY <3>1, <3>2
  <2>3. \A b \in Attempts : insert'[b] = "new" => Scoped(b) \in registered'
    BY <1>2, <1>5, <1>6 DEF RowsTell
  <2>4. \A b, c \in Attempts :
          insert'[b] = "new" /\ insert'[c] = "new" /\ Scoped(b) = Scoped(c) => b = c
    BY <1>2, <1>5, <1>6 DEF RowsTell
  <2>5. ASSUME NEW b \in Keyed,
               \/ pc'[b] \in {"options", "send", "create", "resend"}
               \/ b \in onWay \/ accepted[b] > 0
        PROVE  insert'[b] # "none"
    <3>1. CASE b = a
      BY <2>5, <3>1, <1>3, <1>5, <1>6
    <3>2. CASE b # a
      BY <2>5, <3>2, <1>2, <1>4, <1>6 DEF RowsTell
    <3> QED
      BY <3>1, <3>2
  <2> QED
    BY <1>1, <1>4, <2>1, <2>2, <2>3, <2>4, <2>5 DEF RowsTell
<1>10. OptionsTell' /\ RefusedIsInert'
  <2>1. \A s \in Sessions : a \notin {delivery[s], row[s]}
    BY <1>1, <1>2 DEF OptionsTell
  <2> QED
    BY <1>1, <1>2, <1>6, <2>1 DEF OptionsTell, RefusedIsInert
<1>11. RepliesTell'
  BY <1>1, <1>2, <1>3, <1>5, <1>6 DEF RepliesTell, Replies
<1>12. DuplicateHasOriginal'
  <2> SUFFICES ASSUME NEW b \in Attempts, reply'[b] = "duplicate"
               PROVE  \E c \in Keyed \ {b} :
                        /\ insert'[c] \in {"new", "failed"}
                        /\ Scoped(c) = Scoped(b)
                        /\ Plain(b) /\ Plain(c)
                             => req[c].session = req[b].session /\ req[c].key = req[b].key
    BY <1>1, <1>4 DEF DuplicateHasOriginal
  <2>1. CASE b # a
    <3>1. PICK c \in Keyed \ {b} :
            /\ insert[c] \in {"new", "failed"}
            /\ Scoped(c) = Scoped(b)
            /\ Plain(b) /\ Plain(c)
                 => req[c].session = req[b].session /\ req[c].key = req[b].key
      BY <1>2, <1>6, <2>1 DEF DuplicateHasOriginal
    <3> QED
      BY <1>3, <1>4, <1>6, <3>1
  <2>2. CASE b = a
    <3>1. Scoped(a) \in registered
      BY <1>5, <1>6, <2>2
    <3>2. PICK c \in Keyed : insert[c] \in {"new", "failed"} /\ Scoped(c) = Scoped(a)
      BY <1>2, <3>1 DEF RowsTell
    <3>3. c # a /\ insert'[c] \in {"new", "failed"}
      BY <1>3, <1>4, <1>6, <3>2
    <3>4. ASSUME Plain(a), Plain(c)
          PROVE  req[c].session = req[a].session /\ req[c].key = req[a].key
      BY <1>2, <1>3, <3>2, <3>4, KeyedJoinedOnce
    <3> QED
      BY <2>2, <3>2, <3>3, <3>4
  <2> QED
    BY <2>1, <2>2
<1> QED
  BY <1>7, <1>8, <1>9, <1>10, <1>11, <1>12 DEF SendInv

(* The gateway takes the message of a request that was given up.           *)
LEMMA TakeLateOK ==
  ASSUME SendInv, NEW a \in Attempts, TakeLate(a)
  PROVE  SendInv'
<1>1. /\ a \in onWay /\ onWay' = onWay \ {a} /\ accepted' = [accepted EXCEPT ![a] = @ + 1]
      /\ UNCHANGED <<persistent, registered, stale, errors, delivery, row, pc, req, reply, insert,
                     restarts>>
  BY DEF TakeLate, dbVars, optionVars
<1>2. TypeOK /\ Phases /\ RepliesTell
  BY DEF SendInv
<1>3. /\ accepted' = [accepted EXCEPT ![a] = 1] /\ accepted[a] = 0 /\ accepted'[a] = 1
      /\ \A b \in Attempts \ {a} : accepted'[b] = accepted[b]
  <2>1. accepted[a] = 0 /\ accepted \in [Attempts -> Nat]
    BY <1>1, <1>2 DEF TypeOK, Phases
  <2> QED
    BY <1>1, <2>1
<1>4. TypeOK'
  <2>1. accepted' \in [Attempts -> Nat] /\ onWay' \subseteq Attempts
    BY <1>1, <1>2, <1>3 DEF TypeOK
  <2> QED
    BY <1>1, <1>2, <2>1 DEF TypeOK
<1>5. Phases' /\ RepliesTell'
  BY <1>1, <1>2, <1>3 DEF Phases, RepliesTell, Replies
<1>6. RowsTell' /\ DuplicateHasOriginal'
  BY <1>1, <1>3, RowsKept
<1>7. OptionsTell' /\ RefusedIsInert'
  BY <1>1 DEF SendInv, OptionsTell, RefusedIsInert
<1> QED
  BY <1>4, <1>5, <1>6, <1>7 DEF SendInv

(* Keys grow old; that does not concern a request.                         *)
LEMMA QuietOK ==
  ASSUME SendInv, UNCHANGED <<persistent, registered, errors, delivery, row, accepted, onWay, pc,
                              req, reply, insert, restarts>>,
         stale' \subseteq registered
  PROVE  SendInv'
<1>1. TypeOK'
  BY DEF SendInv, TypeOK
<1>2. Phases' /\ RepliesTell'
  BY DEF SendInv, Phases, RepliesTell
<1>3. RowsTell' /\ DuplicateHasOriginal'
  BY RowsKept
<1>4. OptionsTell' /\ RefusedIsInert'
  BY DEF SendInv, OptionsTell, RefusedIsInert
<1> QED
  BY <1>1, <1>2, <1>3, <1>4 DEF SendInv

(* Every step keeps the invariant.                                         *)
LEMMA SendSteps == SendInv /\ [Next]_vars => SendInv'
<1> SUFFICES ASSUME SendInv, [Next]_vars PROVE SendInv'
  OBVIOUS
<1>1. stale \subseteq registered
  BY DEF SendInv, TypeOK
<1>2. ASSUME NEW a \in Attempts, Arrive(a) PROVE SendInv'
  BY <1>2, ArriveOK
<1>3. ASSUME NEW a \in Attempts, Handle(a) PROVE SendInv'
  BY <1>3, DedupeOK, SetOptionsOK, SendOK, CreateOK DEF Handle
<1>4. ASSUME NEW a \in Attempts, TakeLate(a) PROVE SendInv'
  BY <1>4, TakeLateOK
<1>5. CASE Expire
  BY <1>1, <1>5, QuietOK DEF Expire, gatewayVars, optionVars
<1>6. CASE Restart
  BY <1>6, RestartOK
<1>7. CASE UNCHANGED vars
  BY <1>1, <1>7, QuietOK DEF vars, dbVars, optionVars, gatewayVars
<1> QED
  BY <1>2, <1>3, <1>4, <1>5, <1>6, <1>7 DEF Next

(* The invariant holds of every reachable state.                           *)
THEOREM SendInductive == Spec => []SendInv
BY SendInit, SendSteps, PTL DEF Spec

(* Of the copies of a keyed request that got an answer of the table one is *)
(* taken at the most, whichever processes they came to.                    *)
THEOREM OneIsAccepted == Spec => []AcceptedOnce
<1>1. SendInv => AcceptedOnce
  <2> SUFFICES ASSUME SendInv, NEW a \in Keyed, NEW b \in Keyed,
                      a # b, Scoped(a) = Scoped(b), accepted[a] > 0, accepted[b] > 0,
                      {insert[a], insert[b]} \cap {"failed", "unchecked"} = {}
               PROVE  FALSE
    BY DEF AcceptedOnce, Slipped, Keyed
  <2>1. a \in Attempts /\ b \in Attempts /\ insert[a] # "none" /\ insert[b] # "none"
    BY DEF SendInv, RowsTell, Keyed
  <2>2. insert[a] = "new" /\ insert[b] = "new"
    BY <2>1 DEF SendInv, TypeOK
  <2> QED
    BY <2>1, <2>2 DEF SendInv, RowsTell
<1> QED
  BY <1>1, SendInductive, PTL

(* An insert that fails is counted as it lets its request through.         *)
LEMMA ErrorsAreCounted == SendInv /\ ErrorsCount /\ [Next]_vars => ErrorsCount'
<1> SUFFICES ASSUME SendInv, ErrorsCount, [Next]_vars PROVE ErrorsCount'
  OBVIOUS
<1>1. CASE UNCHANGED <<insert, errors>>
  BY <1>1 DEF ErrorsCount, Failed, Unchecked
<1>2. ASSUME NEW a \in Attempts, Dedupe(a) PROVE ErrorsCount'
  <2>1. insert[a] = "none" /\ insert \in [Attempts -> {"none", "new", "failed", "unchecked"}]
    BY <1>2 DEF SendInv, Phases, TypeOK, Dedupe
  <2>2. CASE UNCHANGED <<insert, errors>>
    BY <2>2, <1>1
  <2>3. CASE Told(a, "new") /\ UNCHANGED errors
    <3>1. Failed' = Failed /\ Unchecked' = Unchecked
      BY <2>1, <2>3 DEF Told, Failed, Unchecked
    <3> QED
      BY <2>3, <3>1 DEF ErrorsCount
  <2>4. CASE Told(a, "failed") /\ errors' = errors + 1
    <3>1. a \notin Failed /\ Failed' = Failed \cup {a} /\ Unchecked' = Unchecked
      BY <2>1, <2>4 DEF Told, Failed, Unchecked
    <3>2. IsFiniteSet(Failed \cup {a}) /\ Cardinality(Failed \cup {a}) = Cardinality(Failed) + 1
      BY <3>1, FS_AddElement DEF ErrorsCount
    <3> QED
      BY <2>4, <3>1, <3>2 DEF ErrorsCount
  <2>5. CASE Told(a, "unchecked") /\ UNCHANGED errors
    <3>1. Failed' = Failed /\ Unchecked' = Unchecked \cup {a}
      BY <2>1, <2>5 DEF Told, Failed, Unchecked
    <3>2. IsFiniteSet(Unchecked \cup {a})
      BY FS_AddElement DEF ErrorsCount
    <3> QED
      BY <2>5, <3>1, <3>2 DEF ErrorsCount
  <2> QED
    BY <1>2, <2>2, <2>3, <2>4, <2>5 DEF Dedupe
<1>3. ASSUME NEW a \in Attempts, Arrive(a) \/ SetOptions(a) \/ Send(a) \/ Create(a) \/ TakeLate(a)
      PROVE  ErrorsCount'
  BY <1>1, <1>3 DEF Arrive, SetOptions, Send, Create, TakeLate, dbVars
<1>4. CASE Expire \/ Restart \/ UNCHANGED vars
  BY <1>1, <1>4 DEF Expire, Restart, vars, dbVars
<1> QED
  BY <1>2, <1>3, <1>4 DEF Next, Handle

(* The copies that are taken are no more than the inserts that failed, the *)
(* copies that came to a process without its database, and one.            *)
THEOREM CopiesAreBounded == Spec => []CopiesBounded
<1>1. Init => ErrorsCount
  <2> SUFFICES ASSUME Init PROVE ErrorsCount
    OBVIOUS
  <2>1. Failed = {} /\ Unchecked = {} /\ errors = 0
    BY DEF Init, Failed, Unchecked
  <2> QED
    BY <2>1, FS_EmptySet DEF ErrorsCount
<1>2. SendInv /\ ErrorsCount => CopiesBounded
  <2> SUFFICES ASSUME SendInv, ErrorsCount, NEW a \in Keyed
               PROVE  Cardinality(Copies(a)) <= 1 + errors + Cardinality(Unchecked)
    BY DEF CopiesBounded
  <2> DEFINE Excused == Failed \cup Unchecked
             Owners == Copies(a) \ Excused
  <2>1. \A b \in Owners : b \in Attempts /\ insert[b] = "new" /\ Scoped(b) = Scoped(a)
    <3> SUFFICES ASSUME NEW b \in Owners
                 PROVE  b \in Attempts /\ insert[b] = "new" /\ Scoped(b) = Scoped(a)
      OBVIOUS
    <3>1. /\ b \in Keyed /\ b \in Attempts /\ Scoped(b) = Scoped(a) /\ accepted[b] > 0
          /\ insert[b] \notin {"failed", "unchecked"}
      BY DEF Copies, Keyed, Failed, Unchecked
    <3>2. insert[b] # "none" /\ insert[b] \in {"none", "new", "failed", "unchecked"}
      BY <3>1 DEF SendInv, RowsTell, TypeOK
    <3> QED
      BY <3>1, <3>2
  <2>2. \A b, c \in Owners : b = c
    BY <2>1 DEF SendInv, RowsTell
  <2>3. PICK x : Owners \subseteq {x}
    BY <2>2
  <2>4. Copies(a) \in SUBSET (Excused \cup {x})
    BY <2>3
  <2>5. /\ IsFiniteSet(Failed) /\ Cardinality(Failed) = errors /\ errors \in Nat
        /\ IsFiniteSet(Unchecked) /\ Cardinality(Unchecked) \in Nat
    BY FS_CardinalityType DEF ErrorsCount, SendInv, TypeOK
  <2>6. /\ IsFiniteSet(Excused) /\ Cardinality(Excused) \in Nat
        /\ Cardinality(Excused) <= errors + Cardinality(Unchecked)
    <3>1. /\ IsFiniteSet(Failed \cup Unchecked)
          /\ Cardinality(Failed \cup Unchecked) =
               Cardinality(Failed) + Cardinality(Unchecked) - Cardinality(Failed \cap Unchecked)
      BY <2>5, FS_Union
    <3>2. Failed \cap Unchecked = {}
      BY DEF Failed, Unchecked
    <3>3. Cardinality(Failed \cap Unchecked) = 0
      BY <3>2, FS_EmptySet
    <3> QED
      BY <2>5, <3>1, <3>3
  <2>7. /\ IsFiniteSet(Excused \cup {x}) /\ Cardinality(Excused \cup {x}) \in Nat
        /\ Cardinality(Excused \cup {x}) <= Cardinality(Excused) + 1
    <3>1. /\ IsFiniteSet(Excused \cup {x})
          /\ Cardinality(Excused \cup {x}) =
               IF x \in Excused THEN Cardinality(Excused) ELSE Cardinality(Excused) + 1
      BY <2>6, FS_AddElement
    <3> QED
      BY <2>6, <3>1
  <2>8. IsFiniteSet(Copies(a)) /\ Cardinality(Copies(a)) <= Cardinality(Excused \cup {x})
    BY <2>4, <2>7, FS_Subset
  <2>9. Cardinality(Copies(a)) \in Nat
    BY <2>8, FS_CardinalityType
  <2> HIDE DEF Excused
  <2> QED
    BY <2>5, <2>6, <2>7, <2>8, <2>9
<1> QED
  BY <1>1, <1>2, ErrorsAreCounted, SendInductive, PTL DEF Spec

(* Every step of a request brings it closer to its answer.                 *)
THEOREM RequestsOnlyAdvance == Spec => RequestsAdvance
<1> DEFINE Advances(a) == UNCHANGED <<pc[a], req[a], reply[a]>> \/ StepsLeft(a)' < StepsLeft(a)
<1>1. SendInv /\ [Next]_vars => [\A a \in Attempts : Advances(a)]_vars
  <2> SUFFICES ASSUME SendInv, Next, NEW b \in Attempts PROVE Advances(b)
    OBVIOUS
  <2>1. TypeOK
    BY DEF SendInv
  <2>2. ASSUME NEW a \in Attempts, Arrive(a) PROVE Advances(b)
    <3>1. \E p \in {"onlyCreate", "dedupe", "options"} : pc[a] = "idle" /\ pc' = [pc EXCEPT ![a] = p]
      BY <2>2 DEF Arrive, GoOn
    <3>2. reply' = reply /\ \E q \in Requests : req' = [req EXCEPT ![a] = q]
      BY <2>2 DEF Arrive, GoOn
    <3> QED
      BY <2>1, <3>1, <3>2 DEF StepsLeft, TypeOK
  <2>3. ASSUME NEW a \in Attempts, NEW p \in {"options", "send", "create", "resend", "done"},
               NEW r \in Replies \cup {"none"},
               pc' = [pc EXCEPT ![a] = p], reply' \in {reply, [reply EXCEPT ![a] = r]}, req' = req,
               \/ pc[a] = "dedupe" /\ p \in {"options", "done"}
               \/ pc[a] = "options" /\ p \in {"send", "done"}
               \/ pc[a] = "send" /\ p \in {"create", "done"}
               \/ pc[a] = "create" /\ p \in {"resend", "done"}
               \/ pc[a] \in {"resend", "onlyCreate"} /\ p = "done"
        PROVE  Advances(b)
    BY <2>1, <2>3 DEF StepsLeft, TypeOK
  <2>4. ASSUME NEW a \in Attempts, Dedupe(a) PROVE Advances(b)
    BY <2>3, <2>4 DEF Dedupe, GoOn, Answer, Replies
  <2>5. ASSUME NEW a \in Attempts, SetOptions(a) PROVE Advances(b)
    BY <2>3, <2>5 DEF SetOptions, GoOn, Answer, Replies
  <2>6. ASSUME NEW a \in Attempts, Send(a) PROVE Advances(b)
    <3>1. PICK r \in {"taken", "missing", "refused", "unsent", "lost"} :
            IF Missing(r) /\ MayCreate(a) THEN GoOn(a, "create") ELSE Answer(a, Code(r))
      BY <2>6 DEF Send
    <3>2. Code(r) \in Replies /\ pc[a] \in {"send", "resend"} /\ req' = req
      BY <2>6 DEF Code, Replies, Send
    <3> QED
      BY <2>3, <3>1, <3>2 DEF MayCreate, GoOn, Answer
  <2>7. ASSUME NEW a \in Attempts, Create(a) PROVE Advances(b)
    BY <2>3, <2>7 DEF Create, GoOn, Answer, Replies
  <2>8. CASE Restart
    BY <2>1, <2>8 DEF Restart, StepsLeft, TypeOK
  <2>9. CASE Expire \/ \E a \in Attempts : TakeLate(a)
    BY <2>9 DEF Expire, TakeLate
  <2> QED
    BY <2>2, <2>4, <2>5, <2>6, <2>7, <2>8, <2>9 DEF Next, Handle
<1> QED
  BY <1>1, SendInductive, PTL DEF Spec, RequestsAdvance

(* The answers tell whether the message was delivered.                     *)
THEOREM AnswersTell == Spec => []RepliesTell
<1>1. SendInv => RepliesTell
  BY DEF SendInv
<1> QED
  BY <1>1, SendInductive, PTL

(* A refused request leaves the options alone.                             *)
THEOREM RefusalsAreInert == Spec => []RefusedIsInert
<1>1. SendInv => RefusedIsInert
  BY DEF SendInv
<1> QED
  BY <1>1, SendInductive, PTL

(* A duplicate has an original; keys without a colon have no other.        *)
THEOREM DuplicatesHaveOriginals == Spec => []DuplicateHasOriginal
<1>1. SendInv => DuplicateHasOriginal
  BY DEF SendInv
<1> QED
  BY <1>1, SendInductive, PTL

-----------------------------------------------------------------------------
(* Refinement: what a step does to the requests as SendContract sees them. *)

(* A request that goes on to its next step shows nothing.                  *)
LEMMA GoesOn ==
  ASSUME SendInv, NEW a \in Attempts, NEW p \in {"options", "send", "create", "resend"},
         pc[a] \notin {"idle", "done", "cut"}, GoOn(a, p), req' = req
  PROVE  UNCHANGED <<Phase, Token, AnswerTold>>
<1>1. /\ \A b \in Attempts \ {a} : pc'[b] = pc[b]
      /\ pc'[a] = p /\ reply' = reply
  BY DEF SendInv, TypeOK, GoOn
<1>2. Phase' = Phase
  BY <1>1 DEF Phase, Sending
<1>3. Token' = Token /\ AnswerTold' = AnswerTold
  BY <1>1, SameKeys DEF Token, AnswerTold, Sending
<1> QED
  BY <1>2, <1>3

(* A request that is answered is closed.                                   *)
LEMMA Answers ==
  ASSUME SendInv, NEW a \in Attempts, NEW r \in Replies, Sending(a),
         pc[a] \notin {"idle", "done", "cut"}, Answer(a, r),
         UNCHANGED <<persistent, req, insert, errors>>
  PROVE  Abstract!Close(a, r)
<1>1. /\ \A b \in Attempts \ {a} : pc'[b] = pc[b] /\ reply'[b] = reply[b]
      /\ pc'[a] = "done" /\ reply'[a] = r
  BY DEF SendInv, TypeOK, Answer
<1>2. Phase[a] = "open" /\ Phase' = [Phase EXCEPT ![a] = "answered"]
  BY <1>1 DEF Phase, Sending
<1>3. AnswerTold' = [AnswerTold EXCEPT ![a] = r]
  BY <1>1 DEF AnswerTold, Sending
<1>4. Token' = Token
  BY SameKeys DEF Token
<1> QED
  BY <1>2, <1>3, <1>4 DEF Abstract!Close

(* A message is taken once, of requests past their key.                    *)
LEMMA Takes ==
  ASSUME SendInv, NEW a \in Attempts, pc[a] \in {"send", "resend"} \/ a \in onWay,
         accepted' = [accepted EXCEPT ![a] = @ + 1]
  PROVE  Abstract!Take(a)
<1>1. accepted[a] = 0 /\ accepted \in [Attempts -> Nat]
  BY DEF SendInv, Phases, TypeOK
<1>2. accepted' = [accepted EXCEPT ![a] = 1]
  BY <1>1
<1>3. a \notin Taken /\ Taken' = Taken \cup {a}
  BY <1>1, <1>2 DEF Taken
<1>4. Abstract!Entitled(a)
  <2>1. Token[a] # {} => a \in Keyed
    BY DEF Token
  <2>2. a \in Keyed => insert[a] # "none"
    BY DEF SendInv, RowsTell
  <2> QED
    BY <2>1, <2>2 DEF Abstract!Entitled
<1> QED
  BY <1>3, <1>4 DEF Abstract!Take

(* A new request asks, unless it is one that only creates a session.       *)
LEMMA ArriveRefines ==
  ASSUME SendInv, NEW a \in Attempts, Arrive(a)
  PROVE  Abstract!Ask(a) \/ UNCHANGED Abstract!vars
<1>1. PICK q \in Requests :
        /\ req' = [req EXCEPT ![a] = q]
        /\ GoOn(a, IF q.handler = "create" THEN "onlyCreate"
                   ELSE IF q.key # NoKey THEN "dedupe" ELSE "options")
  BY DEF Arrive
<1>2. /\ pc[a] = "idle" /\ UNCHANGED <<persistent, errors, accepted, insert, reply>>
  BY <1>1 DEF Arrive, GoOn, dbVars, gatewayVars
<1>3. TypeOK /\ Phases
  BY DEF SendInv
<1>4. /\ req[a] = Nobody /\ reply[a] = "none"
      /\ req'[a] = q /\ pc'[a] \notin {"done", "cut"}
      /\ \A b \in Attempts \ {a} : req'[b] = req[b] /\ pc'[b] = pc[b]
  BY <1>1, <1>2, <1>3 DEF TypeOK, Phases, GoOn
<1>5. /\ q # Nobody /\ q.session \in Sessions /\ q.key \in Keys \cup {NoKey}
      /\ q.handler \in {"send", "create"} /\ (q.handler = "create" => q.key = NoKey)
  BY RequestParts
<1>6. Taken' = Taken /\ AnswerTold' = AnswerTold
  BY <1>2, <1>4 DEF Taken, AnswerTold, Sending
<1>7. PICK T \in {{}} \cup {{t} : t \in Joined} :
        /\ Token' = [Token EXCEPT ![a] = T]
        /\ q.handler = "create" => Token' = Token
  <2>1. \A b \in Attempts \ {a} : Token'[b] = Token[b]
    BY <1>4 DEF Token, Keyed, Scoped
  <2>2. CASE q.key = NoKey
    <3>1. Token'[a] = {} /\ Token[a] = {}
      BY <1>4, <2>2 DEF Token, Keyed
    <3> QED
      BY <2>1, <3>1 DEF Token
  <2>3. CASE q.key # NoKey
    <3>1. Token'[a] = {q.session \o q.key}
      BY <1>4, <1>5, <2>3 DEF Token, Keyed, Scoped
    <3>2. q.session \in Sessions /\ q.key \in Keys
      BY <1>5, <2>3
    <3>3. q.session \o q.key \in Joined
      <4>1. \E s \in Sessions, k \in Keys : q.session \o q.key = s \o k
        BY <3>2, Zenon
      <4> QED
        BY <4>1 DEF Joined
    <3>4. Token' = [Token EXCEPT ![a] = {q.session \o q.key}]
      BY <2>1, <3>1 DEF Token
    <3> QED
      BY <2>3, <3>3, <3>4, <1>5, Zenon
  <2> QED
    BY <2>2, <2>3
<1>8. CASE q.handler = "create"
  <2>1. Phase' = Phase
    BY <1>4, <1>8 DEF Phase, Sending
  <2> QED
    BY <1>2, <1>6, <1>7, <1>8, <2>1 DEF Abstract!vars
<1>9. CASE q.handler # "create"
  <2>1. Phase[a] = "none" /\ Phase' = [Phase EXCEPT ![a] = "open"]
    BY <1>4, <1>5, <1>9 DEF Phase, Sending
  <2> QED
    BY <1>2, <1>6, <1>7, <2>1 DEF Abstract!Ask
<1> QED
  BY <1>8, <1>9

(* The key is new, known, or gets past the table.                          *)
LEMMA DedupeRefines ==
  ASSUME SendInv, NEW a \in Attempts, Dedupe(a)
  PROVE  Abstract!Claim(a) \/ Abstract!Slip(a) \/ Abstract!GoUnchecked(a) \/ Abstract!Repeat(a)
<1>1. pc[a] = "dedupe" /\ UNCHANGED <<persistent, accepted, req>>
  BY DEF Dedupe, gatewayVars
<1>2. TypeOK /\ Phases /\ RowsTell
  BY DEF SendInv
<1>3. /\ a \in Keyed /\ Sending(a) /\ insert[a] = "none"
      /\ Phase[a] = "open" /\ Token[a] = {Scoped(a)}
  BY <1>1, <1>2 DEF Phases, Sending, Keyed, Phase, Token
<1>4. Taken' = Taken
  BY <1>1 DEF Taken
<1>5. ASSUME GoOn(a, "options")
      PROVE  UNCHANGED <<Phase, Token, AnswerTold>>
  BY <1>1, <1>5, GoesOn
<1>6. CASE persistent /\ IsNew(a) /\ GoOn(a, "options") /\ Told(a, "new") /\ UNCHANGED errors
  <2>1. \A b \in Attempts : insert[b] = "new" => Token[b] # Token[a]
    <3> SUFFICES ASSUME NEW b \in Attempts, insert[b] = "new", Token[b] = Token[a] PROVE FALSE
      OBVIOUS
    <3>1. Scoped(b) \in registered /\ b \in Keyed
      BY <1>2 DEF RowsTell
    <3>2. Scoped(b) = Scoped(a)
      BY <1>3, <3>1 DEF Token
    <3> QED
      BY <1>6, <3>1, <3>2 DEF IsNew
  <2> QED
    BY <1>1, <1>3, <1>4, <1>5, <1>6, <2>1 DEF Told, Abstract!Claim, Abstract!AtItsKey
<1>7. CASE persistent /\ ~IsNew(a) /\ Answer(a, "duplicate") /\ UNCHANGED <<insert, errors>>
  <2>1. PICK b \in Keyed : insert[b] \in {"new", "failed"} /\ Scoped(b) = Scoped(a)
    BY <1>2, <1>7 DEF IsNew, RowsTell
  <2>2. b \in Attempts /\ Token[b] = Token[a]
    BY <1>3, <2>1 DEF Keyed, Token
  <2>3. Abstract!Close(a, "duplicate")
    BY <1>1, <1>3, <1>7, Answers DEF Replies
  <2> QED
    BY <1>3, <1>4, <1>7, <2>1, <2>2, <2>3 DEF Abstract!Repeat, Abstract!AtItsKey
<1>8. CASE ~persistent /\ GoOn(a, "options") /\ Told(a, "unchecked") /\ UNCHANGED errors
  BY <1>1, <1>3, <1>4, <1>5, <1>8 DEF Told, Abstract!GoUnchecked, Abstract!AtItsKey
<1>9. CASE /\ persistent /\ errors < MaxErrors /\ errors' = errors + 1
           /\ GoOn(a, "options") /\ Told(a, "failed")
  BY <1>1, <1>3, <1>4, <1>5, <1>9 DEF Told, Abstract!Slip, Abstract!AtItsKey
<1> QED
  BY <1>6, <1>7, <1>8, <1>9 DEF Dedupe

(* A bad callbackUrl is a refusal.                                         *)
LEMMA SetOptionsRefines ==
  ASSUME SendInv, NEW a \in Attempts, SetOptions(a)
  PROVE  Abstract!Refuse(a) \/ UNCHANGED Abstract!vars
<1>1. pc[a] = "options" /\ UNCHANGED <<persistent, errors, accepted, req, insert>>
  BY DEF SetOptions, dbVars, gatewayVars
<1>2. Sending(a) /\ Taken' = Taken
  BY <1>1 DEF SendInv, Phases, Sending, Taken
<1>3. CASE Answer(a, "bad_request")
  <2>1. Abstract!Close(a, "bad_request")
    BY <1>1, <1>2, <1>3, Answers DEF Replies
  <2> QED
    BY <1>2, <2>1 DEF Abstract!Refuse, Abstract!Refusals
<1>4. CASE GoOn(a, "send")
  BY <1>1, <1>2, <1>4, GoesOn DEF Abstract!vars
<1> QED
  BY <1>3, <1>4 DEF SetOptions

(* The answer of the gateway, or its absence, is passed on.                *)
LEMMA SendRefines ==
  ASSUME SendInv, NEW a \in Attempts, Send(a)
  PROVE  \/ Abstract!Confirm(a) \/ Abstract!Refuse(a) \/ Abstract!GiveUp(a)
         \/ UNCHANGED Abstract!vars
<1>1. PICK r \in {"taken", "missing", "refused", "unsent", "lost"} :
        /\ Gateway(a, r)
        /\ IF Missing(r) /\ MayCreate(a) THEN GoOn(a, "create") ELSE Answer(a, Code(r))
  BY DEF Send
<1>2. pc[a] \in {"send", "resend"} /\ UNCHANGED <<persistent, errors, req, insert>>
  BY DEF Send, dbVars
<1>3. Sending(a)
  BY <1>2 DEF SendInv, Phases, Sending
<1>4. r # "taken" => Taken' = Taken
  BY <1>1 DEF Gateway, Taken
<1>5. CASE Missing(r) /\ MayCreate(a)
  BY <1>1, <1>2, <1>4, <1>5, GoesOn DEF Missing, Abstract!vars
<1>6. CASE ~(Missing(r) /\ MayCreate(a))
  <2>1. Code(r) \in Replies /\ Answer(a, Code(r))
    BY <1>1, <1>6 DEF Code, Replies
  <2>2. Abstract!Close(a, Code(r))
    BY <1>2, <1>3, <2>1, Answers
  <2>3. CASE r = "taken"
    <3>1. Code(r) = "ok" /\ accepted' = [accepted EXCEPT ![a] = @ + 1]
      BY <1>1, <2>3 DEF Code, Gateway
    <3> QED
      BY <1>2, <2>2, <3>1, Takes DEF Abstract!Confirm
  <2>4. CASE r \in {"missing", "refused", "unsent"}
    <3>1. Code(r) \in Abstract!Refusals
      BY <2>4 DEF Code, Abstract!Refusals
    <3> QED
      BY <1>4, <2>2, <2>4, <3>1 DEF Abstract!Refuse
  <2>5. CASE r = "lost"
    <3>1. Code(r) = "gateway_connectivity_error"
      BY <2>5 DEF Code
    <3> QED
      BY <1>4, <2>2, <2>5, <3>1 DEF Abstract!GiveUp
  <2> QED
    BY <2>3, <2>4, <2>5
<1> QED
  BY <1>5, <1>6

(* The session that is missing is created, or the request ends.            *)
LEMMA CreateRefines ==
  ASSUME SendInv, NEW a \in Attempts, Create(a)
  PROVE  Abstract!Refuse(a) \/ Abstract!GiveUp(a) \/ UNCHANGED Abstract!vars
<1>1. /\ pc[a] \in {"create", "onlyCreate"}
      /\ UNCHANGED <<persistent, errors, accepted, req, insert>>
  BY DEF Create, dbVars, gatewayVars
<1>2. Taken' = Taken
  BY <1>1 DEF Taken
<1>3. CASE pc[a] = "onlyCreate"
  <2>1. ~Sending(a) /\ a \notin Keyed
    <3>1. req[a] \in Requests /\ req[a].handler = "create"
      BY <1>3 DEF SendInv, Phases, TypeOK
    <3> QED
      BY <3>1, RequestParts DEF Sending, Keyed
  <2>2. \A b \in Attempts \ {a} : pc'[b] = pc[b] /\ reply'[b] = reply[b]
    BY <1>3 DEF SendInv, TypeOK, Create, Answer
  <2>3. Phase' = Phase /\ AnswerTold' = AnswerTold
    BY <1>1, <2>1, <2>2 DEF Phase, AnswerTold, Sending
  <2>4. Token' = Token
    BY <1>1, SameKeys DEF Token
  <2> QED
    BY <1>1, <1>2, <2>3, <2>4 DEF Abstract!vars
<1>4. CASE pc[a] = "create"
  <2>1. Sending(a)
    BY <1>4 DEF SendInv, Phases, Sending
  <2>2. CASE GoOn(a, "resend")
    BY <1>1, <1>2, <1>4, <2>2, GoesOn DEF Abstract!vars
  <2>3. ASSUME NEW r \in {"session_create_rejected", "ws_not_connected",
                          "gateway_connectivity_error"}, Answer(a, r)
        PROVE  Abstract!Refuse(a) \/ Abstract!GiveUp(a)
    <3>1. r \in Replies
      BY DEF Replies
    <3>2. Abstract!Close(a, r)
      BY <1>1, <1>4, <2>1, <2>3, <3>1, Answers
    <3> QED
      BY <1>2, <3>2 DEF Abstract!Refuse, Abstract!GiveUp, Abstract!Refusals
  <2> QED
    BY <1>4, <2>2, <2>3 DEF Create
<1> QED
  BY <1>1, <1>3, <1>4

(* The gateway takes a message late.                                       *)
LEMMA TakeLateRefines ==
  ASSUME SendInv, NEW a \in Attempts, TakeLate(a)
  PROVE  Abstract!TakeLate(a)
<1>1. /\ a \in onWay /\ accepted' = [accepted EXCEPT ![a] = @ + 1]
      /\ UNCHANGED <<persistent, errors, pc, req, reply, insert>>
  BY DEF TakeLate, dbVars
<1>2. /\ req[a] # Nobody /\ req[a].handler = "send"
      /\ pc[a] = "cut" \/ reply[a] = "gateway_connectivity_error"
  BY <1>1 DEF SendInv, Phases
<1>3. Phase[a] = "cut" \/ AnswerTold[a] = "gateway_connectivity_error"
  BY <1>2 DEF SendInv, Phases, Phase, AnswerTold, Sending
<1>4. Abstract!Take(a)
  BY <1>1, Takes
<1>5. Phase' = Phase /\ AnswerTold' = AnswerTold
  BY <1>1 DEF Phase, AnswerTold, Sending
<1>6. Token' = Token
  BY <1>1, SameKeys DEF Token
<1> QED
  BY <1>1, <1>3, <1>4, <1>5, <1>6 DEF Abstract!TakeLate

(* A restart cuts off what is open.                                        *)
LEMMA RestartRefines ==
  ASSUME SendInv, Restart
  PROVE  Abstract!Cut
<1>1. /\ pc' = [a \in Attempts |-> IF pc[a] \in {"idle", "done"} THEN pc[a] ELSE "cut"]
      /\ UNCHANGED <<errors, accepted, req, reply, insert>> /\ persistent' \in BOOLEAN
  BY SendApiAssumption DEF Restart, dbVars, SendApiAssumption
<1>2. Phase' = [a \in Attempts |-> IF Phase[a] = "open" THEN "cut" ELSE Phase[a]]
  BY <1>1 DEF SendInv, Phases, Phase, Sending
<1>3. Taken' = Taken /\ AnswerTold' = AnswerTold
  BY <1>1 DEF Taken, AnswerTold, Sending
<1>4. Token' = Token
  BY <1>1, SameKeys DEF Token
<1> QED
  BY <1>1, <1>2, <1>3, <1>4 DEF Abstract!Cut

(* Each step is one of the contract, or none.                              *)
LEMMA StepsRefine == SendInv /\ [Next]_vars => [Abstract!Next]_(Abstract!vars)
<1> SUFFICES ASSUME SendInv, [Next]_vars PROVE Abstract!Next \/ UNCHANGED Abstract!vars
  OBVIOUS
<1>1. ASSUME NEW a \in Attempts, Arrive(a) PROVE Abstract!Next \/ UNCHANGED Abstract!vars
  BY <1>1, ArriveRefines DEF Abstract!Next
<1>2. ASSUME NEW a \in Attempts, Handle(a) PROVE Abstract!Next \/ UNCHANGED Abstract!vars
  BY <1>2, DedupeRefines, SetOptionsRefines, SendRefines, CreateRefines DEF Handle, Abstract!Next
<1>3. ASSUME NEW a \in Attempts, TakeLate(a) PROVE Abstract!Next
  BY <1>3, TakeLateRefines DEF Abstract!Next
<1>4. CASE Restart
  BY <1>4, RestartRefines DEF Abstract!Next
<1>5. CASE Expire \/ UNCHANGED vars
  <2>1. UNCHANGED <<persistent, errors, accepted, pc, req, reply, insert>>
    BY <1>5 DEF Expire, vars, dbVars, gatewayVars
  <2>2. Phase' = Phase /\ AnswerTold' = AnswerTold /\ Taken' = Taken
    BY <2>1 DEF Phase, AnswerTold, Taken, Sending
  <2>3. Token' = Token
    BY <2>1, SameKeys DEF Token
  <2> QED
    BY <2>1, <2>2, <2>3 DEF Abstract!vars
<1> QED
  BY <1>1, <1>2, <1>3, <1>4, <1>5 DEF Next

(* The handlers keep the contract of idempotency keys.                     *)
THEOREM SendKeepsContract == Spec => Contract
<1>1. Init => Abstract!Init
  <2> SUFFICES ASSUME Init PROVE Abstract!Init
    OBVIOUS
  <2>1. /\ persistent \in BOOLEAN /\ errors = 0
        /\ insert = [a \in Attempts |-> "none"]
        /\ \A a \in Attempts : req[a] = Nobody /\ accepted[a] = 0
    BY SendApiAssumption DEF Init, SendApiAssumption
  <2>2. /\ Phase = [a \in Attempts |-> "none"]
        /\ AnswerTold = [a \in Attempts |-> "none"]
        /\ Token = [a \in Attempts |-> {}]
        /\ Taken = {}
    BY <2>1 DEF Phase, AnswerTold, Token, Taken, Sending, Keyed
  <2> QED
    BY <2>1, <2>2 DEF Abstract!Init
<1> QED
  BY <1>1, StepsRefine, SendInductive, PTL DEF Spec, Contract, Abstract!Spec
=============================================================================
