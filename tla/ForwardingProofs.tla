--------------------------- MODULE ForwardingProofs ---------------------------
(* Proofs about Forwarding: one handler of an event calls the webhook, but *)
(* for those without an answer of the table, for any number of events,     *)
(* copies, handlers, settings, failures and restarts.                      *)
EXTENDS Forwarding, FiniteSetTheorems, TLAPS

(* The handlers about to send are finitely many.                           *)
LEMMA FiniteSenders ==
  ASSUME NEW e
  PROVE  IsFiniteSet(Senders(e)) /\ Cardinality(Senders(e)) \in Nat
<1>1. IsFiniteSet(Senders(e))
  BY FS_Subset, ForwardingAssumption DEF Senders, ForwardingAssumption
<1> QED
  BY <1>1, FS_CardinalityType

(* The parts of a step that Accounted looks at: a step that calls nothing, *)
(* registers nothing away and adds no sender keeps it.                     *)
LEMMA QuietStep ==
  ASSUME DedupeInv, Working', TypeOK',
         sent' = sent, unchecked' = unchecked, keys \subseteq keys',
         \A e \in Events : Senders(e)' \subseteq Senders(e)
  PROVE  Accounted'
<1> SUFFICES ASSUME NEW e \in Events
             PROVE  sent'[e] + Cardinality(Senders(e)')
                      <= (IF e \in keys' THEN 1 ELSE 0) + unchecked'[e]
  BY DEF Accounted
<1>1. IsFiniteSet(Senders(e))
  BY FiniteSenders
<1>2. Cardinality(Senders(e)') <= Cardinality(Senders(e)) /\ IsFiniteSet(Senders(e)')
  BY <1>1, FS_Subset
<1>3. Cardinality(Senders(e)') \in Nat /\ Cardinality(Senders(e)) \in Nat
  BY <1>1, <1>2, FS_CardinalityType
<1>4. sent[e] + Cardinality(Senders(e)) <= (IF e \in keys THEN 1 ELSE 0) + unchecked[e]
  BY DEF DedupeInv, Accounted
<1>5. sent[e] \in Nat /\ unchecked[e] \in Nat
  BY DEF DedupeInv, TypeOK
<1> QED
  BY <1>2, <1>3, <1>4, <1>5


(* What TypeOK and Working say of a handler.                               *)
Points == {"idle", "lookup", "load", "fill", "expireMem", "expireRow", "dedupe", "send",
           "clearMem", "clearRow"}

HandlersOK ==
  /\ hpc \in [Handlers -> Points]
  /\ hopt \in [Handlers -> Options]
  /\ event \in [Handlers -> Events \cup {NoEvent}]
  /\ Working

(* A handler that moves on keeps them.                                     *)
LEMMA GoOnOK ==
  ASSUME HandlersOK, NEW h \in Handlers, hpc[h] # "idle",
         NEW p \in Points \ {"fill"}, GoOn(h, p)
  PROVE  HandlersOK'
BY DEF HandlersOK, Working, GoOn

(* So does one that returns.                                              *)
LEMMA DoneOK ==
  ASSUME HandlersOK, NEW h \in Handlers, Done(h)
  PROVE  HandlersOK'
BY DEF HandlersOK, Working, Done, Points, Options

(* So does one that has found its options.                                 *)
LEMMA UseOK ==
  ASSUME HandlersOK, NEW h \in Handlers, hpc[h] # "idle", NEW o \in Options, Use(h, o)
  PROVE  HandlersOK'
<1>1. CASE o \in finalOnly /\ event[h] \notin Final
  BY <1>1, DoneOK DEF Use
<1>2. CASE ~(o \in finalOnly /\ event[h] \notin Final)
  BY <1>2 DEF HandlersOK, Working, Use, Points
<1> QED
  BY <1>1, <1>2

(* Every step keeps the types, and the frame and options of a handler.     *)
LEMMA TypeStep ==
  ASSUME ForwardingAssumption, TypeOK, Working, [Next]_vars
  PROVE  TypeOK' /\ Working'
<1> USE DEF TypeOK, Working, Setters, Options, Default, ForwardingAssumption
<1>h. HandlersOK
  BY DEF HandlersOK, Points
<1>1. ASSUME NEW h \in Handlers, Receive(h) PROVE TypeOK' /\ Working'
  BY <1>1 DEF Receive, storeVars, setterVars
<1>2. ASSUME NEW h \in Handlers, Lookup(h) PROVE TypeOK' /\ Working'
  <2>1. HandlersOK'
    BY <1>h, <1>2, GoOnOK, UseOK DEF Lookup, Points
  <2> QED
    BY <1>2, <2>1 DEF HandlersOK, Points, Lookup, storeVars, setterVars, historyVars
<1>3. ASSUME NEW h \in Handlers, Load(h) PROVE TypeOK' /\ Working'
  <2>1. HandlersOK'
    <3>1. CASE \E n \in row : hopt' = [hopt EXCEPT ![h] = n] /\ hpc' = [hpc EXCEPT ![h] = "fill"]
                              /\ UNCHANGED event
      <4>1. hpc[h] = "load"
        BY <1>3 DEF Load
      <4> QED
        BY <1>h, <3>1, <4>1 DEF HandlersOK, Points
    <3>2. CASE Use(h, Default)
      BY <1>h, <1>3, <3>2, UseOK DEF Load
    <3> QED
      BY <1>3, <3>1, <3>2 DEF Load, Readable
  <2>2. errors' \in Nat
    BY <1>3 DEF Load, Fails
  <2>3. UNCHANGED <<persistent, mem, row, keys, unchecked, sent, received, setterVars, restarts,
                    historyVars>>
    BY <1>3 DEF Load
  <2> QED
    BY <2>1, <2>2, <2>3 DEF HandlersOK, Points, setterVars, historyVars
<1>4. ASSUME NEW h \in Handlers, Fill(h) PROVE TypeOK' /\ Working'
  <2>1. HandlersOK'
    BY <1>h, <1>4, UseOK DEF Fill
  <2>2. mem' \subseteq Setters
    BY <1>4 DEF Fill
  <2> QED
    BY <1>4, <2>1, <2>2 DEF HandlersOK, Points, Fill, storeVars, setterVars, historyVars
<1>5. ASSUME NEW h \in Handlers, ExpireMemory(h) PROVE TypeOK' /\ Working'
  BY <1>5 DEF ExpireMemory, GoOn, storeVars, setterVars, historyVars
<1>6. ASSUME NEW h \in Handlers, ExpireRow(h) PROVE TypeOK' /\ Working'
  <2>1. HandlersOK'
    BY <1>h, <1>6, UseOK DEF ExpireRow
  <2>2. row' \subseteq Setters
    BY <1>6 DEF ExpireRow, DeleteRow, Delete
  <2>3. errors' \in Nat
    BY <1>6 DEF ExpireRow, DeleteRow, Fails
  <2> QED
    BY <1>6, <2>1, <2>2, <2>3 DEF HandlersOK, Points, ExpireRow, setterVars, historyVars
<1>7. ASSUME NEW h \in Handlers, Dedupe(h) PROVE TypeOK' /\ Working'
  <2>1. HandlersOK'
    BY <1>h, <1>7, GoOnOK, DoneOK DEF Dedupe, Points
  <2>2. keys' \subseteq Events /\ errors' \in Nat
    BY <1>7 DEF Dedupe, Fails
  <2>3. unchecked' \in [Events -> Nat]
    <3>1. unchecked' \in {unchecked, [unchecked EXCEPT ![event[h]] = @ + 1]}
      BY <1>7 DEF Dedupe, Unchecked
    <3> QED
      BY <3>1
  <2> QED
    BY <1>7, <2>1, <2>2, <2>3 DEF HandlersOK, Points, Dedupe, setterVars, historyVars
<1>8. ASSUME NEW h \in Handlers, CallWebhook(h) PROVE TypeOK' /\ Working'
  <2>1. HandlersOK'
    BY <1>h, <1>8, GoOnOK, DoneOK DEF CallWebhook, Points
  <2>2. sent' \in [Events -> Nat]
    BY <1>8 DEF CallWebhook
  <2> QED
    BY <1>8, <2>1, <2>2 DEF HandlersOK, Points, CallWebhook, storeVars, setterVars, historyVars
<1>9. ASSUME NEW h \in Handlers, ClearMemory(h) PROVE TypeOK' /\ Working'
  BY <1>9 DEF ClearMemory, GoOn, storeVars, setterVars, historyVars
<1>10. ASSUME NEW h \in Handlers, ClearRow(h) PROVE TypeOK' /\ Working'
  <2>1. HandlersOK'
    BY <1>h, <1>10, DoneOK DEF ClearRow
  <2>2. row' \subseteq Setters
    BY <1>10 DEF ClearRow, DeleteRow, Delete
  <2>4. gone' \subseteq Options
    BY <1>10 DEF ClearRow
  <2>3. errors' \in Nat
    BY <1>10 DEF ClearRow, DeleteRow, Fails
  <2> QED
    BY <1>10, <2>1, <2>2, <2>3, <2>4 DEF HandlersOK, Points, ClearRow, setterVars
<1>11. ASSUME NEW n \in Setters, SetMemory(n) PROVE TypeOK' /\ Working'
  BY <1>11 DEF SetMemory, storeVars, handlerVars
<1>12. ASSUME NEW n \in Setters, SetRow(n) PROVE TypeOK' /\ Working'
  <2>1. row' \subseteq Setters /\ stored' \subseteq Setters
    <3>1. CASE row' \in {row, {n}} /\ stored' = stored
      BY <3>1
    <3>2. CASE row' = {n} /\ stored' = stored \cup {n}
      BY <3>2
    <3> QED
      BY <1>12, <3>1, <3>2 DEF SetRow, Upsert
  <2>3. errors' \in Nat
    BY <1>12 DEF SetRow, Fails
  <2>2. promised' \subseteq Setters /\ spc' \in [Setters -> {"idle", "row", "done"}]
    BY <1>12 DEF SetRow
  <2> QED
    BY <1>12, <2>1, <2>2, <2>3 DEF SetRow, handlerVars
<1>13. ASSUME NEW n \in Setters, Age(n) PROVE TypeOK' /\ Working'
  BY <1>13 DEF Age, storeVars, handlerVars
<1>14. CASE Restart
  BY <1>14 DEF Restart, Setting
<1>15. CASE UNCHANGED vars
  BY <1>15 DEF vars, storeVars, handlerVars, setterVars, historyVars
<1> QED
  BY <1>1, <1>2, <1>3, <1>4, <1>5, <1>6, <1>7, <1>8, <1>9, <1>10, <1>11, <1>12, <1>13, <1>14, <1>15 DEF Next, HandlerStep

(* Every step keeps the account: only Dedupe adds a sender, and only the   *)
(* webhook call adds to sent.                                              *)
LEMMA AccountStep ==
  ASSUME ForwardingAssumption, DedupeInv, [Next]_vars
  PROVE  Accounted'
<1>1. TypeOK /\ Working /\ TypeOK' /\ Working'
  BY TypeStep DEF DedupeInv
<1> DEFINE Quiet == /\ sent' = sent /\ unchecked' = unchecked /\ keys \subseteq keys'
                    /\ \A e \in Events : Senders(e)' \subseteq Senders(e)
<1>q. Quiet => Accounted'
  BY <1>1, QuietStep
<1> HIDE DEF Quiet
<1>2. ASSUME NEW h \in Handlers, Dedupe(h) PROVE Accounted'
  <2>0. event[h] \in Events /\ sent' = sent
    BY <1>1, <1>2 DEF Dedupe, Working
  <2>1. CASE keys' = keys \cup {event[h]} /\ Done(h) /\ UNCHANGED unchecked
    <3> Quiet
      BY <1>1, <2>0, <2>1 DEF Quiet, TypeOK, Senders, Done
    <3> QED
      BY <1>q
  <2>2. ASSUME GoOn(h, "send"),
               \/ /\ IsNew(event[h]) /\ keys' = keys \cup {event[h]}
                  /\ unchecked' = unchecked
               \/ keys \subseteq keys' /\ Unchecked(event[h])
        PROVE  Accounted'
    <3> SUFFICES ASSUME NEW e \in Events
                 PROVE  sent[e] + Cardinality(Senders(e)')
                          <= (IF e \in keys' THEN 1 ELSE 0) + unchecked'[e]
      BY <2>0 DEF Accounted
    <3>1. sent[e] + Cardinality(Senders(e)) <= (IF e \in keys THEN 1 ELSE 0) + unchecked[e]
      BY DEF DedupeInv, Accounted
    <3>2. sent[e] \in Nat /\ unchecked[e] \in Nat /\ Cardinality(Senders(e)) \in Nat
      BY <1>1, FiniteSenders DEF TypeOK
    <3>5. unchecked'[e] = unchecked[e] \/ (e = event[h] /\ unchecked'[e] = unchecked[e] + 1)
      BY <1>1, <2>2 DEF Unchecked, TypeOK
    <3>3. CASE e = event[h]
      <4>1. Senders(e)' = Senders(e) \cup {h}
        BY <1>1, <2>2, <3>3 DEF Senders, GoOn, TypeOK
      <4>2. Cardinality(Senders(e)') <= Cardinality(Senders(e)) + 1
        <5>1. Cardinality(Senders(e) \cup {h}) \in {Cardinality(Senders(e)), Cardinality(Senders(e)) + 1}
          BY FiniteSenders, FS_AddElement
        <5> QED
          BY <3>2, <4>1, <5>1
      <4>3. Cardinality(Senders(e)') \in Nat
        BY <4>1, FiniteSenders, FS_AddElement, FS_CardinalityType
      <4>4. CASE IsNew(e) /\ keys' = keys \cup {e} /\ unchecked'[e] = unchecked[e]
        BY <3>1, <3>2, <4>2, <4>3, <4>4 DEF IsNew
      <4>5. CASE keys \subseteq keys' /\ unchecked'[e] = unchecked[e] + 1
        BY <3>1, <3>2, <4>2, <4>3, <4>5
      <4> QED
        BY <1>1, <2>2, <3>3, <4>4, <4>5 DEF Unchecked, TypeOK
    <3>4. CASE e # event[h]
      <4>1. Senders(e)' = Senders(e)
        BY <1>1, <2>2, <3>4 DEF Senders, GoOn, TypeOK
      <4> QED
        BY <2>2, <3>1, <3>2, <3>4, <3>5, <4>1
    <3> QED
      BY <3>3, <3>4
  <2> QED
    BY <1>2, <2>1, <2>2 DEF Dedupe
<1>3. ASSUME NEW h \in Handlers, CallWebhook(h) PROVE Accounted'
  <2> SUFFICES ASSUME NEW e \in Events
               PROVE  sent'[e] + Cardinality(Senders(e)')
                        <= (IF e \in keys THEN 1 ELSE 0) + unchecked[e]
    BY <1>3 DEF Accounted, CallWebhook, storeVars
  <2>1. sent[e] + Cardinality(Senders(e)) <= (IF e \in keys THEN 1 ELSE 0) + unchecked[e]
    BY DEF DedupeInv, Accounted
  <2>2. sent[e] \in Nat /\ unchecked[e] \in Nat /\ Cardinality(Senders(e)) \in Nat
    BY <1>1, FiniteSenders DEF TypeOK
  <2>3. CASE e = event[h]
    <3>1. Senders(e)' = Senders(e) \ {h} /\ h \in Senders(e)
      BY <1>1, <1>3, <2>3 DEF Senders, CallWebhook, GoOn, Done, TypeOK
    <3>2. Cardinality(Senders(e)') = Cardinality(Senders(e)) - 1
      BY <3>1, FiniteSenders, FS_RemoveElement
    <3>3. sent'[e] = sent[e] + 1
      BY <1>1, <1>3, <2>3 DEF CallWebhook, TypeOK
    <3> QED
      BY <2>1, <2>2, <3>2, <3>3
  <2>4. CASE e # event[h]
    <3>1. Senders(e)' = Senders(e) /\ sent'[e] = sent[e]
      BY <1>1, <1>3, <2>4 DEF Senders, CallWebhook, GoOn, Done, TypeOK
    <3> QED
      BY <2>1, <3>1
  <2> QED
    BY <2>3, <2>4
<1>4. ASSUME NEW h \in Handlers, Receive(h) PROVE Quiet
  BY <1>1, <1>4 DEF Quiet, TypeOK, Senders, Receive, storeVars, setterVars
<1>5. ASSUME NEW h \in Handlers, Lookup(h) PROVE Quiet
  BY <1>1, <1>5 DEF Quiet, TypeOK, Senders, Lookup, Use, Done, GoOn, storeVars, setterVars, historyVars
<1>6. ASSUME NEW h \in Handlers, Load(h) PROVE Quiet
  BY <1>1, <1>6 DEF Quiet, TypeOK, Senders, Load, Use, Done, GoOn, Fails, storeVars, setterVars, historyVars
<1>7. ASSUME NEW h \in Handlers, Fill(h) PROVE Quiet
  BY <1>1, <1>7 DEF Quiet, TypeOK, Senders, Fill, Use, Done, storeVars, setterVars, historyVars
<1>8. ASSUME NEW h \in Handlers, ExpireMemory(h) PROVE Quiet
  BY <1>1, <1>8 DEF Quiet, TypeOK, Senders, ExpireMemory, GoOn, storeVars, setterVars, historyVars
<1>9. ASSUME NEW h \in Handlers, ExpireRow(h) PROVE Quiet
  BY <1>1, <1>9 DEF Quiet, TypeOK, Senders, ExpireRow, DeleteRow, Use, Done, setterVars, historyVars
<1>10. ASSUME NEW h \in Handlers, ClearMemory(h) PROVE Quiet
  BY <1>1, <1>10 DEF Quiet, TypeOK, Senders, ClearMemory, GoOn, storeVars, setterVars, historyVars
<1>11. ASSUME NEW h \in Handlers, ClearRow(h) PROVE Quiet
  BY <1>1, <1>11 DEF Quiet, TypeOK, Senders, ClearRow, DeleteRow, Done, setterVars
<1>12. ASSUME NEW n \in Setters, SetMemory(n) PROVE Quiet
  BY <1>1, <1>12 DEF Quiet, TypeOK, Senders, SetMemory, storeVars, handlerVars
<1>13. ASSUME NEW n \in Setters, SetRow(n) PROVE Quiet
  BY <1>1, <1>13 DEF Quiet, TypeOK, Senders, SetRow, Upsert, Fails, handlerVars
<1>14. ASSUME NEW n \in Setters, Age(n) PROVE Quiet
  BY <1>1, <1>14 DEF Quiet, TypeOK, Senders, Age, storeVars, handlerVars
<1>15. CASE Restart
  <2> Quiet
    BY <1>1, <1>15 DEF Quiet, TypeOK, Senders, Restart
  <2> QED
    BY <1>q
<1>16. CASE UNCHANGED vars
  <2> Quiet
    BY <1>1, <1>16 DEF Quiet, TypeOK, Senders, vars, storeVars, handlerVars, setterVars, historyVars
  <2> QED
    BY <1>q
<1> QED
  BY <1>q, <1>2, <1>3, <1>4, <1>5, <1>6, <1>7, <1>8, <1>9, <1>10, <1>11, <1>12, <1>13, <1>14, <1>15, <1>16 DEF Next, HandlerStep

(* The invariant the theorems rest on.                                     *)
THEOREM DedupeInductive == Spec => []DedupeInv
<1>1. Init => DedupeInv
  <2> SUFFICES ASSUME Init PROVE DedupeInv
    OBVIOUS
  <2>1. TypeOK /\ Working
    BY ForwardingAssumption DEF Init, TypeOK, Working, Options, Setters, Default,
       ForwardingAssumption
  <2>2. \A e \in Events : Senders(e) = {}
    BY DEF Init, Senders
  <2>3. Accounted
    BY <2>2, FS_EmptySet DEF Init, Accounted
  <2> QED
    BY <2>1, <2>3 DEF DedupeInv
<1>2. DedupeInv /\ [Next]_vars => DedupeInv'
  BY ForwardingAssumption, TypeStep, AccountStep DEF DedupeInv
<1> QED
  BY <1>1, <1>2, PTL DEF Spec

(* internal/app/app.go:124-137: one handler of an event calls the webhook, *)
(* and one more for each that went on without an answer of the table,      *)
(* whatever the handlers, copies and restarts, with a database or without. *)
THEOREM SendsAtMostOnce == Spec => []SentOnce
<1>1. DedupeInv => SentOnce
  <2> SUFFICES ASSUME DedupeInv, NEW e \in Events
               PROVE  sent[e] <= 1 + unchecked[e]
    BY DEF SentOnce
  <2>1. sent[e] + Cardinality(Senders(e)) <= (IF e \in keys THEN 1 ELSE 0) + unchecked[e]
    BY DEF DedupeInv, Accounted
  <2>2. sent[e] \in Nat /\ unchecked[e] \in Nat /\ Cardinality(Senders(e)) \in Nat
    BY FiniteSenders DEF DedupeInv, TypeOK
  <2> QED
    BY <2>1, <2>2
<1> QED
  BY <1>1, DedupeInductive, PTL

===============================================================================
