----------------------------- MODULE QuietProofs -----------------------------
(* Proofs about Forwarding: what it guarantees of the delivery options when *)
(* nothing else is under way.                                              *)
EXTENDS ForwardingProofs

(* QuietInv less the types.                                                *)
Promises == undisturbed => \A n \in Setters : Owed(n) => Held(n)
Quiet == Begun /\ PromiseTells /\ SoloTells /\ GoneTells /\ Promises

(* A handler moves to point p with the options o.                          *)
Moves(h, p, o) == hpc' = [hpc EXCEPT ![h] = p] /\ hopt' = [hopt EXCEPT ![h] = o]

(* What a move does to the functions.                                      *)
LEMMA MovesTell ==
  ASSUME TypeOK, NEW h \in Handlers, NEW p, NEW o, Moves(h, p, o)
  PROVE  /\ hpc'[h] = p /\ hopt'[h] = o
         /\ \A k \in Handlers \ {h} : hpc'[k] = hpc[k] /\ hopt'[k] = hopt[k]
BY DEF TypeOK, Moves

(* A handler that finds its options or returns takes what it found or none. *)
LEMMA UseMoves ==
  ASSUME TypeOK, NEW h \in Handlers, NEW o, Use(h, o)
  PROVE  Moves(h, "idle", Default) \/ Moves(h, "dedupe", o)
BY DEF Use, Done, Moves

(* The same for one that returns and one that goes on.                     *)
LEMMA DoneMoves ==
  ASSUME NEW h \in Handlers, Done(h)
  PROVE  Moves(h, "idle", Default)
BY DEF Done, Moves

LEMMA GoOnMoves ==
  ASSUME TypeOK, NEW h \in Handlers, NEW p, GoOn(h, p)
  PROVE  Moves(h, p, hopt[h])
BY DEF TypeOK, GoOn, Moves

(* A step that changes no options, in the map or in the row.               *)
LEMMA CalmOK ==
  ASSUME TypeOK, Quiet, NEW h \in Handlers, NEW p, NEW o, Moves(h, p, o),
         UNCHANGED <<mem, row, spc, promised, dropped, aged, stored, undisturbed, gone>>,
         solo' = {} \/ (solo' = solo /\ hpc[h] \notin {"idle", "clearRow"}),
         p \notin {"expireRow", "clearRow"},
         p = "expireMem" => mem \cap aged # {},
         p = "load" => mem = {},
         p = "fill" => o \in row /\ hpc[h] = "load",
         p = "idle" => o = Default,
         p = "clearMem" => o # Default,
         o \in {Default, hopt[h]} \cup mem \/ (o \in row /\ hpc[h] = "load")
  PROVE  Quiet'
<1>1. /\ hpc'[h] = p /\ hopt'[h] = o
      /\ \A k \in Handlers \ {h} : hpc'[k] = hpc[k] /\ hopt'[k] = hopt[k]
  BY MovesTell
<1>2. Begun'
  BY <1>1 DEF Quiet, Begun
<1>3. PromiseTells'
  BY DEF Quiet, PromiseTells, Setting
<1>4. SoloTells'
  <2>1. CASE solo' = {}
    BY <2>1 DEF SoloTells
  <2>2. CASE solo' = solo /\ hpc[h] \notin {"idle", "clearRow"}
    <3>1. ASSUME NEW k \in solo PROVE FALSE
      BY <2>2, <3>1 DEF Quiet, SoloTells, Busy
    <3> QED
      BY <2>2, <3>1 DEF SoloTells
  <2> QED
    BY <2>1, <2>2
<1>5. GoneTells'
  BY <1>1 DEF Quiet, GoneTells
<1>6. Promises'
  <2> SUFFICES ASSUME undisturbed, NEW n \in Setters, Owed(n)
               PROVE  Held(n)'
    BY DEF Promises, Owed, Setters
  <2>1. Held(n) /\ n \notin aged
    BY DEF Quiet, Promises, Owed
  <2>2. p # "expireMem"
    BY <2>1 DEF Held
  <2>3. o \in {Default, n}
    BY <2>1 DEF Held
  <2>4. \A k \in Handlers : /\ hpc'[k] \notin {"expireMem", "expireRow", "clearRow"}
                            /\ hopt'[k] \in {Default, n}
    BY <1>1, <2>1, <2>2, <2>3 DEF Held
  <2>5. \/ mem = {n} /\ \A k \in Handlers : hpc'[k] \notin {"load", "fill"}
        \/ mem \subseteq {n} /\ row = {n} /\ spc[n] = "done"
    BY <1>1, <2>1 DEF Held
  <2> QED
    BY <2>1, <2>4, <2>5 DEF Held
<1> QED
  BY <1>2, <1>3, <1>4, <1>5, <1>6 DEF Quiet

(* The handler's steps that are calm.                                      *)
LEMMA ReceiveQuiet ==
  ASSUME TypeOK, Quiet, NEW h \in Handlers, Receive(h)
  PROVE  Quiet'
<1>1. Moves(h, "lookup", hopt[h])
  BY DEF TypeOK, Receive, Moves
<1> QED
  BY <1>1, CalmOK DEF Receive, setterVars

LEMMA LookupQuiet ==
  ASSUME TypeOK, Quiet, NEW h \in Handlers, Lookup(h)
  PROVE  Quiet'
<1>1. /\ hpc[h] = "lookup" /\ solo' = solo
      /\ UNCHANGED <<mem, row, spc, promised, dropped, aged, stored, undisturbed, gone>>
  BY DEF Lookup, setterVars, historyVars
<1>2. ASSUME NEW n \in mem, Use(h, n) PROVE Quiet'
  <2>1. Moves(h, "idle", Default) \/ Moves(h, "dedupe", n)
    BY <1>2, UseMoves
  <2> QED
    BY <1>1, <2>1, CalmOK
<1>3. CASE mem \cap aged # {} /\ GoOn(h, "expireMem")
  BY <1>1, <1>3, GoOnMoves, CalmOK
<1>4. CASE mem = {} /\ GoOn(h, "load")
  BY <1>1, <1>4, GoOnMoves, CalmOK
<1> QED
  BY <1>2, <1>3, <1>4 DEF Lookup

LEMMA LoadQuiet ==
  ASSUME TypeOK, Quiet, NEW h \in Handlers, Load(h)
  PROVE  Quiet'
<1>1. /\ hpc[h] = "load" /\ solo' = solo
      /\ UNCHANGED <<mem, row, spc, promised, dropped, aged, stored, undisturbed, gone>>
  BY DEF Load, setterVars, historyVars
<1>2. ASSUME NEW n \in row, hopt' = [hopt EXCEPT ![h] = n], hpc' = [hpc EXCEPT ![h] = "fill"]
      PROVE  Quiet'
  <2>1. Moves(h, "fill", n)
    BY <1>2 DEF Moves
  <2> QED
    BY <1>1, <2>1, CalmOK
<1>3. CASE Use(h, Default)
  <2>1. Moves(h, "idle", Default) \/ Moves(h, "dedupe", Default)
    BY <1>3, UseMoves
  <2> QED
    BY <1>1, <2>1, CalmOK
<1> QED
  BY <1>2, <1>3 DEF Load, Readable

LEMMA DedupeQuiet ==
  ASSUME TypeOK, Quiet, NEW h \in Handlers, Dedupe(h)
  PROVE  Quiet'
<1>1. /\ hpc[h] = "dedupe" /\ solo' = solo
      /\ UNCHANGED <<mem, row, spc, promised, dropped, aged, stored, undisturbed, gone>>
      /\ GoOn(h, "send") \/ Done(h)
  BY DEF Dedupe, setterVars, historyVars
<1> QED
  BY <1>1, GoOnMoves, DoneMoves, CalmOK

LEMMA WebhookQuiet ==
  ASSUME TypeOK, Quiet, NEW h \in Handlers, CallWebhook(h)
  PROVE  Quiet'
<1>1. /\ hpc[h] = "send" /\ solo' = solo
      /\ UNCHANGED <<mem, row, spc, promised, dropped, aged, stored, undisturbed, gone>>
      /\ (hopt[h] \in finalOnly /\ GoOn(h, "clearMem")) \/ Done(h)
      /\ Default \notin finalOnly
  BY DEF CallWebhook, setterVars, historyVars, TypeOK, Setters, Default
<1> QED
  BY <1>1, GoOnMoves, DoneMoves, CalmOK

(* The map is filled from the row that was read.                           *)
LEMMA FillQuiet ==
  ASSUME TypeOK, Working, Quiet, NEW h \in Handlers, Fill(h)
  PROVE  Quiet'
<1>1. /\ hpc[h] = "fill" /\ solo' = solo /\ mem' = {hopt[h]} /\ Use(h, hopt[h])
      /\ UNCHANGED <<row, spc, promised, dropped, aged, stored, undisturbed, gone>>
      /\ hopt[h] \in Setters /\ hopt[h] # Default
  BY DEF Fill, setterVars, historyVars, Working, Setters, Default
<1>2. PICK p \in {"idle", "dedupe"}, o \in {Default, hopt[h]} :
        Moves(h, p, o) /\ (p = "idle" => o = Default)
  BY <1>1, UseMoves
<1>3. /\ hpc'[h] = p /\ hopt'[h] = o
      /\ \A k \in Handlers \ {h} : hpc'[k] = hpc[k] /\ hopt'[k] = hopt[k]
  BY <1>2, MovesTell
<1>4. Begun'
  BY <1>1, <1>2, <1>3 DEF Quiet, Begun
<1>5. PromiseTells'
  BY <1>1 DEF Quiet, PromiseTells, Setting
<1>6. SoloTells'
  <2>1. ASSUME NEW k \in solo PROVE FALSE
    BY <1>1, <2>1 DEF Quiet, SoloTells, Busy
  <2> QED
    BY <1>1, <2>1 DEF SoloTells
<1>7. GoneTells'
  BY <1>1, <1>2, <1>3 DEF Quiet, GoneTells
<1>8. Promises'
  <2> SUFFICES ASSUME undisturbed, NEW n \in Setters, Owed(n)
               PROVE  Held(n)'
    BY <1>1 DEF Promises, Owed, Setters
  <2>1. Held(n)
    BY DEF Quiet, Promises
  <2>2. hopt[h] = n /\ row = {n} /\ spc[n] = "done"
    BY <1>1, <2>1 DEF Held
  <2>3. \A k \in Handlers : /\ hpc'[k] \notin {"expireMem", "expireRow", "clearRow"}
                            /\ hopt'[k] \in {Default, n}
    BY <1>2, <1>3, <2>1, <2>2 DEF Held
  <2> QED
    BY <1>1, <2>1, <2>2, <2>3 DEF Held
<1> QED
  BY <1>4, <1>5, <1>6, <1>7, <1>8 DEF Quiet

(* While a handler expires or removes options nothing is owed.             *)
LEMMA NothingOwed ==
  ASSUME Quiet, undisturbed, NEW h \in Handlers,
         hpc[h] \in {"expireMem", "expireRow", "clearRow"}, NEW n \in Setters
  PROVE  ~Owed(n)
BY DEF Quiet, Promises, Held

(* Expired options go from the map, and from the row.                      *)
LEMMA ExpireQuiet ==
  ASSUME TypeOK, Working, Quiet, NEW h \in Handlers, ExpireMemory(h) \/ ExpireRow(h)
  PROVE  Quiet'
<1>1. /\ hpc[h] \in {"expireMem", "expireRow"} /\ solo' = solo
      /\ mem' \in {{}, mem} /\ row' \in {{}, row}
      /\ UNCHANGED <<spc, promised, dropped, aged, stored, undisturbed, gone>>
  BY DEF ExpireMemory, ExpireRow, DeleteRow, Delete, setterVars, historyVars
<1>2. PICK p \in {"idle", "dedupe", "expireRow"}, o \in {Default, hopt[h]} :
        Moves(h, p, o) /\ (p = "idle" => o = Default)
  BY GoOnMoves, UseMoves DEF ExpireMemory, ExpireRow
<1>3. /\ hpc'[h] = p /\ hopt'[h] = o
      /\ \A k \in Handlers \ {h} : hpc'[k] = hpc[k] /\ hopt'[k] = hopt[k]
  BY <1>2, MovesTell
<1>4. Begun'
  BY <1>1, <1>2, <1>3 DEF Quiet, Begun
<1>5. PromiseTells'
  BY <1>1 DEF Quiet, PromiseTells, Setting
<1>6. SoloTells'
  <2>1. ASSUME NEW k \in solo PROVE FALSE
    BY <1>1, <2>1 DEF Quiet, SoloTells, Busy
  <2> QED
    BY <1>1, <2>1 DEF SoloTells
<1>7. GoneTells'
  BY <1>1, <1>2, <1>3 DEF Quiet, GoneTells
<1>8. Promises'
  <2> SUFFICES ASSUME undisturbed, NEW n \in Setters, Owed(n)
               PROVE  FALSE
    BY <1>1 DEF Promises, Owed, Setters
  <2> QED
    BY <1>1, NothingOwed
<1> QED
  BY <1>4, <1>5, <1>6, <1>7, <1>8 DEF Quiet

(* After the final event the options go from the map.                      *)
LEMMA ClearMemoryQuiet ==
  ASSUME TypeOK, Quiet, NEW h \in Handlers, ClearMemory(h)
  PROVE  Quiet'
<1>1. /\ hpc[h] = "clearMem" /\ mem' = {} /\ GoOn(h, "clearRow")
      /\ promised' = promised \ {hopt[h]} /\ dropped' = dropped \cup {hopt[h]}
      /\ solo' = IF Busy = {h} /\ Setting = {} THEN {h} ELSE {}
      /\ UNCHANGED <<row, spc, aged, stored, undisturbed, gone>>
      /\ hopt[h] # Default
  BY DEF ClearMemory, setterVars, Quiet, Begun
<1>2. /\ hpc'[h] = "clearRow" /\ hopt'[h] = hopt[h]
      /\ \A k \in Handlers \ {h} : hpc'[k] = hpc[k] /\ hopt'[k] = hopt[k]
  <2>1. Moves(h, "clearRow", hopt[h])
    BY <1>1, GoOnMoves
  <2> QED
    BY <2>1, MovesTell
<1>3. Begun'
  BY <1>1, <1>2 DEF Quiet, Begun
<1>4. PromiseTells'
  BY <1>1 DEF Quiet, PromiseTells, Setting
<1>5. SoloTells'
  <2>1. Busy' = Busy /\ Setting' = Setting
    BY <1>1, <1>2 DEF Busy, Setting
  <2> QED
    BY <1>1, <1>2, <2>1 DEF SoloTells
<1>6. GoneTells'
  BY <1>1, <1>2 DEF Quiet, GoneTells
<1>7. Promises'
  <2> SUFFICES ASSUME undisturbed, NEW n \in Setters, Owed(n)'
               PROVE  FALSE
    BY <1>1 DEF Promises, Setters
  <2>1. n # hopt[h]
    BY <1>1 DEF Owed
  <2>2. Owed(n)
    BY <1>1 DEF Owed, Quiet, PromiseTells, Setters
  <2> QED
    BY <1>1, <2>1, <2>2 DEF Quiet, Promises, Held
<1> QED
  BY <1>3, <1>4, <1>5, <1>6, <1>7 DEF Quiet

(* And from the row.                                                       *)
LEMMA ClearRowQuiet ==
  ASSUME TypeOK, Quiet, NEW h \in Handlers, ClearRow(h)
  PROVE  Quiet'
<1>1. /\ hpc[h] = "clearRow" /\ Done(h) /\ solo' = {}
      /\ row' \in {{}, row}
      /\ gone' # gone => h \in solo /\ gone' = gone \cup {hopt[h]} /\ row' = {}
      /\ UNCHANGED <<mem, spc, promised, dropped, aged, stored, undisturbed>>
  BY DEF ClearRow, DeleteRow, Delete, Fails, setterVars, TypeOK
<1>2. /\ hpc'[h] = "idle" /\ hopt'[h] = Default
      /\ \A k \in Handlers \ {h} : hpc'[k] = hpc[k] /\ hopt'[k] = hopt[k]
  BY <1>1, DoneMoves, MovesTell
<1>3. Begun'
  BY <1>1, <1>2 DEF Quiet, Begun
<1>4. PromiseTells'
  BY <1>1 DEF Quiet, PromiseTells, Setting
<1>5. SoloTells'
  BY <1>1 DEF SoloTells
<1>6. GoneTells'
  <2>1. CASE gone' = gone
    BY <1>1, <1>2, <2>1 DEF Quiet, GoneTells
  <2>2. CASE gone' # gone
    <3>1. Busy = {h} /\ Setting = {} /\ mem = {} /\ row' = {}
      BY <1>1, <2>2 DEF Quiet, SoloTells
    <3>2. \A k \in Handlers : hpc'[k] # "fill"
      BY <1>2, <3>1 DEF Busy
    <3>3. hopt[h] # Default => spc[hopt[h]] = "done"
      BY <3>1 DEF Quiet, Begun, TypeOK, Setting, Options
    <3> QED
      BY <1>1, <2>2, <3>1, <3>2, <3>3 DEF Quiet, GoneTells
  <2> QED
    BY <2>1, <2>2
<1>7. Promises'
  <2> SUFFICES ASSUME undisturbed, NEW n \in Setters, Owed(n)
               PROVE  FALSE
    BY <1>1 DEF Promises, Owed, Setters
  <2> QED
    BY <1>1, NothingOwed
<1> QED
  BY <1>3, <1>4, <1>5, <1>6, <1>7 DEF Quiet

(* A call begins: the map has its options.                                 *)
LEMMA SetMemoryQuiet ==
  ASSUME TypeOK, Quiet, NEW n \in Setters, SetMemory(n)
  PROVE  Quiet'
<1>1. /\ spc[n] = "idle" /\ mem' = {n} /\ spc' = [spc EXCEPT ![n] = "row"]
      /\ \A m \in 1 .. n - 1 : spc[m] # "idle"
      /\ promised' = {} /\ undisturbed' = (Busy = {}) /\ solo' = {}
      /\ UNCHANGED <<row, hpc, hopt, aged, stored, dropped, gone>>
  BY DEF SetMemory, handlerVars
<1>2. /\ spc'[n] = "row" /\ \A m \in Setters \ {n} : spc'[m] = spc[m]
      /\ mem \subseteq Setters /\ row \subseteq Setters /\ hopt \in [Handlers -> Options]
      /\ stored \subseteq Setters /\ gone \subseteq Options
  BY <1>1 DEF TypeOK
<1>3. Begun'
  <2>1. \A l, m \in Setters : l < m /\ spc'[m] # "idle" => spc'[l] # "idle"
    BY <1>1, <1>2 DEF Quiet, Begun, Setters
  <2> QED
    BY <1>1, <1>2, <2>1 DEF Quiet, Begun, Options
<1>4. PromiseTells' /\ SoloTells'
  BY <1>1 DEF PromiseTells, SoloTells
<1>5. GoneTells'
  BY <1>1, <1>2 DEF Quiet, GoneTells, Options
<1>6. Promises'
  <2> SUFFICES ASSUME undisturbed', NEW m \in Setters, Owed(m)'
               PROVE  Held(m)'
    BY DEF Promises, Setters
  <2>1. \A h \in Handlers : hpc[h] = "idle" /\ hopt[h] = Default
    BY <1>1 DEF Busy, Quiet, Begun
  <2>2. spc'[m] = "row" /\ \A k \in Setters : k > m => spc'[k] = "idle"
    BY <1>1 DEF Owed, Setters
  <2>3. m = n
    <3>1. ~(n > m)
      BY <1>2, <2>2
    <3>2. ~(m > n)
      BY <1>1, <1>2, <2>2 DEF Quiet, Begun
    <3> QED
      BY <3>1, <3>2 DEF Setters
  <2>4. n \notin stored
    BY <1>1 DEF Quiet, Begun
  <2> QED
    BY <1>1, <2>1, <2>3, <2>4 DEF Held
<1> QED
  BY <1>3, <1>4, <1>5, <1>6 DEF Quiet

(* A call ends, its row written or not.                                    *)
LEMMA SetRowQuiet ==
  ASSUME TypeOK, Quiet, NEW n \in Setters, SetRow(n)
  PROVE  Quiet'
<1>1. /\ spc[n] = "row" /\ spc' = [spc EXCEPT ![n] = "done"]
      /\ \/ row' = {n} /\ stored' = stored \cup {n}
         \/ row' \in {row, {n}} /\ stored' = stored
      /\ promised' = IF /\ \A m \in Setters : m > n => spc[m] = "idle"
                        /\ Setting = {n} /\ n \notin dropped \cup aged
                       THEN {n} ELSE {}
      /\ UNCHANGED <<mem, hpc, hopt, aged, dropped, gone, solo, undisturbed>>
  BY DEF SetRow, handlerVars, Upsert
<1>2. /\ spc'[n] = "done" /\ \A m \in Setters \ {n} : spc'[m] = spc[m]
      /\ mem \subseteq Setters /\ row \subseteq Setters /\ hopt \in [Handlers -> Options]
      /\ stored \subseteq Setters /\ gone \subseteq Options
  BY <1>1 DEF TypeOK
<1>3. Begun'
  BY <1>1, <1>2 DEF Quiet, Begun, Options
<1>4. PromiseTells'
  BY <1>1, <1>2 DEF PromiseTells, Setting, Setters
<1>5. SoloTells'
  <2>1. n \in Setting
    BY <1>1 DEF Setting
  <2> QED
    BY <1>1, <2>1 DEF Quiet, SoloTells
<1>6. GoneTells'
  <2>1. n \notin gone
    BY <1>1 DEF Quiet, GoneTells, Setters, Default
  <2> QED
    BY <1>1, <1>2, <2>1 DEF Quiet, GoneTells, Options
<1>7. Promises'
  <2> SUFFICES ASSUME undisturbed, NEW m \in Setters, Owed(m)'
               PROVE  Held(m)'
    BY <1>1 DEF Promises, Setters
  <2>1. spc[m] = "row" /\ Owed(m)
    BY <1>1, <1>2 DEF Owed, Setters
  <2>2. Held(m)
    BY <2>1 DEF Quiet, Promises
  <2>3. mem = {m} /\ \A h \in Handlers : hpc[h] \notin {"load", "fill"}
    BY <2>1, <2>2 DEF Held
  <2>4. m \in stored' => row' = {m}
    BY <1>1, <2>1 DEF Quiet, Begun
  <2> QED
    BY <1>1, <2>2, <2>3, <2>4 DEF Held
<1> QED
  BY <1>3, <1>4, <1>5, <1>6, <1>7 DEF Quiet

(* Options grow too old.                                                   *)
LEMMA AgeQuiet ==
  ASSUME TypeOK, Quiet, NEW n \in Setters, Age(n)
  PROVE  Quiet'
<1>1. /\ aged' = aged \cup {n} /\ promised' = promised \ {n}
      /\ UNCHANGED <<mem, row, hpc, hopt, spc, stored, undisturbed, dropped, solo, gone>>
  BY DEF Age, handlerVars
<1>2. Begun' /\ GoneTells'
  BY <1>1 DEF Quiet, Begun, GoneTells
<1>3. PromiseTells' /\ SoloTells'
  BY <1>1 DEF Quiet, PromiseTells, SoloTells, Setting, Busy
<1>4. Promises'
  <2> SUFFICES ASSUME undisturbed, NEW m \in Setters, Owed(m)'
               PROVE  Held(m)'
    BY <1>1 DEF Promises, Setters
  <2>1. Owed(m)
    BY <1>1 DEF Owed, Quiet, PromiseTells, Setters
  <2> QED
    BY <1>1, <2>1 DEF Quiet, Promises, Held
<1> QED
  BY <1>2, <1>3, <1>4 DEF Quiet

(* The process restarts, with a database or without: only what is in the   *)
(* row survives.                                                           *)
LEMMA RestartQuiet ==
  ASSUME TypeOK, Quiet, Restart
  PROVE  Quiet'
<1>1. /\ mem' = {} /\ solo' = {} /\ promised' = promised \cap stored
      /\ \A h \in Handlers : hpc'[h] = "idle" /\ hopt'[h] = Default
      /\ \A n \in Setters : spc'[n] = IF spc[n] = "row" THEN "done" ELSE spc[n]
      /\ UNCHANGED <<row, aged, stored, undisturbed, dropped, gone>>
      /\ row \subseteq Setters /\ stored \subseteq Setters /\ promised \subseteq Setters
      /\ gone \subseteq Options
  BY DEF Restart, Setting, TypeOK
<1>2. Begun'
  BY <1>1 DEF Quiet, Begun
<1>3. PromiseTells' /\ SoloTells'
  BY <1>1 DEF Quiet, PromiseTells, SoloTells, Setting, Setters
<1>4. GoneTells'
  BY <1>1 DEF Quiet, GoneTells, Options
<1>5. Promises'
  <2> SUFFICES ASSUME undisturbed, NEW n \in Setters, Owed(n)'
               PROVE  Held(n)'
    BY <1>1 DEF Promises, Setters
  <2>1. promised' = {n}
    BY <1>1 DEF Owed
  <2>2. n \in promised /\ n \in stored
    BY <1>1, <2>1
  <2>3. Owed(n) /\ spc[n] = "done"
    BY <2>2 DEF Owed, Quiet, PromiseTells
  <2>4. row = {n}
    BY <2>2, <2>3 DEF Quiet, Promises, Held
  <2> QED
    BY <1>1, <2>2, <2>3, <2>4 DEF Held
<1> QED
  BY <1>2, <1>3, <1>4, <1>5 DEF Quiet

(* Every step keeps the invariant.                                         *)
LEMMA QuietSteps == QuietInv /\ [Next]_vars => QuietInv'
<1> SUFFICES ASSUME QuietInv, [Next]_vars PROVE QuietInv'
  OBVIOUS
<1>1. TypeOK /\ Working /\ Quiet
  BY DEF QuietInv, Quiet, Promises
<1>2. TypeOK' /\ Working'
  BY <1>1, TypeStep, ForwardingAssumption
<1>3. ASSUME NEW h \in Handlers, HandlerStep(h) PROVE Quiet'
  BY <1>1, <1>3, ReceiveQuiet, LookupQuiet, LoadQuiet, FillQuiet, ExpireQuiet, DedupeQuiet,
     WebhookQuiet, ClearMemoryQuiet, ClearRowQuiet DEF HandlerStep
<1>4. ASSUME NEW n \in Setters, SetMemory(n) \/ SetRow(n) \/ Age(n) PROVE Quiet'
  BY <1>1, <1>4, SetMemoryQuiet, SetRowQuiet, AgeQuiet
<1>5. ASSUME Restart PROVE Quiet'
  BY <1>1, <1>5, RestartQuiet
<1>6. ASSUME UNCHANGED vars PROVE Quiet'
  <2>1. UNCHANGED <<mem, row, hpc, hopt, spc, aged, stored, promised, undisturbed, dropped, solo, gone>>
    BY <1>6 DEF vars, handlerVars, setterVars, historyVars
  <2>2. Begun' /\ PromiseTells' /\ SoloTells' /\ GoneTells'
    BY <1>1, <2>1 DEF Quiet, Begun, PromiseTells, SoloTells, GoneTells, Setting, Busy
  <2>3. Promises'
    BY <1>1, <2>1 DEF Quiet, Promises, Owed, Held, Setters
  <2> QED
    BY <2>2, <2>3 DEF Quiet
<1>7. Quiet'
  BY <1>3, <1>4, <1>5, <1>6 DEF Next
<1> QED
  BY <1>2, <1>7 DEF QuietInv, Quiet, Promises

(* What the handlers owe the last call of SetSessionDelivery.              *)
THEOREM QuietInductive == Spec => []QuietInv
<1>1. Init => QuietInv
  <2> SUFFICES ASSUME Init PROVE QuietInv
    OBVIOUS
  <2>1. TypeOK /\ Working
    BY ForwardingAssumption DEF Init, TypeOK, Working, Options, Setters, Default,
       ForwardingAssumption
  <2>2. Begun /\ PromiseTells /\ SoloTells /\ GoneTells
    BY DEF Init, Begun, PromiseTells, SoloTells, GoneTells
  <2>3. \A n \in Setters : ~Owed(n)
    BY DEF Init, Owed
  <2> QED
    BY <2>1, <2>2, <2>3 DEF QuietInv
<1> QED
  BY <1>1, QuietSteps, PTL DEF Spec

(* Options set while no handler is under way are in force until they are   *)
(* set again, expire or are removed, restarts included, but for a process  *)
(* that came up without the database which keeps them.                     *)
THEOREM QuietSetsSurvive == Spec => []QuietSetSurvives
<1>1. QuietInv => QuietSetSurvives
  <2> SUFFICES ASSUME QuietInv, undisturbed, NEW n \in promised
               PROVE  ~OutOfReach => InForce = promised
    BY DEF QuietSetSurvives, SetSurvives
  <2>1. promised = {n} /\ n \in Setters /\ Owed(n)
    BY DEF QuietInv, PromiseTells, Owed, TypeOK
  <2>2. Held(n)
    BY <2>1 DEF QuietInv
  <2> QED
    BY <2>1, <2>2 DEF Held, InForce, Readable, OutOfReach
<1> QED
  BY <1>1, QuietInductive, PTL

(* Options removed with nothing else under way are gone for good.          *)
THEOREM QuietClearsHold == Spec => []QuietClearHolds
<1>1. QuietInv => QuietClearHolds
  BY DEF QuietInv, GoneTells, QuietClearHolds, TypeOK, Setters, Default
<1> QED
  BY <1>1, QuietInductive, PTL
=============================================================================
