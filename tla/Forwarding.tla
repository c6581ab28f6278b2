------------------------------ MODULE Forwarding ------------------------------
(***************************************************************************)
(* internal/app and internal/store: what becomes of the events of one      *)
(* session.  Serve starts a goroutine handleMessage per frame, which looks *)
(* up the delivery options of the session, filters, deduplicates, calls    *)
(* the webhook, and for stream=false drops the options.  HTTP handlers set *)
(* the options meanwhile.                                                  *)
(*                                                                         *)
(* The options live in a map in memory and in a row of the database: each  *)
(* is changed under its own lock, never both together.  Every action is    *)
(* one critical section of App.mu or one statement of the database.        *)
(* Sessions share nothing but these locks, so one session is modelled.     *)
(***************************************************************************)
EXTENDS Naturals, FiniteSets

CONSTANTS
  Events,       \* distinct frames of the session that pass events.ShouldForward
  Final,        \* those for which isFinalEvent holds
  NoEvent,      \* the frame of a handler that is not running
  Handlers,     \* goroutines that run handleMessage: bounds those that overlap
  MaxFrames,    \* bound: frames received, copies included
  MaxSets,      \* bound: calls of SetSessionDelivery
  MaxErrors,    \* bound: statements the database fails
  MaxRestarts,  \* bound: restarts of the process
  Stores        \* what a start may find: is a database there? a set of Booleans

ASSUME ForwardingAssumption ==
  /\ Final \subseteq Events /\ NoEvent \notin Events
  /\ {MaxFrames, MaxSets, MaxErrors, MaxRestarts} \subseteq Nat
  /\ Stores \subseteq BOOLEAN
  /\ IsFiniteSet(Handlers)

Setters == 1 .. MaxSets

(* The options a setter writes are known by its number; Default stands for *)
(* SessionDeliveryOptions{Stream: true}.                                   *)
Default == 0
Options == {Default} \cup Setters

VARIABLES
  persistent, \* Store.Enabled: this process found its database when it started
  mem,        \* App.delivery[key]: the options, in a set
  row,        \* the row of session_delivery: the options, in a set
  finalOnly,  \* options with stream=false
  aged,       \* options older than DELIVERY_TTL_SECONDS
  keys,       \* table dedupe_keys: the frames already registered
  hpc, event, hopt, \* handlers: control point, frame, options looked up
  spc,        \* setters: control point
  sent,       \* how often the webhook was called for each frame
  received, errors, restarts,
  \* history
  unchecked,  \* how often each frame was let through without an answer of the table
  stored,     \* the options of Sets whose statement the database carried out
  promised,   \* the options of a Set that is complete and not undone since
  undisturbed,\* no handler was under way when that Set began
  dropped,    \* options a handler has begun to remove after its final event
  solo,       \* the handler that does so with nothing else under way
  gone        \* options removed that way

storeVars == <<persistent, keys, errors, unchecked>>
handlerVars == <<hpc, event, hopt, sent, received>>
setterVars == <<spc, finalOnly, aged>>
historyVars == <<stored, promised, undisturbed, dropped, solo, gone>>
vars == <<mem, row, storeVars, handlerVars, setterVars, restarts, historyVars>>

Init ==
  /\ persistent \in Stores
  /\ mem = {}
  /\ row = {}
  /\ finalOnly = {}
  /\ aged = {}
  /\ keys = {}
  /\ hpc = [h \in Handlers |-> "idle"]
  /\ event = [h \in Handlers |-> NoEvent]
  /\ hopt = [h \in Handlers |-> Default]
  /\ spc = [n \in Setters |-> "idle"]
  /\ sent = [e \in Events |-> 0]
  /\ unchecked = [e \in Events |-> 0]
  /\ received = 0
  /\ errors = 0
  /\ restarts = 0
  /\ stored = {}
  /\ promised = {}
  /\ undisturbed = TRUE
  /\ dropped = {}
  /\ solo = {}
  /\ gone = {}

Busy == {h \in Handlers : hpc[h] # "idle"}
Setting == {n \in Setters : spc[n] = "row"}

(* A statement of the database fails; without a database none is run.      *)
Fails == persistent /\ errors < MaxErrors /\ errors' = errors + 1

-----------------------------------------------------------------------------
(* SetSessionDelivery: the map, then the row.                              *)
SetMemory(n) ==
  /\ spc[n] = "idle"
  /\ \A m \in 1 .. n - 1 : spc[m] # "idle"
  /\ mem' = {n}
  /\ \E f \in BOOLEAN : finalOnly' = IF f THEN finalOnly \cup {n} ELSE finalOnly
  /\ spc' = [spc EXCEPT ![n] = "row"]
  /\ promised' = {}
  /\ undisturbed' = (Busy = {})
  /\ solo' = {}
  /\ UNCHANGED <<row, storeVars, handlerVars, aged, restarts, stored, dropped,
                 gone>>

BugUpsert(n) == row' = IF row = {} THEN {n} ELSE row   \* on conflict do nothing
Upsert(n) == row' = {n}                                \* on conflict do update

(* A failure, perhaps after the statement took effect, is only logged: the *)
(* options are then in memory alone, as they are without a database.       *)
SetRow(n) ==
  /\ spc[n] = "row"
  /\ \/ persistent /\ Upsert(n) /\ stored' = stored \cup {n} /\ UNCHANGED errors
     \/ ~persistent /\ UNCHANGED <<row, errors, stored>>
     \/ Fails /\ row' \in {row, {n}} /\ UNCHANGED stored
  /\ spc' = [spc EXCEPT ![n] = "done"]
  /\ promised' = IF /\ \A m \in Setters : m > n => spc[m] = "idle"
                    /\ Setting = {n} /\ n \notin dropped \cup aged
                   THEN {n} ELSE {}
  /\ UNCHANGED <<persistent, mem, keys, unchecked, handlerVars, finalOnly, aged, restarts,
                 undisturbed, dropped, solo, gone>>

-----------------------------------------------------------------------------
(* handleMessage, for a frame that ShouldForward lets through; for others  *)
(* it returns without effect.  A frame with no session key goes the same   *)
(* way with the default options.                                           *)
Receive(h) ==
  /\ hpc[h] = "idle"
  /\ received < MaxFrames
  /\ received' = received + 1
  /\ \E e \in Events : event' = [event EXCEPT ![h] = e]
  /\ hpc' = [hpc EXCEPT ![h] = "lookup"]
  /\ solo' = {}
  /\ UNCHANGED <<mem, row, storeVars, hopt, sent, setterVars, restarts, stored, promised,
                 undisturbed, dropped, gone>>

(* handleMessage returns.                                                  *)
Done(h) ==
  /\ hpc' = [hpc EXCEPT ![h] = "idle"]
  /\ event' = [event EXCEPT ![h] = NoEvent]
  /\ hopt' = [hopt EXCEPT ![h] = Default]

GoOn(h, pc) == hpc' = [hpc EXCEPT ![h] = pc] /\ UNCHANGED <<event, hopt>>

(* The options o are found: with stream=false only a final event goes on.  *)
Use(h, o) ==
  IF o \in finalOnly /\ event[h] \notin Final
    THEN Done(h)
    ELSE /\ hopt' = [hopt EXCEPT ![h] = o]
         /\ hpc' = [hpc EXCEPT ![h] = "dedupe"]
         /\ UNCHANGED event

(* getSessionDelivery: the map.                                            *)
Lookup(h) ==
  /\ hpc[h] = "lookup"
  /\ \/ \E n \in mem \ aged : Use(h, n)
     \/ mem \cap aged # {} /\ GoOn(h, "expireMem")
     \/ mem = {} /\ GoOn(h, "load")
  /\ UNCHANGED <<mem, row, storeVars, sent, received, setterVars, restarts, historyVars>>

(* What getSessionDelivery finds when the map has no entry.                *)
Readable == IF persistent THEN row ELSE {}

(* The row is read outside App.mu, and its age is not looked at.           *)
Load(h) ==
  /\ hpc[h] = "load"
  /\ \/ \E n \in Readable :
          /\ hopt' = [hopt EXCEPT ![h] = n]
          /\ hpc' = [hpc EXCEPT ![h] = "fill"]
          /\ UNCHANGED <<event, errors>>
     \/ Readable = {} /\ Use(h, Default) /\ UNCHANGED errors
     \/ Fails /\ Use(h, Default)
  /\ UNCHANGED <<persistent, mem, row, keys, unchecked, sent, received, setterVars, restarts,
                 historyVars>>

Fill(h) ==
  /\ hpc[h] = "fill"
  /\ mem' = {hopt[h]}
  /\ Use(h, hopt[h])
  /\ UNCHANGED <<row, storeVars, sent, received, setterVars, restarts, historyVars>>

(* Whatever the map holds by now is deleted, then the row.                 *)
ExpireMemory(h) ==
  /\ hpc[h] = "expireMem"
  /\ mem' = {}
  /\ GoOn(h, "expireRow")
  /\ UNCHANGED <<row, storeVars, sent, received, setterVars, restarts, historyVars>>

BugDelete == UNCHANGED row              \* only the map is cleared
Delete == row' = {}

(* DeleteSessionDelivery.                                                  *)
DeleteRow ==
  \/ persistent /\ Delete /\ UNCHANGED errors
  \/ ~persistent /\ UNCHANGED <<row, errors>>
  \/ Fails /\ row' \in {row, {}}

ExpireRow(h) ==
  /\ hpc[h] = "expireRow"
  /\ DeleteRow
  /\ Use(h, Default)
  /\ UNCHANGED <<persistent, mem, keys, unchecked, sent, received, setterVars, restarts, historyVars>>

BugIsNew(e) == TRUE                     \* the rows affected are not looked at
IsNew(e) == e \notin keys

Unchecked(e) == unchecked' = [unchecked EXCEPT ![e] = @ + 1]

(* RegisterDedupeKey, one insert.  Without a database, and if the insert   *)
(* fails, perhaps after it took effect, the event is sent anyway.          *)
Dedupe(h) ==
  LET e == event[h] IN
  /\ hpc[h] = "dedupe"
  /\ \/ /\ persistent
        /\ keys' = keys \cup {e}
        /\ IF IsNew(e) THEN GoOn(h, "send") ELSE Done(h)
        /\ UNCHANGED <<errors, unchecked>>
     \/ ~persistent /\ GoOn(h, "send") /\ Unchecked(e) /\ UNCHANGED <<keys, errors>>
     \/ Fails /\ GoOn(h, "send") /\ Unchecked(e) /\ keys' \in {keys, keys \cup {e}}
  /\ UNCHANGED <<persistent, mem, row, sent, received, setterVars, restarts, historyVars>>

(* The webhook call, with its retries, to the callback of the options.     *)
CallWebhook(h) ==
  /\ hpc[h] = "send"
  /\ sent' = [sent EXCEPT ![event[h]] = @ + 1]
  /\ \/ hopt[h] \in finalOnly /\ GoOn(h, "clearMem")
     \/ Done(h)       \* it failed, or stream=true
  /\ UNCHANGED <<mem, row, storeVars, received, setterVars, restarts, historyVars>>

(* clearSessionDelivery, whatever the options are by now.                  *)
ClearMemory(h) ==
  /\ hpc[h] = "clearMem"
  /\ mem' = {}
  /\ GoOn(h, "clearRow")
  /\ promised' = promised \ {hopt[h]}
  /\ dropped' = dropped \cup {hopt[h]}
  /\ solo' = IF Busy = {h} /\ Setting = {} THEN {h} ELSE {}
  /\ UNCHANGED <<row, storeVars, sent, received, setterVars, restarts, stored,
                 undisturbed, gone>>

ClearRow(h) ==
  /\ hpc[h] = "clearRow"
  /\ DeleteRow
  /\ gone' = IF persistent /\ errors' = errors /\ h \in solo
              THEN gone \cup {hopt[h]} ELSE gone
  /\ Done(h)
  /\ solo' = {}
  /\ UNCHANGED <<persistent, mem, keys, unchecked, sent, received, setterVars, restarts, stored,
                 promised, undisturbed, dropped>>

-----------------------------------------------------------------------------
(* DELIVERY_TTL_SECONDS pass.                                              *)
Age(n) ==
  /\ spc[n] # "idle"
  /\ n \notin aged
  /\ aged' = aged \cup {n}
  /\ promised' = promised \ {n}
  /\ UNCHANGED <<mem, row, storeVars, handlerVars, spc, finalOnly, restarts, stored,
                 undisturbed, dropped, solo, gone>>

(* The process stops, main.go:56 included, and starts again.  What was     *)
(* under way is lost, the tables are not; but store.New decides anew       *)
(* whether there is a database, and the process may go on without one.     *)
Restart ==
  /\ restarts < MaxRestarts
  /\ restarts' = restarts + 1
  /\ persistent' \in Stores
  /\ mem' = {}
  /\ hpc' = [h \in Handlers |-> "idle"]
  /\ event' = [h \in Handlers |-> NoEvent]
  /\ hopt' = [h \in Handlers |-> Default]
  /\ solo' = {}
  /\ spc' = [n \in Setters |-> IF n \in Setting THEN "done" ELSE spc[n]]
  /\ promised' = promised \cap stored
  /\ UNCHANGED <<row, keys, errors, unchecked, sent, received, finalOnly, aged, stored,
                 undisturbed, dropped, gone>>

HandlerStep(h) ==
  \/ Receive(h) \/ Lookup(h) \/ Load(h) \/ Fill(h) \/ ExpireMemory(h) \/ ExpireRow(h)
  \/ Dedupe(h) \/ CallWebhook(h) \/ ClearMemory(h) \/ ClearRow(h)

Next ==
  \/ \E h \in Handlers : HandlerStep(h)
  \/ \E n \in Setters : SetMemory(n) \/ SetRow(n) \/ Age(n)
  \/ Restart

Spec == Init /\ [][Next]_vars

-----------------------------------------------------------------------------
TypeOK ==
  /\ mem \subseteq Setters /\ row \subseteq Setters
  /\ finalOnly \subseteq Setters /\ aged \subseteq Setters
  /\ keys \subseteq Events
  /\ hpc \in [Handlers ->
                {"idle", "lookup", "load", "fill", "expireMem", "expireRow", "dedupe", "send",
                 "clearMem", "clearRow"}]
  /\ hopt \in [Handlers -> Options]
  /\ spc \in [Setters -> {"idle", "row", "done"}]
  /\ event \in [Handlers -> Events \cup {NoEvent}]
  /\ sent \in [Events -> Nat] /\ unchecked \in [Events -> Nat]
  /\ persistent \in BOOLEAN
  /\ received \in Nat /\ errors \in Nat /\ restarts \in Nat
  /\ stored \cup promised \subseteq Setters /\ undisturbed \in BOOLEAN
  /\ dropped \subseteq Options /\ solo \subseteq Handlers /\ gone \subseteq Options

(* However often the gateway sends an event, however its handlers          *)
(* interleave and whatever restarts, with its database or without, one of  *)
(* them calls the webhook, but for those that got no answer of the table:  *)
(* their insert failed, or their process had no database.  What a call     *)
(* makes the webhook hear, its retries included, is the matter of Webhook. *)
SentOnce == \A e \in Events : sent[e] <= 1 + unchecked[e]

(* The same, inductive: the handlers that are past the table and about to  *)
(* call the webhook count as calls.                                        *)
Senders(e) == {h \in Handlers : hpc[h] = "send" /\ event[h] = e}

Accounted ==
  \A e \in Events :
    sent[e] + Cardinality(Senders(e)) <= (IF e \in keys THEN 1 ELSE 0) + unchecked[e]

(* A handler that runs has a frame, and one that fills the map has options *)
(* of a row.                                                               *)
Working ==
  \A h \in Handlers :
    /\ hpc[h] # "idle" => event[h] \in Events
    /\ hpc[h] = "fill" => hopt[h] \in Setters

DedupeInv == TypeOK /\ Working /\ Accounted

(* What a handler that starts now would use.                               *)
InForce == IF mem # {} THEN mem ELSE Readable

(* The options are in the row, and this process came up without it.        *)
OutOfReach == ~persistent /\ mem = {} /\ promised \subseteq stored

(* Once SetSessionDelivery has returned its options are in force, until    *)
(* the next call, their expiry, or their removal after the final event.    *)
(* A process that finds no database when it starts uses the defaults, but  *)
(* one that finds it later has the options of the row again.               *)
SetSurvives == promised # {} /\ ~OutOfReach => InForce = promised

(* That much the code does guarantee when no handler was under way as the  *)
(* call began, restarts included.                                          *)
QuietSetSurvives == undisturbed => SetSurvives

(* Options removed after the final event, while nothing else was under     *)
(* way, never come back.                                                   *)
QuietClearHolds == gone \cap (mem \cup row) = {}

(* The two, inductive.  Calls begin in order, options anywhere are those   *)
(* of one that began, and a row that was written belongs to one that is    *)
(* over.                                                                   *)
Begun ==
  /\ \A m, n \in Setters : m < n /\ spc[n] # "idle" => spc[m] # "idle"
  /\ \A n \in mem \cup row : spc[n] # "idle"
  /\ \A h \in Handlers :
       /\ hopt[h] # Default => spc[hopt[h]] # "idle"
       /\ hpc[h] = "idle" => hopt[h] = Default
       /\ hpc[h] = "clearMem" => hopt[h] # Default
  /\ \A n \in stored : spc[n] = "done"

(* A promise is that of the last call, with none under way.                *)
PromiseTells ==
  \A n \in promised :
    /\ promised = {n} /\ n \notin dropped \cup aged /\ Setting = {}
    /\ spc[n] = "done" /\ \A m \in Setters : m > n => spc[m] = "idle"

(* The last call, not undone yet.                                          *)
Owed(n) ==
  /\ \A m \in Setters : m > n => spc[m] = "idle"
  /\ n \notin dropped \cup aged
  /\ spc[n] = "row" \/ promised = {n}

(* Its options are in the map and nobody brings others, or, after a        *)
(* restart, in the row and nobody removes them.                            *)
Held(n) ==
  /\ \A h \in Handlers :
       /\ hpc[h] \notin {"expireMem", "expireRow", "clearRow"}
       /\ hopt[h] \in {Default, n}
  /\ \/ mem = {n} /\ \A h \in Handlers : hpc[h] \notin {"load", "fill"}
     \/ mem \subseteq {n} /\ row = {n} /\ spc[n] = "done"
  /\ IF n \in stored THEN row = {n} ELSE mem = {n}

(* A handler that removes options on its own finds the map empty still,    *)
(* and what it has removed is nowhere left.                                *)
SoloTells ==
  \A h \in solo :
    hpc[h] = "clearRow" /\ Busy = {h} /\ Setting = {} /\ mem = {}

GoneTells ==
  \A n \in gone : n # Default =>
    /\ spc[n] = "done" /\ n \notin mem \cup row
    /\ \A h \in Handlers : hpc[h] = "fill" => hopt[h] # n

QuietInv ==
  /\ TypeOK /\ Working /\ Begun /\ PromiseTells /\ SoloTells /\ GoneTells
  /\ undisturbed => \A n \in Setters : Owed(n) => Held(n)
=============================================================================
