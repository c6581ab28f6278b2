------------------------------ MODULE Lifecycle ------------------------------
(***************************************************************************)
(* cmd/server, App.Run and ListenAndServe: the process from the moment     *)
(* main has asked for signals until it exits, and its restart by docker.   *)
(* Composed with it: the handlers of the gateway's events, each of which   *)
(* registers its event in dedupe_keys and then calls the webhook, all of   *)
(* it under the context that a signal ends.                                *)
(*                                                                         *)
(* Waits are taken to end at any time, so that nothing depends on the 200  *)
(* ms of main, on the ten seconds of Shutdown or on any delay.  What the   *)
(* event is, and whom its callback goes to, is left to Forwarding, what an *)
(* attempt to connect is to Handshake.                                     *)
(***************************************************************************)
EXTENDS Webhook, Sequences

CONSTANTS
  Events,       \* events of the gateway that are to be forwarded
  NoEvent,      \* what a handler that was not started works on
  MaxFrames,    \* bound: frames with an event, each handled by one delivery
  MaxRestarts   \* bound: starts by docker after an exit

ASSUME LifecycleAssumption ==
  Deliveries = 1 .. MaxFrames /\ NoEvent \notin Events /\ MaxFrames \in Nat /\ MaxRestarts \in Nat

VARIABLES
  reconnect,  \* configuration: WS_RECONNECT
  main, code, \* the main goroutine; the exit code of the process
  signalled,  \* SIGINT or SIGTERM came: rootCtx and ctx are done
  errCh,      \* results of the two goroutines that main may still take
  run,        \* the goroutine of App.Run
  http,       \* the goroutine of Server.ListenAndServe
  hpc, event, \* handlers of events, each with a delivery of its own; their event
  registered, \* dedupe_keys
  \* history
  insert,     \* what became of the insert of a handler
  late,       \* the process in which a handler was started with ctx done, or 0
  interrupted,\* calls that a context at its end kept from an attempt; those cut off
  restarts

mainVars == <<main, code, signalled, ended, errCh>>
handlerVars == <<hpc, event, registered, insert, late, interrupted, webhookVars>>
vars == <<reconnect, mainVars, run, http, handlerVars, restarts>>

Init ==
  /\ reconnect \in BOOLEAN
  /\ main = "starting" /\ code = "none" /\ errCh = <<>>
  /\ signalled = FALSE /\ ended = {} /\ interrupted = {}
  /\ run = "connect" /\ http = "serving"
  /\ hpc = [d \in Deliveries |-> "idle"]
  /\ event = [d \in Deliveries |-> NoEvent]
  /\ registered = {}
  /\ insert = [d \in Deliveries |-> "none"]
  /\ late = [d \in Deliveries |-> 0]
  /\ restarts = 0
  /\ WebhookInit

Up == main # "down"

(* No context has ended, no result has come.                               *)
Fresh == errCh' = <<>> /\ signalled' = FALSE /\ ended' = {}

(* The handlers at work.                                                   *)
Working ==
  {d \in Deliveries : hpc[d] = "register" \/ (hpc[d] = "calling" /\ wpc[d] \notin Results)}

-----------------------------------------------------------------------------
BugOnSignal == UNCHANGED main             \* main waits for the goroutines
OnSignal == main' = IF main = "select" THEN "grace" ELSE main

(* A signal ends the context of everything, and wakes main from its select *)
(* before a result can.  While main is on its way out it changes nothing.  *)
Signal ==
  /\ main \in {"starting", "select"} /\ ~signalled
  /\ signalled' = TRUE
  /\ ended' = Deliveries
  /\ OnSignal
  /\ UNCHANGED <<reconnect, code, errCh, run, http, handlerVars, restarts>>

BugOnResult(r) == main' = "leaving"       \* errors are not told apart
(* What main does with a result.  The contexts that it then ends itself    *)
(* are those of a process that exits in the same breath.                   *)
OnResult(r) == main' = IF r = "error" THEN "failing" ELSE "leaving"

(* It reaches its select; if both cases are ready it takes either.         *)
Select ==
  /\ main = "starting"
  /\ errCh' = <<>>
  /\ \/ signalled /\ main' = "grace"
     \/ errCh # <<>> /\ OnResult(Head(errCh))
     \/ ~signalled /\ errCh = <<>> /\ main' = "select"
  /\ UNCHANGED <<reconnect, code, signalled, ended, run, http, handlerVars, restarts>>

(* The process ends, with all its goroutines and all it knew.              *)
Stop(c) ==
  /\ main' = "down" /\ code' = c
  /\ run' = "gone" /\ http' = "gone"
  /\ Fresh
  /\ interrupted' = interrupted \cup Working
  /\ hpc' = [d \in Deliveries |-> IF d \in Working THEN "cut" ELSE hpc[d]]
  /\ UNCHANGED <<reconnect, event, registered, insert, late, webhookVars, restarts>>

(* 200 ms after a signal, or at once.                                      *)
Exit ==
  \/ main \in {"grace", "leaving"} /\ Stop("0")
  \/ main = "failing" /\ Stop("1")

(* SIGKILL, a panic, or the end of the machine.                            *)
Kill == Up /\ Stop("killed")

(* docker-compose.yml: restart: unless-stopped                             *)
Restart ==
  /\ main = "down"
  /\ restarts < MaxRestarts
  /\ restarts' = restarts + 1
  /\ main' = "starting" /\ code' = "none"
  /\ run' = "connect" /\ http' = "serving"
  /\ UNCHANGED <<reconnect, signalled, ended, errCh, handlerVars>>

-----------------------------------------------------------------------------
(* A goroutine sends its result; main reads one of the two at the most.    *)
Report(r) ==
  /\ IF main = "select" THEN OnResult(r) ELSE UNCHANGED main
  /\ errCh' = IF main = "starting" THEN Append(errCh, r) ELSE errCh
  /\ UNCHANGED <<code, signalled, ended>>

RunGoes(p) == run' = p /\ UNCHANGED <<reconnect, http, restarts>>

(* App.Run: Serve connects, whether ctx is done or not once it has dialled.*)
Connect ==
  /\ Up /\ run = "connect"
  /\ RunGoes("check") \/ RunGoes("broken")
  /\ UNCHANGED <<mainVars, handlerVars>>

BugMayRead == TRUE                        \* ctx.Done is not looked at
MayRead == ~signalled

(* Serve looks at ctx before every frame, and only then.                   *)
Check ==
  /\ Up /\ run = "check"
  /\ IF MayRead
       THEN RunGoes("read") /\ UNCHANGED mainVars
       ELSE RunGoes("over") /\ Report("nil")
  /\ UNCHANGED handlerVars

(* A frame comes: an event that is handled in a goroutine of its own, or   *)
(* another that is not.  Handlers are numbered as they start.              *)
ReadFrame ==
  /\ Up /\ run = "read"
  /\ RunGoes("check")
  /\ \/ \E d \in Deliveries, e \in Events :
          /\ hpc[d] = "idle" /\ \A c \in 1 .. d - 1 : hpc[c] # "idle"
          /\ hpc' = [hpc EXCEPT ![d] = "register"]
          /\ event' = [event EXCEPT ![d] = e]
          /\ late' = IF signalled THEN [late EXCEPT ![d] = restarts + 1] ELSE late
          /\ UNCHANGED <<registered, insert, interrupted, webhookVars>>
     \/ UNCHANGED handlerVars
  /\ UNCHANGED mainVars

ReadError ==
  /\ Up /\ run = "read"
  /\ RunGoes("broken")
  /\ UNCHANGED <<mainVars, handlerVars>>

(* Serve has returned an error.                                            *)
Broken ==
  /\ Up /\ run = "broken"
  /\ \/ signalled /\ RunGoes("over") /\ Report("nil")
     \/ ~signalled /\ RunGoes(IF reconnect THEN "backoff" ELSE "failing") /\ UNCHANGED mainVars
  /\ UNCHANGED handlerVars

(* ctx may end after Run has looked at it.                                 *)
RunFails ==
  /\ Up /\ run = "failing"
  /\ RunGoes("failed") /\ Report("error")
  /\ UNCHANGED handlerVars

Backoff ==
  /\ Up /\ run = "backoff"
  /\ \/ signalled /\ RunGoes("over") /\ Report("nil")
     \/ RunGoes("connect") /\ UNCHANGED mainVars
  /\ UNCHANGED handlerVars

-----------------------------------------------------------------------------
HttpGoes(p) == http' = p /\ UNCHANGED <<reconnect, run, restarts>>

(* Server.ListenAndServe: the port is taken, or accepting fails later.     *)
(* When ctx is done as well, select takes either.                          *)
ListenFails ==
  /\ Up /\ http = "serving"
  /\ HttpGoes("failed") /\ Report("error")
  /\ UNCHANGED handlerVars

(* Shutdown waits for the requests under way; ten seconds never pass.      *)
Shutdown ==
  /\ Up /\ http = "serving"
  /\ signalled
  /\ HttpGoes("over") /\ Report("nil")
  /\ UNCHANGED handlerVars

-----------------------------------------------------------------------------
BugInsertRuns(d) == TRUE                  \* the insert is not given the context
(* With its context at an end the insert is not run.                       *)
InsertRuns(d) == d \notin ended

BugIsNew(d) == TRUE                       \* the rows affected are not looked at
IsNew(d) == event[d] \notin registered

Goes(d, result) ==
  /\ insert' = [insert EXCEPT ![d] = result]
  /\ hpc' = [hpc EXCEPT ![d] = IF result = "duplicate" THEN "skipped" ELSE "calling"]
  /\ IF result = "duplicate" THEN UNCHANGED webhookVars ELSE Call(d)

(* The end of handleMessage: RegisterDedupeKey, then the webhook.  An      *)
(* insert that fails, perhaps after it took effect, does not hold it up,   *)
(* nor does a database that was away when the process started.             *)
Register(d) ==
  /\ hpc[d] = "register"
  /\ \/ /\ InsertRuns(d)
        /\ registered' = registered \cup {event[d]}
        /\ Goes(d, IF IsNew(d) THEN "new" ELSE "duplicate")
     \/ /\ InsertRuns(d)
        /\ registered' \in {registered, registered \cup {event[d]}}
        /\ Goes(d, "failed")
     \/ ~InsertRuns(d) /\ Goes(d, "stopped") /\ UNCHANGED registered
  /\ UNCHANGED <<event, late, interrupted>>

(* The webhook was not asked as often as it might have been.               *)
GivenUp(d) == wpc[d] \in {"failed", "cancelled"} /\ posted[d] < MaxAttempts

CallWebhook(d) ==
  /\ hpc[d] = "calling"
  /\ WebhookStep(d)
  /\ interrupted' = interrupted \cup {c \in {d} \cap ended : GivenUp(c)'}
  /\ UNCHANGED <<hpc, event, registered, insert, late>>

Handle(d) ==
  /\ Up
  /\ Register(d) \/ CallWebhook(d)
  /\ UNCHANGED <<reconnect, mainVars, run, http, restarts>>

-----------------------------------------------------------------------------
MainStep == Select \/ Exit
RunStep == Connect \/ Check \/ ReadFrame \/ ReadError \/ Broken \/ RunFails \/ Backoff
HttpStep == ListenFails \/ Shutdown

Next ==
  \/ MainStep \/ Signal \/ Kill \/ Restart
  \/ RunStep
  \/ HttpStep
  \/ \E d \in Deliveries : Handle(d)

Spec == Init /\ [][Next]_vars

(* main runs, and its 200 ms pass; App.Run runs when Serve has returned.   *)
FairSpec == Spec /\ WF_vars(MainStep) /\ WF_vars(Broken \/ RunFails)

-----------------------------------------------------------------------------
LifecycleTypeOK ==
  /\ reconnect \in BOOLEAN
  /\ main \in {"starting", "select", "grace", "leaving", "failing", "down"}
  /\ code \in {"none", "0", "1", "killed"}
  /\ signalled \in BOOLEAN
  /\ ended = IF signalled THEN Deliveries ELSE {}
  /\ errCh \in Seq({"nil", "error"})
  /\ run \in {"connect", "check", "read", "broken", "failing", "failed", "backoff", "over", "gone"}
  /\ http \in {"serving", "failed", "over", "gone"}
  /\ hpc \in [Deliveries -> {"idle", "register", "calling", "skipped", "cut"}]
  /\ event \in [Deliveries -> Events \cup {NoEvent}]
  /\ registered \subseteq Events
  /\ insert \in [Deliveries -> {"none", "new", "duplicate", "failed", "stopped"}]
  /\ late \in [Deliveries -> Nat] /\ interrupted \subseteq Deliveries
  /\ restarts \in Nat

(* A process that nobody asked to stop never exits with 0: no result of    *)
(* its goroutines ends main as if it had been.  It exits with 1 only if    *)
(* one of them failed, and with WS_RECONNECT never because of the gateway. *)
ExitTells ==
  [][Exit => \/ code' = "0" /\ signalled
             \/ code' = "1" /\ (http = "failed" \/ (run = "failed" /\ ~reconnect))]_vars

(* What main has to know for that.                                         *)
ResultsTell ==
  /\ ~Up => run = "gone" /\ http = "gone" /\ ~signalled
  /\ main \in {"grace", "leaving"} => signalled
  /\ main = "failing" => http = "failed" \/ run = "failed"
  /\ main # "down" => code = "none"
  /\ \A i \in 1 .. Len(errCh) :
       IF errCh[i] = "nil" THEN signalled ELSE http = "failed" \/ run = "failed"
  /\ run \in {"failing", "failed"} => ~reconnect
  /\ run = "over" => signalled
  /\ http = "over" => signalled

(* Serve, blocked in ReadMessage as ctx ends, takes one more frame at the  *)
(* most, and that event is neither posted nor does it use up its key.      *)
LateEventIsHarmless ==
  /\ \A d1, d2 \in Deliveries : late[d1] # 0 /\ late[d1] = late[d2] => d1 = d2
  /\ \A d \in Deliveries : late[d] # 0 => posted[d] = 0
  /\ \A e \in registered : \E d \in Deliveries : event[d] = e /\ late[d] = 0

(* However the handlers of an event interleave, whatever a stop cuts off   *)
(* and a restart forgets, the webhook is called for it by one of them, but *)
(* for those whose insert the database failed.                             *)
AskedByOne ==
  \A d1, d2 \in Deliveries :
    event[d1] = event[d2] /\ posted[d1] > 0 /\ posted[d2] > 0
      => d1 = d2 \/ insert[d1] = "failed" \/ insert[d2] = "failed"

(* An event is used up without being heard of only by a webhook that gave  *)
(* no answer to any of the attempts, or by a signal or the end of a        *)
(* process in the middle of them: not by other handlers of the event, by   *)
(* failed inserts, or by what became of earlier processes.                 *)
LossExplained ==
  \A e \in registered : \E d \in Deliveries :
    /\ event[d] = e
    /\ d \in Working \cup interrupted \/ heard[d] > 0 \/ posted[d] = MaxAttempts

(* The handlers: what the result of the insert has to do with the rest.    *)
InsertsTell ==
  /\ \A d \in Deliveries :
       /\ hpc[d] = "idle" <=> event[d] = NoEvent
       /\ hpc[d] \in {"idle", "register"} => insert[d] = "none"
       /\ hpc[d] = "calling" => wpc[d] # "idle"
       /\ wpc[d] = "idle" <=> insert[d] \in {"none", "duplicate"}
       /\ insert[d] = "new" => event[d] \in registered
       /\ insert[d] = "stopped" => posted[d] = 0 /\ (d \in Working => signalled)
  /\ \A d1, d2 \in Deliveries :
       insert[d1] = "new" /\ insert[d2] = "new" /\ event[d1] = event[d2] => d1 = d2
  /\ \A e \in registered : \E d \in Deliveries :
       event[d] = e /\ insert[d] \in {"new", "failed"}

(* Those that were started with the context at its end.                    *)
LateOnes ==
  \A d \in Deliveries :
    /\ late[d] <= restarts + 1
    /\ late[d] = restarts + 1 /\ Up => signalled /\ run \in {"check", "over"}
    /\ late[d] # 0 =>
         /\ hpc[d] # "idle" /\ insert[d] \in {"none", "stopped"}
         /\ d \in Working => signalled

(* Calls that nothing interrupted have made all their attempts.            *)
Undisturbed ==
  \A d \in Deliveries \ interrupted :
    insert[d] \in {"new", "failed"} /\ (d \in Working => ~signalled) /\ wpc[d] # "ok" =>
      /\ hpc[d] = "calling" /\ wpc[d] # "cancelled"
      /\ posted[d] = attempt[d] - (IF wpc[d] = "start" THEN 1 ELSE 0)
      /\ wpc[d] = "failed" => attempt[d] = MaxAttempts

LifecycleInv ==
  /\ WebhookInv /\ LifecycleTypeOK /\ ResultsTell
  /\ InsertsTell /\ LateOnes /\ LateEventIsHarmless /\ Undisturbed

(* A signal ends the process, though Serve may be blocked for ever and     *)
(* Shutdown still wait for requests; so does the loss of the gateway, if   *)
(* it is not to be reconnected to.                                         *)
Stops == signalled \/ (run = "broken" /\ ~reconnect) ~> main = "down"
=============================================================================
