--------------------------- MODULE LifecycleProofs ---------------------------
(* Proofs about Lifecycle, for any number of frames, attempts, events and  *)
(* restarts: how the process ends, and what its end does to an event.      *)
EXTENDS Lifecycle, WebhookProofs

(* What the constants are to the steps below.                              *)
LEMMA Frames == Deliveries \subseteq Nat /\ NoEvent \notin Events
BY LifecycleAssumption DEF LifecycleAssumption

(* Steps that leave the handlers alone keep what is said of them, as long  *)
(* as a signal stays and App.Run does not go back to its reads after one.  *)
LEMMA HandlersKept ==
  ASSUME LifecycleInv, UNCHANGED <<handlerVars, restarts>>,
         Up, Up', signalled => signalled',
         signalled /\ run \in {"check", "over"} => run' \in {"check", "over"}
  PROVE  /\ WebhookInv' /\ InsertsTell' /\ LateOnes' /\ LateEventIsHarmless' /\ Undisturbed'
<1>1. UNCHANGED <<hpc, event, registered, insert, late, interrupted, webhookVars, restarts, wpc,
                  attempt, posted, heard, lost>>
  BY DEF handlerVars, webhookVars
<1>2. WebhookInv'
  BY <1>1, WebhookIdleOK DEF LifecycleInv
<1>w. Working' = Working
  BY <1>1 DEF Working
<1>3. InsertsTell'
  BY <1>1, <1>w DEF LifecycleInv, InsertsTell
<1>4. LateOnes'
  BY <1>1, <1>w DEF LifecycleInv, LateOnes
<1>5. LateEventIsHarmless'
  BY <1>1 DEF LifecycleInv, LateEventIsHarmless
<1>6. Undisturbed'
  BY <1>1, <1>w DEF LifecycleInv, Undisturbed
<1> QED
  BY <1>2, <1>3, <1>4, <1>5, <1>6

(* The types of what they leave alone.                                     *)
LEMMA HandlerTypesKept ==
  ASSUME LifecycleTypeOK, UNCHANGED <<handlerVars, restarts, reconnect>>
  PROVE  /\ reconnect' \in BOOLEAN
         /\ hpc' \in [Deliveries -> {"idle", "register", "calling", "skipped", "cut"}]
         /\ event' \in [Deliveries -> Events \cup {NoEvent}]
         /\ registered' \subseteq Events
         /\ insert' \in [Deliveries -> {"none", "new", "duplicate", "failed", "stopped"}]
         /\ late' \in [Deliveries -> Nat] /\ interrupted' \subseteq Deliveries
         /\ restarts' \in Nat
BY DEF LifecycleTypeOK, handlerVars

(* A result is right when it is sent, and is taken for what it is.         *)
LEMMA ReportOK ==
  ASSUME LifecycleTypeOK, ResultsTell, Up, NEW r \in {"nil", "error"}, Report(r),
         r = "nil" => signalled,
         r = "error" => http' = "failed" \/ run' = "failed",
         http = "failed" => http' = "failed",
         run = "failed" => run' = "failed"
  PROVE  /\ main' \in {"starting", "select", "grace", "leaving", "failing"}
         /\ code' = code /\ signalled' = signalled /\ ended' = ended
         /\ errCh' \in Seq({"nil", "error"})
         /\ main' \in {"grace", "leaving"} => signalled
         /\ main' = "failing" => http' = "failed" \/ run' = "failed"
         /\ \A i \in 1 .. Len(errCh') :
              IF errCh'[i] = "nil" THEN signalled ELSE http' = "failed" \/ run' = "failed"
<1>1. /\ main \in {"starting", "select", "grace", "leaving", "failing"}
      /\ errCh \in Seq({"nil", "error"})
  BY DEF LifecycleTypeOK, Up
<1>2. /\ main' = IF main = "select" THEN IF r = "error" THEN "failing" ELSE "leaving" ELSE main
      /\ code' = code /\ signalled' = signalled /\ ended' = ended
  BY DEF Report, OnResult
<1>3. /\ main' \in {"grace", "leaving"} => signalled
      /\ main' = "failing" => http' = "failed" \/ run' = "failed"
  BY <1>1, <1>2 DEF ResultsTell
<1>4. \A i \in 1 .. Len(errCh) :
        IF errCh[i] = "nil" THEN signalled ELSE http' = "failed" \/ run' = "failed"
  BY DEF ResultsTell
<1>5. CASE main = "starting"
  <2>1. errCh' = Append(errCh, r)
    BY <1>5 DEF Report
  <2>2. errCh' \in Seq({"nil", "error"}) /\ Len(errCh') = Len(errCh) + 1 /\ Len(errCh) \in Nat
        /\ errCh'[Len(errCh) + 1] = r
        /\ \A i \in 1 .. Len(errCh) : errCh'[i] = errCh[i]
    BY <1>1, <2>1
  <2>3. \A i \in 1 .. Len(errCh') :
          IF errCh'[i] = "nil" THEN signalled ELSE http' = "failed" \/ run' = "failed"
    <3> SUFFICES ASSUME NEW i \in 1 .. Len(errCh')
                 PROVE  IF errCh'[i] = "nil" THEN signalled
                                             ELSE http' = "failed" \/ run' = "failed"
      OBVIOUS
    <3>1. CASE i \in 1 .. Len(errCh)
      BY <1>4, <2>2, <3>1
    <3>2. CASE i = Len(errCh) + 1
      BY <2>2, <3>2
    <3> QED
      BY <2>2, <3>1, <3>2
  <2> QED
    BY <1>1, <1>2, <1>3, <1>5, <2>2, <2>3
<1>6. CASE main # "starting"
  <2>1. errCh' = errCh
    BY <1>6 DEF Report
  <2> QED
    BY <1>1, <1>2, <1>3, <1>4, <2>1
<1> QED
  BY <1>5, <1>6

(* Signals, and main up to its select.                                     *)
LEMMA MainOK ==
  ASSUME LifecycleInv, Signal \/ Select
  PROVE  LifecycleInv'
<1>0. UNCHANGED <<reconnect, code, run, http, handlerVars, restarts>>
  BY DEF Signal, Select
<1>1. /\ main \in {"starting", "select", "grace", "leaving", "failing"}
      /\ errCh \in Seq({"nil", "error"})
      /\ ended = IF signalled THEN Deliveries ELSE {}
      /\ signalled \in BOOLEAN
      /\ code \in {"none", "0", "1", "killed"}
  BY DEF LifecycleInv, LifecycleTypeOK, Signal, Select
<1>h. /\ run \in {"connect", "check", "read", "broken", "failing", "failed", "backoff", "over",
                  "gone"}
      /\ http \in {"serving", "failed", "over", "gone"}
  BY DEF LifecycleInv, LifecycleTypeOK
<1>2. CASE Signal
  <2>1. /\ main' = (IF main = "select" THEN "grace" ELSE main) /\ errCh' = errCh
        /\ signalled' = TRUE /\ ended' = Deliveries /\ main \in {"starting", "select"}
    BY <1>2 DEF Signal, OnSignal
  <2>2. LifecycleTypeOK'
    BY <1>0, <1>1, <1>h, <2>1, HandlerTypesKept DEF LifecycleInv, LifecycleTypeOK
  <2>3. ResultsTell'
    BY <1>0, <1>1, <2>1 DEF LifecycleInv, ResultsTell, Up
  <2> QED
    BY <1>0, <1>1, <2>1, <2>2, <2>3, HandlersKept DEF LifecycleInv, Up
<1>3. CASE Select
  <2>1. /\ errCh' = <<>> /\ signalled' = signalled /\ ended' = ended /\ main = "starting"
    BY <1>3 DEF Select
  <2>2. /\ main' \in {"select", "grace", "leaving", "failing"}
        /\ main' \in {"grace", "leaving"} => signalled
        /\ main' = "failing" => http = "failed" \/ run = "failed"
    <3>1. CASE signalled /\ main' = "grace"
      BY <3>1
    <3>2. CASE errCh # <<>> /\ OnResult(Head(errCh))
      <4>1. 1 \in 1 .. Len(errCh) /\ Head(errCh) = errCh[1] /\ errCh[1] \in {"nil", "error"}
        BY <1>1, <3>2
      <4>2. IF errCh[1] = "nil" THEN signalled ELSE http = "failed" \/ run = "failed"
        BY <4>1 DEF LifecycleInv, ResultsTell
      <4> QED
        BY <3>2, <4>1, <4>2 DEF OnResult
    <3>3. CASE ~signalled /\ errCh = <<>> /\ main' = "select"
      BY <3>3
    <3> QED
      BY <1>3, <3>1, <3>2, <3>3 DEF Select
  <2>3. <<>> \in Seq({"nil", "error"}) /\ Len(<<>>) = 0
    OBVIOUS
  <2>4. LifecycleTypeOK'
    BY <1>0, <1>1, <1>h, <2>1, <2>2, <2>3, HandlerTypesKept DEF LifecycleInv, LifecycleTypeOK
  <2>5. ResultsTell'
    BY <1>0, <1>1, <2>1, <2>2, <2>3 DEF LifecycleInv, ResultsTell, Up
  <2> QED
    BY <1>0, <1>1, <2>1, <2>2, <2>4, <2>5, HandlersKept DEF LifecycleInv, Up
<1> QED
  BY <1>2, <1>3

(* App.Run but for the frames it reads, and the HTTP server.               *)
LEMMA GoroutinesOK ==
  ASSUME LifecycleInv,
         Connect \/ Check \/ ReadError \/ Broken \/ RunFails \/ Backoff \/ ListenFails \/ Shutdown
  PROVE  LifecycleInv'
<1>0. Up /\ UNCHANGED <<reconnect, handlerVars, restarts>>
  BY DEF Connect, Check, ReadError, Broken, RunFails, Backoff, ListenFails, Shutdown, RunGoes,
         HttpGoes
<1>1. /\ main \in {"starting", "select", "grace", "leaving", "failing"}
      /\ errCh \in Seq({"nil", "error"})
      /\ ended = IF signalled THEN Deliveries ELSE {}
      /\ signalled \in BOOLEAN
      /\ code = "none"
      /\ run \in {"connect", "check", "read", "broken", "failing", "failed", "backoff", "over",
                  "gone"}
      /\ http \in {"serving", "failed", "over", "gone"}
  BY <1>0 DEF LifecycleInv, LifecycleTypeOK, ResultsTell, Up
<1>2. ASSUME UNCHANGED mainVars, http' = http,
             \/ run = "connect" /\ run' \in {"check", "broken"}
             \/ run = "check" /\ run' = "read" /\ ~signalled
             \/ run = "read" /\ run' = "broken"
             \/ run = "broken" /\ ~signalled /\ run' = (IF reconnect THEN "backoff" ELSE "failing")
             \/ run = "backoff" /\ run' = "connect"
      PROVE  LifecycleInv'
  <2>0. UNCHANGED <<main, code, signalled, ended, errCh>>
    BY <1>2 DEF mainVars
  <2>1. LifecycleTypeOK'
    BY <1>0, <1>1, <1>2, <2>0, HandlerTypesKept DEF LifecycleInv, LifecycleTypeOK
  <2>2. ResultsTell'
    BY <1>0, <1>1, <1>2, <2>0 DEF LifecycleInv, ResultsTell, Up
  <2>3. signalled /\ run \in {"check", "over"} => run' \in {"check", "over"}
    BY <1>2
  <2> QED
    BY <1>0, <2>0, <2>1, <2>2, <2>3, HandlersKept DEF LifecycleInv, Up
<1>3. ASSUME NEW r \in {"nil", "error"}, Report(r),
             \/ run \in {"check", "broken", "backoff"} /\ run' = "over" /\ r = "nil" /\ signalled
                  /\ http' = http
             \/ run = "failing" /\ run' = "failed" /\ r = "error" /\ http' = http
             \/ http = "serving" /\ http' = "failed" /\ r = "error" /\ run' = run
             \/ http = "serving" /\ http' = "over" /\ r = "nil" /\ signalled /\ run' = run
      PROVE  LifecycleInv'
  <2>1. /\ main' \in {"starting", "select", "grace", "leaving", "failing"}
        /\ code' = code /\ signalled' = signalled /\ ended' = ended
        /\ errCh' \in Seq({"nil", "error"})
        /\ main' \in {"grace", "leaving"} => signalled
        /\ main' = "failing" => http' = "failed" \/ run' = "failed"
        /\ \A i \in 1 .. Len(errCh') :
             IF errCh'[i] = "nil" THEN signalled ELSE http' = "failed" \/ run' = "failed"
    BY <1>0, <1>3, ReportOK DEF LifecycleInv
  <2>2. LifecycleTypeOK'
    BY <1>0, <1>1, <1>3, <2>1, HandlerTypesKept DEF LifecycleInv, LifecycleTypeOK
  <2>3. ResultsTell'
    <3>1. /\ run' \in {"failing", "failed"} => ~reconnect'
          /\ run' = "over" => signalled'
          /\ http' = "over" => signalled'
      BY <1>0, <1>3, <2>1 DEF LifecycleInv, ResultsTell
    <3> QED
      BY <1>1, <2>1, <3>1 DEF ResultsTell, Up
  <2>4. signalled /\ run \in {"check", "over"} => run' \in {"check", "over"}
    BY <1>3
  <2> QED
    BY <1>0, <2>1, <2>2, <2>3, <2>4, HandlersKept DEF LifecycleInv, Up
<1>4. CASE Connect
  BY <1>2, <1>4 DEF Connect, RunGoes
<1>5. CASE Check
  BY <1>2, <1>3, <1>5 DEF Check, MayRead, RunGoes
<1>6. CASE ReadError
  BY <1>2, <1>6 DEF ReadError, RunGoes
<1>7. CASE Broken
  BY <1>2, <1>3, <1>7 DEF Broken, RunGoes
<1>8. CASE RunFails
  BY <1>3, <1>8 DEF RunFails, RunGoes
<1>9. CASE Backoff
  BY <1>2, <1>3, <1>9 DEF Backoff, RunGoes
<1>10. CASE ListenFails
  BY <1>3, <1>10 DEF ListenFails, HttpGoes
<1>11. CASE Shutdown
  BY <1>3, <1>11 DEF Shutdown, HttpGoes
<1> QED
  BY <1>4, <1>5, <1>6, <1>7, <1>8, <1>9, <1>10, <1>11

(* The end of the process, however it comes.                               *)
LEMMA StopOK ==
  ASSUME LifecycleInv, Up, NEW c \in {"0", "1", "killed"}, Stop(c)
  PROVE  LifecycleInv'
<1>1. /\ main' = "down" /\ code' = c /\ run' = "gone" /\ http' = "gone"
      /\ errCh' = <<>> /\ signalled' = FALSE /\ ended' = {}
      /\ hpc' = [d \in Deliveries |-> IF d \in Working THEN "cut" ELSE hpc[d]]
      /\ interrupted' = interrupted \cup Working
      /\ UNCHANGED <<reconnect, event, registered, insert, late, webhookVars, restarts>>
  BY DEF Stop, Fresh
<1>2. UNCHANGED <<wpc, attempt, posted, heard, lost>>
  BY <1>1 DEF webhookVars
<1>3. WebhookInv'
  BY <1>1, WebhookIdleOK DEF LifecycleInv
<1>4. Working' = {}
  <2>1. \A d \in Deliveries : hpc[d] \in {"idle", "register", "calling", "skipped", "cut"}
    BY DEF LifecycleInv, LifecycleTypeOK
  <2> QED
    BY <1>1, <1>2, <2>1 DEF Working
<1>5. <<>> \in Seq({"nil", "error"}) /\ Len(<<>>) = 0
  OBVIOUS
<1>6. LifecycleTypeOK'
  <2>1. hpc' \in [Deliveries -> {"idle", "register", "calling", "skipped", "cut"}]
    BY <1>1 DEF LifecycleInv, LifecycleTypeOK
  <2>2. /\ errCh' \in Seq({"nil", "error"}) /\ signalled' \in BOOLEAN
        /\ ended' = IF signalled' THEN Deliveries ELSE {}
        /\ main' = "down" /\ code' = c /\ run' = "gone" /\ http' = "gone"
    BY <1>1, <1>5
  <2>3. /\ reconnect' \in BOOLEAN
        /\ event' \in [Deliveries -> Events \cup {NoEvent}]
        /\ registered' \subseteq Events
        /\ insert' \in [Deliveries -> {"none", "new", "duplicate", "failed", "stopped"}]
        /\ late' \in [Deliveries -> Nat] /\ restarts' \in Nat
        /\ interrupted' \subseteq Deliveries
    BY <1>1 DEF LifecycleInv, LifecycleTypeOK, Working
  <2> QED
    BY <2>1, <2>2, <2>3 DEF LifecycleTypeOK
<1>7. ResultsTell'
  BY <1>1, <1>5 DEF ResultsTell, Up
<1>8. \A d \in Deliveries :
        /\ hpc'[d] = hpc[d] \/ (hpc[d] \in {"register", "calling"} /\ hpc'[d] = "cut")
        /\ hpc[d] = "register" => hpc'[d] = "cut"
  BY <1>1 DEF Working
<1>9. InsertsTell'
  BY <1>1, <1>2, <1>4, <1>8 DEF LifecycleInv, InsertsTell
<1>10. LateOnes'
  BY <1>1, <1>2, <1>4, <1>8 DEF LifecycleInv, LateOnes, Up
<1>11. LateEventIsHarmless'
  BY <1>1, <1>2 DEF LifecycleInv, LateEventIsHarmless
<1>12. \A d \in Deliveries \ interrupted' : d \notin interrupted /\ hpc'[d] = hpc[d]
  BY <1>1
<1>13. Undisturbed'
  BY <1>1, <1>2, <1>12 DEF LifecycleInv, Undisturbed
<1> QED
  BY <1>3, <1>6, <1>7, <1>9, <1>10, <1>11, <1>13 DEF LifecycleInv

(* The next process: no handler of the last one works on.                  *)
LEMMA RestartOK ==
  ASSUME LifecycleInv, Restart
  PROVE  LifecycleInv'
<1>1. /\ main = "down" /\ main' = "starting" /\ code' = "none" /\ run' = "connect"
      /\ http' = "serving" /\ restarts' = restarts + 1 /\ restarts \in Nat
      /\ UNCHANGED <<reconnect, signalled, ended, errCh, handlerVars>>
  BY DEF Restart, LifecycleInv, LifecycleTypeOK
<1>2. UNCHANGED <<hpc, event, registered, insert, late, interrupted, webhookVars, wpc, attempt,
                  posted, heard, lost>>
  BY <1>1 DEF handlerVars, webhookVars
<1>3. WebhookInv'
  BY <1>2, WebhookIdleOK DEF LifecycleInv
<1>4. Working' = Working
  BY <1>2 DEF Working
<1>5. ~signalled
  BY <1>1 DEF LifecycleInv, ResultsTell, Up
<1>6. LifecycleTypeOK'
  BY <1>1, <1>2 DEF LifecycleInv, LifecycleTypeOK
<1>7. ResultsTell'
  <2>1. \A i \in 1 .. Len(errCh) : FALSE
    BY <1>1, <1>5 DEF LifecycleInv, ResultsTell, Up
  <2> QED
    BY <1>1, <1>5, <2>1 DEF ResultsTell, Up
<1>8. InsertsTell'
  BY <1>1, <1>2, <1>4 DEF LifecycleInv, InsertsTell
<1>9. LateOnes'
  <2>1. \A d \in Deliveries : late[d] \in Nat /\ late[d] <= restarts + 1
    BY DEF LifecycleInv, LifecycleTypeOK, LateOnes
  <2>2. \A d \in Deliveries : late[d] <= restarts' + 1 /\ late[d] # restarts' + 1
    BY <1>1, <2>1
  <2> QED
    BY <1>1, <1>2, <1>4, <2>2 DEF LifecycleInv, LateOnes
<1>10. LateEventIsHarmless'
  BY <1>2 DEF LifecycleInv, LateEventIsHarmless
<1>11. Undisturbed'
  BY <1>1, <1>2, <1>4 DEF LifecycleInv, Undisturbed
<1> QED
  BY <1>3, <1>6, <1>7, <1>8, <1>9, <1>10, <1>11 DEF LifecycleInv

(* A frame: the handler it starts is new, and the one that is started with *)
(* the context at its end is the last.                                     *)
LEMMA ReadFrameOK ==
  ASSUME LifecycleInv, ReadFrame
  PROVE  LifecycleInv'
<1>0. /\ Up /\ run = "read" /\ run' = "check"
      /\ UNCHANGED <<reconnect, main, code, signalled, ended, errCh, http, restarts>>
  BY DEF ReadFrame, RunGoes, mainVars
<1>1. ResultsTell'
  BY <1>0 DEF LifecycleInv, ResultsTell, Up
<1>n. restarts \in Nat /\ signalled \in BOOLEAN
  BY DEF LifecycleInv, LifecycleTypeOK
<1>2. CASE UNCHANGED handlerVars
  <2>1. LifecycleTypeOK'
    BY <1>0, <1>2, HandlerTypesKept DEF LifecycleInv, LifecycleTypeOK
  <2> QED
    BY <1>0, <1>1, <1>2, <2>1, HandlersKept DEF LifecycleInv, Up
<1>3. CASE ~UNCHANGED handlerVars
  <2>1. PICK d \in Deliveries, e \in Events :
          /\ hpc[d] = "idle"
          /\ hpc' = [hpc EXCEPT ![d] = "register"]
          /\ event' = [event EXCEPT ![d] = e]
          /\ late' = IF signalled THEN [late EXCEPT ![d] = restarts + 1] ELSE late
          /\ UNCHANGED <<registered, insert, interrupted, webhookVars>>
    BY <1>3 DEF ReadFrame
  <2>2. UNCHANGED <<wpc, attempt, posted, heard, lost>>
    BY <2>1 DEF webhookVars
  <2>3. /\ hpc \in [Deliveries -> {"idle", "register", "calling", "skipped", "cut"}]
        /\ event \in [Deliveries -> Events \cup {NoEvent}]
        /\ late \in [Deliveries -> Nat]
    BY DEF LifecycleInv, LifecycleTypeOK
  <2>4. insert[d] = "none" /\ wpc[d] = "idle" /\ late[d] = 0
    BY <2>1 DEF LifecycleInv, InsertsTell, LateOnes
  <2>5. posted[d] = 0
    <3>1. posted[d] \in Nat
      BY DEF LifecycleInv, WebhookInv, WebhookTypeOK
    <3>2. attempt[d] = 0 /\ posted[d] + 0 <= attempt[d]
      BY <2>4 DEF LifecycleInv, WebhookInv, Progress
    <3> QED
      BY <3>1, <3>2
  <2>6. WebhookInv'
    BY <2>1, WebhookIdleOK DEF LifecycleInv
  <2>7. LifecycleTypeOK'
    BY <1>0, <1>n, <2>1, <2>3 DEF LifecycleInv, LifecycleTypeOK
  <2>8. /\ hpc'[d] = "register" /\ event'[d] = e /\ e # NoEvent
        /\ late'[d] = IF signalled THEN restarts + 1 ELSE 0
        /\ \A c \in Deliveries \ {d} :
             hpc'[c] = hpc[c] /\ event'[c] = event[c] /\ late'[c] = late[c]
    BY <2>1, <2>3, <2>4, Frames
  <2>9. \A c \in Deliveries \ {d} : c \in Working' <=> c \in Working
    BY <2>2, <2>8 DEF Working
  <2>10. InsertsTell'
    <3>1. \A c \in Deliveries :
            /\ hpc'[c] = "idle" <=> event'[c] = NoEvent
            /\ hpc'[c] \in {"idle", "register"} => insert'[c] = "none"
            /\ hpc'[c] = "calling" => wpc'[c] # "idle"
            /\ wpc'[c] = "idle" <=> insert'[c] \in {"none", "duplicate"}
            /\ insert'[c] = "new" => event'[c] \in registered'
            /\ insert'[c] = "stopped" => posted'[c] = 0 /\ (c \in Working' => signalled')
      <4> SUFFICES ASSUME NEW c \in Deliveries
                   PROVE  /\ hpc'[c] = "idle" <=> event'[c] = NoEvent
                          /\ hpc'[c] \in {"idle", "register"} => insert'[c] = "none"
                          /\ hpc'[c] = "calling" => wpc'[c] # "idle"
                          /\ wpc'[c] = "idle" <=> insert'[c] \in {"none", "duplicate"}
                          /\ insert'[c] = "new" => event'[c] \in registered'
                          /\ insert'[c] = "stopped" =>
                               posted'[c] = 0 /\ (c \in Working' => signalled')
        OBVIOUS
      <4>1. CASE c = d
        BY <2>1, <2>2, <2>4, <2>8, <4>1
      <4>2. CASE c # d
        BY <1>0, <2>1, <2>2, <2>8, <2>9, <4>2 DEF LifecycleInv, InsertsTell
      <4> QED
        BY <4>1, <4>2
    <3>2. \A d1, d2 \in Deliveries :
            insert'[d1] = "new" /\ insert'[d2] = "new" /\ event'[d1] = event'[d2] => d1 = d2
      BY <2>1, <2>4, <2>8 DEF LifecycleInv, InsertsTell
    <3>3. \A x \in registered' : \E c \in Deliveries :
            event'[c] = x /\ insert'[c] \in {"new", "failed"}
      BY <2>1, <2>4, <2>8 DEF LifecycleInv, InsertsTell
    <3> QED
      BY <3>1, <3>2, <3>3 DEF InsertsTell
  <2>11. LateOnes'
    <3> SUFFICES ASSUME NEW c \in Deliveries
                 PROVE  /\ late'[c] <= restarts' + 1
                        /\ late'[c] = restarts' + 1 /\ Up' =>
                             signalled' /\ run' \in {"check", "over"}
                        /\ late'[c] # 0 =>
                             /\ hpc'[c] # "idle" /\ insert'[c] \in {"none", "stopped"}
                             /\ c \in Working' => signalled'
      BY DEF LateOnes
    <3>1. CASE c = d
      BY <1>0, <1>n, <2>1, <2>4, <2>8, <3>1
    <3>2. CASE c # d
      BY <1>0, <2>1, <2>8, <2>9, <3>2 DEF LifecycleInv, LateOnes, Up
    <3> QED
      BY <3>1, <3>2
  <2>12. LateEventIsHarmless'
    <3>1. \A c \in Deliveries : late[c] # restarts + 1
      BY <1>0 DEF LifecycleInv, LateOnes
    <3>2. \A d1, d2 \in Deliveries : late'[d1] # 0 /\ late'[d1] = late'[d2] => d1 = d2
      BY <2>8, <3>1 DEF LifecycleInv, LateEventIsHarmless
    <3>3. \A c \in Deliveries : late'[c] # 0 => posted'[c] = 0
      BY <2>2, <2>5, <2>8 DEF LifecycleInv, LateEventIsHarmless
    <3>4. \A x \in registered' : \E c \in Deliveries : event'[c] = x /\ late'[c] = 0
      <4> SUFFICES ASSUME NEW x \in registered'
                   PROVE  \E c \in Deliveries : event'[c] = x /\ late'[c] = 0
        OBVIOUS
      <4>1. PICK c \in Deliveries : event[c] = x /\ insert[c] \in {"new", "failed"}
        BY <2>1 DEF LifecycleInv, InsertsTell
      <4>2. c # d /\ late[c] = 0
        BY <2>4, <4>1 DEF LifecycleInv, LateOnes
      <4> QED
        BY <2>8, <4>1, <4>2
    <3> QED
      BY <3>2, <3>3, <3>4 DEF LateEventIsHarmless
  <2>13. Undisturbed'
    <3> SUFFICES ASSUME NEW c \in Deliveries \ interrupted',
                        insert'[c] \in {"new", "failed"}, wpc'[c] # "ok",
                        c \in Working' => ~signalled'
                 PROVE  /\ hpc'[c] = "calling" /\ wpc'[c] # "cancelled"
                        /\ posted'[c] = attempt'[c] - (IF wpc'[c] = "start" THEN 1 ELSE 0)
                        /\ wpc'[c] = "failed" => attempt'[c] = MaxAttempts
      BY DEF Undisturbed
    <3>1. CASE c = d
      BY <1>0, <1>n, <2>1, <2>2, <2>4, <2>8, <3>1
    <3>2. CASE c # d
      BY <1>0, <2>1, <2>2, <2>8, <2>9, <3>2 DEF LifecycleInv, Undisturbed
    <3> QED
      BY <3>1, <3>2
  <2> QED
    BY <1>1, <2>6, <2>7, <2>10, <2>11, <2>12, <2>13 DEF LifecycleInv
<1> QED
  BY <1>2, <1>3

(* What a step of one handler leaves alone.                                *)
LEMMA OneHandler ==
  ASSUME LifecycleInv, NEW d \in Deliveries, Handle(d)
  PROVE  /\ UNCHANGED <<reconnect, main, code, signalled, ended, errCh, run, http, restarts,
                        event, late>>
         /\ Up /\ Up' /\ hpc[d] \in {"register", "calling"}
         /\ ResultsTell'
<1>1. UNCHANGED <<reconnect, main, code, signalled, ended, errCh, run, http,
                  restarts, event, late>>
  BY DEF Handle, Register, CallWebhook, mainVars
<1>2. Up /\ hpc[d] \in {"register", "calling"}
  BY DEF Handle, Register, CallWebhook
<1>3. ResultsTell'
  BY <1>1 DEF LifecycleInv, ResultsTell, Up
<1> QED
  BY <1>1, <1>2, <1>3 DEF Up

(* The insert.                                                             *)
LEMMA RegisterOK ==
  ASSUME LifecycleInv, NEW d \in Deliveries, Handle(d), Register(d)
  PROVE  LifecycleInv'
<1>0. /\ UNCHANGED <<reconnect, main, code, signalled, ended, errCh, run, http, restarts,
                     event, late>>
      /\ Up /\ Up' /\ ResultsTell' /\ hpc[d] = "register" /\ interrupted' = interrupted
  BY OneHandler DEF Register
<1>t. /\ hpc \in [Deliveries -> {"idle", "register", "calling", "skipped", "cut"}]
      /\ event \in [Deliveries -> Events \cup {NoEvent}] /\ event[d] \in Events
      /\ insert \in [Deliveries -> {"none", "new", "duplicate", "failed", "stopped"}]
      /\ registered \subseteq Events
      /\ ended = IF signalled THEN Deliveries ELSE {}
  <2>1. hpc[d] # "idle"
    BY <1>0
  <2> QED
    BY <2>1 DEF LifecycleInv, LifecycleTypeOK, InsertsTell
<1>1. insert[d] = "none" /\ wpc[d] = "idle"
  BY <1>0 DEF LifecycleInv, InsertsTell
<1>2. attempt[d] = 0 /\ posted[d] = 0
  <2>1. posted[d] \in Nat /\ attempt[d] = 0 /\ posted[d] + 0 <= attempt[d]
    BY <1>1 DEF LifecycleInv, WebhookInv, WebhookTypeOK, Progress
  <2> QED
    BY <2>1
<1>3. PICK r \in {"new", "duplicate", "failed", "stopped"} :
        /\ Goes(d, r)
        /\ registered' \in {registered, registered \cup {event[d]}}
        /\ r = "new" => event[d] \notin registered /\ event[d] \in registered'
        /\ r = "duplicate" => event[d] \in registered
        /\ r = "stopped" => registered' = registered /\ signalled
        /\ r # "stopped" => ~signalled
  BY <1>0, <1>t DEF Register, InsertRuns, IsNew
<1>4. /\ insert' = [insert EXCEPT ![d] = r]
      /\ hpc' = [hpc EXCEPT ![d] = IF r = "duplicate" THEN "skipped" ELSE "calling"]
      /\ r = "duplicate" => UNCHANGED webhookVars
      /\ r # "duplicate" => Call(d)
  BY <1>3 DEF Goes
<1>5. WebhookInv'
  BY <1>4, CallOK, WebhookIdleOK DEF LifecycleInv
<1>6. /\ posted' = posted
      /\ wpc'[d] = IF r = "duplicate" THEN "idle" ELSE "start"
      /\ attempt'[d] = IF r = "duplicate" THEN 0 ELSE 1
      /\ \A c \in Deliveries \ {d} : wpc'[c] = wpc[c] /\ attempt'[c] = attempt[c]
  <2>1. CASE r = "duplicate"
    BY <1>1, <1>2, <1>4, <2>1 DEF webhookVars
  <2>2. CASE r # "duplicate"
    <3>1. Call(d) /\ wpc \in [Deliveries -> WebhookPCs] /\ attempt \in [Deliveries -> 0 .. MaxAttempts]
      BY <1>4, <2>2 DEF LifecycleInv, WebhookInv, WebhookTypeOK
    <3> QED
      BY <2>2, <3>1 DEF Call, GoTo
  <2> QED
    BY <2>1, <2>2
<1>7. /\ insert'[d] = r /\ hpc'[d] = IF r = "duplicate" THEN "skipped" ELSE "calling"
      /\ \A c \in Deliveries \ {d} : insert'[c] = insert[c] /\ hpc'[c] = hpc[c]
  BY <1>t, <1>4
<1>8. \A c \in Deliveries \ {d} : c \in Working' <=> c \in Working
  BY <1>6, <1>7 DEF Working
<1>9. LifecycleTypeOK'
  <2>1. /\ hpc' \in [Deliveries -> {"idle", "register", "calling", "skipped", "cut"}]
        /\ insert' \in [Deliveries -> {"none", "new", "duplicate", "failed", "stopped"}]
        /\ registered' \subseteq Events
    BY <1>t, <1>3, <1>4
  <2> QED
    BY <1>0, <2>1 DEF LifecycleInv, LifecycleTypeOK
<1>10. InsertsTell'
  <2>1. ASSUME NEW c \in Deliveries
        PROVE  /\ hpc'[c] = "idle" <=> event'[c] = NoEvent
               /\ hpc'[c] \in {"idle", "register"} => insert'[c] = "none"
               /\ hpc'[c] = "calling" => wpc'[c] # "idle"
               /\ wpc'[c] = "idle" <=> insert'[c] \in {"none", "duplicate"}
               /\ insert'[c] = "new" => event'[c] \in registered'
               /\ insert'[c] = "stopped" => posted'[c] = 0 /\ (c \in Working' => signalled')
    <3>1. CASE c = d
      BY <1>0, <1>t, <1>2, <1>3, <1>6, <1>7, <3>1, Frames
    <3>2. CASE c # d
      <4>1. registered \subseteq registered'
        BY <1>3
      <4> QED
        BY <1>0, <1>6, <1>7, <1>8, <3>2, <4>1 DEF LifecycleInv, InsertsTell
    <3> QED
      BY <3>1, <3>2
  <2>2. \A d1, d2 \in Deliveries :
          insert'[d1] = "new" /\ insert'[d2] = "new" /\ event'[d1] = event'[d2] => d1 = d2
    BY <1>0, <1>3, <1>7 DEF LifecycleInv, InsertsTell
  <2>3. ASSUME NEW x \in registered'
        PROVE  \E c \in Deliveries : event'[c] = x /\ insert'[c] \in {"new", "failed"}
    <3>1. CASE x \in registered
      <4>1. PICK c \in Deliveries : event[c] = x /\ insert[c] \in {"new", "failed"}
        BY <3>1 DEF LifecycleInv, InsertsTell
      <4>2. c # d
        BY <1>1, <4>1
      <4> QED
        BY <1>0, <1>7, <4>1, <4>2
    <3>2. CASE x \notin registered
      <4>1. x = event[d] /\ r \in {"new", "failed"}
        BY <1>3, <3>2
      <4> QED
        BY <1>0, <1>7, <4>1
    <3> QED
      BY <3>1, <3>2
  <2> QED
    BY <2>1, <2>2, <2>3 DEF InsertsTell
<1>11. LateOnes'
  <2> SUFFICES ASSUME NEW c \in Deliveries
               PROVE  /\ late'[c] <= restarts' + 1
                      /\ late'[c] = restarts' + 1 /\ Up' =>
                           signalled' /\ run' \in {"check", "over"}
                      /\ late'[c] # 0 =>
                           /\ hpc'[c] # "idle" /\ insert'[c] \in {"none", "stopped"}
                           /\ c \in Working' => signalled'
    BY DEF LateOnes
  <2>1. CASE c = d
    <3>1. d \in Working
      BY <1>0 DEF Working
    <3>2. late[d] # 0 => signalled
      BY <3>1 DEF LifecycleInv, LateOnes
    <3> QED
      BY <1>0, <1>3, <1>7, <2>1, <3>2 DEF LifecycleInv, LateOnes
  <2>2. CASE c # d
    BY <1>0, <1>7, <1>8, <2>2 DEF LifecycleInv, LateOnes
  <2> QED
    BY <2>1, <2>2
<1>12. LateEventIsHarmless'
  <2>1. \A x \in registered' : \E c \in Deliveries : event'[c] = x /\ late'[c] = 0
    BY <1>10, <1>11 DEF InsertsTell, LateOnes
  <2> QED
    BY <1>0, <1>6, <2>1 DEF LifecycleInv, LateEventIsHarmless
<1>13. Undisturbed'
  <2> SUFFICES ASSUME NEW c \in Deliveries \ interrupted',
                      insert'[c] \in {"new", "failed"}, wpc'[c] # "ok",
                      c \in Working' => ~signalled'
               PROVE  /\ hpc'[c] = "calling" /\ wpc'[c] # "cancelled"
                      /\ posted'[c] = attempt'[c] - (IF wpc'[c] = "start" THEN 1 ELSE 0)
                      /\ wpc'[c] = "failed" => attempt'[c] = MaxAttempts
    BY DEF Undisturbed
  <2>1. CASE c = d
    BY <1>0, <1>2, <1>3, <1>6, <1>7, <2>1
  <2>2. CASE c # d
    BY <1>0, <1>6, <1>7, <1>8, <2>2 DEF LifecycleInv, Undisturbed
  <2> QED
    BY <2>1, <2>2
<1> QED
  BY <1>0, <1>5, <1>9, <1>10, <1>11, <1>12, <1>13 DEF LifecycleInv

(* What a step of a delivery does to it, and that it does nothing else.    *)
LEMMA DeliverySteps ==
  ASSUME WebhookInv, NEW d \in Deliveries, WebhookStep(d)
  PROVE  /\ wpc[d] \in {"start", "posting", "delay"}
         /\ wpc'[d] # "idle"
         /\ d \in ended => posted'[d] = posted[d]
         /\ posted[d] = 0 => wpc[d] # "posting"
         /\ d \notin ended =>
              /\ wpc'[d] # "cancelled"
              /\ posted[d] = attempt[d] - (IF wpc[d] = "start" THEN 1 ELSE 0) =>
                   posted'[d] = attempt'[d] - (IF wpc'[d] = "start" THEN 1 ELSE 0)
         /\ wpc'[d] = "failed" => attempt'[d] = MaxAttempts
         /\ wpc'[d] = "cancelled" => wpc[d] = "delay"
         /\ \A c \in Deliveries \ {d} :
              wpc'[c] = wpc[c] /\ attempt'[c] = attempt[c] /\ posted'[c] = posted[c]
<1>1. /\ wpc \in [Deliveries -> WebhookPCs] /\ attempt \in [Deliveries -> 0 .. MaxAttempts]
      /\ posted \in [Deliveries -> 0 .. MaxAttempts] /\ lost[d] \in Nat
      /\ wpc[d] = "posting" => lost[d] + 1 <= posted[d]
      /\ attempt[d] \in Nat /\ posted[d] \in Nat
  BY WebhookAssumption DEF WebhookInv, WebhookTypeOK, Progress, WebhookAssumption
<1>2. posted[d] = 0 => wpc[d] # "posting"
  BY <1>1
<1>f. ASSUME Failed(d)
      PROVE  /\ attempt' = attempt
             /\ \/ wpc' = [wpc EXCEPT ![d] = "failed"] /\ attempt[d] = MaxAttempts
                \/ wpc' = [wpc EXCEPT ![d] = "delay"]
  BY <1>f DEF Failed, Spent, GoTo
<1>3. CASE Post(d)
  <2>1. CASE d \in ended
    BY <1>1, <1>2, <1>f, <1>3, <2>1 DEF Post
  <2>2. CASE d \notin ended
    BY <1>1, <1>2, <1>3, <2>2 DEF Post, GoTo
  <2> QED
    BY <2>1, <2>2
<1>4. CASE Delivered(d)
  BY <1>1, <1>2, <1>4 DEF Delivered, GoTo
<1>5. CASE Refused(d)
  BY <1>1, <1>2, <1>f, <1>5 DEF Refused
<1>6. CASE AnswerLost(d)
  BY <1>1, <1>2, <1>f, <1>6 DEF AnswerLost
<1>7. CASE Again(d)
  BY <1>1, <1>2, <1>7 DEF Again, GoTo
<1>8. CASE GiveUp(d)
  BY <1>1, <1>2, <1>8 DEF GiveUp, GoTo
<1> QED
  BY <1>3, <1>4, <1>5, <1>6, <1>7, <1>8 DEF WebhookStep

(* The webhook.                                                            *)
LEMMA CallWebhookOK ==
  ASSUME LifecycleInv, NEW d \in Deliveries, Handle(d), CallWebhook(d)
  PROVE  LifecycleInv'
<1>0. /\ UNCHANGED <<reconnect, main, code, signalled, ended, errCh, run, http, restarts,
                     hpc, event, registered, insert, late>>
      /\ Up /\ Up' /\ ResultsTell' /\ hpc[d] = "calling" /\ WebhookStep(d)
  BY OneHandler DEF CallWebhook
<1>1. WebhookInv /\ WebhookInv' /\ ended = IF signalled THEN Deliveries ELSE {}
  BY <1>0, WebhookStepOK DEF LifecycleInv, LifecycleTypeOK
<1>2. /\ wpc[d] \in {"start", "posting", "delay"}
      /\ wpc'[d] # "idle"
      /\ signalled => posted'[d] = posted[d]
      /\ ~signalled =>
           /\ wpc'[d] # "cancelled"
           /\ posted[d] = attempt[d] - (IF wpc[d] = "start" THEN 1 ELSE 0) =>
                posted'[d] = attempt'[d] - (IF wpc'[d] = "start" THEN 1 ELSE 0)
      /\ wpc'[d] = "failed" => attempt'[d] = MaxAttempts
      /\ wpc'[d] = "cancelled" => wpc[d] = "delay"
      /\ \A c \in Deliveries \ {d} :
           wpc'[c] = wpc[c] /\ attempt'[c] = attempt[c] /\ posted'[c] = posted[c]
  BY <1>0, <1>1, DeliverySteps
<1>3. d \in Working
  BY <1>0, <1>2 DEF Working, Results
<1>4. \A c \in Deliveries \ {d} : c \in Working' <=> c \in Working
  BY <1>0, <1>2 DEF Working
<1>g. /\ interrupted \subseteq interrupted' /\ interrupted' \subseteq interrupted \cup {d}
      /\ d \notin interrupted' /\ signalled =>
           ~(wpc'[d] \in {"failed", "cancelled"} /\ posted'[d] < MaxAttempts)
  BY <1>1 DEF CallWebhook, GivenUp
<1>5. LifecycleTypeOK'
  BY <1>0, <1>g DEF LifecycleInv, LifecycleTypeOK
<1>6. InsertsTell'
  <2>1. ASSUME NEW c \in Deliveries
        PROVE  /\ hpc'[c] = "idle" <=> event'[c] = NoEvent
               /\ hpc'[c] \in {"idle", "register"} => insert'[c] = "none"
               /\ hpc'[c] = "calling" => wpc'[c] # "idle"
               /\ wpc'[c] = "idle" <=> insert'[c] \in {"none", "duplicate"}
               /\ insert'[c] = "new" => event'[c] \in registered'
               /\ insert'[c] = "stopped" => posted'[c] = 0 /\ (c \in Working' => signalled')
    <3>1. CASE c = d
      BY <1>0, <1>2, <1>3, <3>1 DEF LifecycleInv, InsertsTell
    <3>2. CASE c # d
      BY <1>0, <1>2, <1>4, <3>2 DEF LifecycleInv, InsertsTell
    <3> QED
      BY <3>1, <3>2
  <2> QED
    BY <1>0, <2>1 DEF LifecycleInv, InsertsTell
<1>7. LateOnes'
  BY <1>0, <1>3, <1>4 DEF LifecycleInv, LateOnes
<1>8. LateEventIsHarmless'
  <2>1. \A c \in Deliveries : late'[c] # 0 => posted'[c] = 0
    BY <1>0, <1>2, <1>3 DEF LifecycleInv, LateEventIsHarmless, LateOnes
  <2> QED
    BY <1>0, <2>1 DEF LifecycleInv, LateEventIsHarmless
<1>9. Undisturbed'
  <2> SUFFICES ASSUME NEW c \in Deliveries \ interrupted',
                      insert'[c] \in {"new", "failed"}, wpc'[c] # "ok",
                      c \in Working' => ~signalled'
               PROVE  /\ hpc'[c] = "calling" /\ wpc'[c] # "cancelled"
                      /\ posted'[c] = attempt'[c] - (IF wpc'[c] = "start" THEN 1 ELSE 0)
                      /\ wpc'[c] = "failed" => attempt'[c] = MaxAttempts
    BY DEF Undisturbed
  <2>1. CASE c = d /\ ~signalled
    BY <1>0, <1>2, <1>3, <1>g, <2>1 DEF LifecycleInv, Undisturbed
  <2>2. CASE c = d /\ signalled
    <3>1. wpc'[d] \in {"failed", "cancelled"}
      BY <1>0, <1>2, <2>2 DEF Working, Results
    <3>2. ~(posted'[d] < MaxAttempts)
      BY <1>g, <2>2, <3>1
    <3>3. /\ posted[d] \in Nat /\ posted[d] <= MaxAttempts /\ posted'[d] = posted[d]
          /\ MaxAttempts \in Nat
          /\ wpc[d] = "delay" => posted[d] < MaxAttempts
      BY <1>1, <1>2, <2>2, WebhookAssumption
         DEF WebhookInv, WebhookTypeOK, Progress, WebhookAssumption
    <3>4. posted'[d] = MaxAttempts /\ wpc'[d] = "failed"
      BY <1>2, <3>1, <3>2, <3>3
    <3> QED
      BY <1>0, <1>2, <2>2, <3>3, <3>4
  <2>3. CASE c # d
    BY <1>0, <1>2, <1>4, <1>g, <2>3 DEF LifecycleInv, Undisturbed
  <2> QED
    BY <2>1, <2>2, <2>3
<1> QED
  BY <1>0, <1>1, <1>5, <1>6, <1>7, <1>8, <1>9 DEF LifecycleInv

(* The inductive invariant: every step keeps it.                           *)
LEMMA StepsOK ==
  ASSUME LifecycleInv, [Next]_vars
  PROVE  LifecycleInv'
<1>1. CASE Signal \/ Select
  BY <1>1, MainOK
<1>2. CASE Exit \/ Kill
  <2>1. PICK c \in {"0", "1", "killed"} : Up /\ Stop(c)
    BY <1>2 DEF Exit, Kill, Up
  <2> QED
    BY <2>1, StopOK
<1>3. CASE Restart
  BY <1>3, RestartOK
<1>4. CASE RunStep \/ HttpStep
  BY <1>4, GoroutinesOK, ReadFrameOK DEF RunStep, HttpStep
<1>5. CASE \E d \in Deliveries : Handle(d)
  BY <1>5, RegisterOK, CallWebhookOK DEF Handle
<1>6. CASE UNCHANGED vars
  <2>1. /\ UNCHANGED <<reconnect, main, code, signalled, ended, errCh, run, http,
                       restarts, hpc,
                       event, registered, insert, late, interrupted, webhookVars>>
        /\ UNCHANGED <<wpc, attempt, posted, heard, lost>>
    BY <1>6 DEF vars, mainVars, handlerVars, webhookVars
  <2>2. WebhookInv'
    BY <2>1, WebhookIdleOK DEF LifecycleInv
  <2>3. Up' = Up /\ Working' = Working
    BY <2>1 DEF Up, Working
  <2>4. LifecycleTypeOK' /\ ResultsTell'
    BY <2>1, <2>3 DEF LifecycleInv, LifecycleTypeOK, ResultsTell
  <2>5. InsertsTell' /\ LateOnes'
    BY <2>1, <2>3 DEF LifecycleInv, InsertsTell, LateOnes
  <2>6. LateEventIsHarmless' /\ Undisturbed'
    BY <2>1, <2>3 DEF LifecycleInv, LateEventIsHarmless, Undisturbed
  <2> QED
    BY <2>2, <2>4, <2>5, <2>6 DEF LifecycleInv
<1> QED
  BY <1>1, <1>2, <1>3, <1>4, <1>5, <1>6 DEF Next, MainStep

(* It holds of every reachable state.                                      *)
THEOREM LifecycleInductive == Spec => []LifecycleInv
<1>1. Init => LifecycleInv
  <2> SUFFICES ASSUME Init PROVE LifecycleInv
    OBVIOUS
  <2>1. WebhookInv
    BY WebhookInitOK DEF Init
  <2>2. \A d \in Deliveries : /\ wpc[d] = "idle" /\ posted[d] = 0 /\ hpc[d] = "idle"
                             /\ event[d] = NoEvent /\ insert[d] = "none" /\ late[d] = 0
    BY DEF Init, WebhookInit
  <2>3. <<>> \in Seq({"nil", "error"}) /\ Len(<<>>) = 0
    OBVIOUS
  <2>4. LifecycleTypeOK
    BY <2>3 DEF Init, LifecycleTypeOK
  <2>5. ResultsTell
    BY <2>3 DEF Init, ResultsTell, Up
  <2>6. InsertsTell
    BY <2>2 DEF Init, InsertsTell
  <2>7. LateOnes /\ LateEventIsHarmless /\ Undisturbed
    BY <2>2 DEF Init, LateOnes, LateEventIsHarmless, Undisturbed
  <2> QED
    BY <2>1, <2>4, <2>5, <2>6, <2>7 DEF LifecycleInv
<1> QED
  BY <1>1, StepsOK, PTL DEF Spec

(* The exit code tells whether the process was asked to stop or failed.    *)
THEOREM ExitCodesTell == Spec => ExitTells
<1>1. LifecycleInv /\ Exit => \/ code' = "0" /\ signalled
                              \/ code' = "1" /\ (http = "failed" \/ (run = "failed" /\ ~reconnect))
  BY DEF LifecycleInv, ResultsTell, Exit, Stop, Up
<1> QED
  BY <1>1, LifecycleInductive, PTL DEF ExitTells

(* One late event at the most, and it is neither posted nor used up.       *)
THEOREM LateEventsAreHarmless == Spec => []LateEventIsHarmless
<1>1. LifecycleInv => LateEventIsHarmless
  BY DEF LifecycleInv
<1> QED
  BY <1>1, LifecycleInductive, PTL

(* One handler of an event asks the webhook, across restarts.              *)
THEOREM OneAsks == Spec => []AskedByOne
<1>1. LifecycleInv => AskedByOne
  <2> SUFFICES ASSUME LifecycleInv, NEW d1 \in Deliveries, NEW d2 \in Deliveries,
                      event[d1] = event[d2], posted[d1] > 0, posted[d2] > 0
               PROVE  d1 = d2 \/ insert[d1] = "failed" \/ insert[d2] = "failed"
    BY DEF AskedByOne
  <2>1. ASSUME NEW d \in Deliveries, posted[d] > 0
        PROVE  insert[d] \in {"new", "failed"}
    <3>1. wpc[d] # "idle"
      <4>1. attempt[d] \in Nat /\ posted[d] \in Nat
            /\ (wpc[d] = "idle" => attempt[d] = 0 /\ posted[d] + 0 <= attempt[d])
        BY DEF LifecycleInv, WebhookInv, WebhookTypeOK, Progress
      <4> QED
        BY <2>1, <4>1
    <3>2. insert[d] # "stopped"
      BY <2>1 DEF LifecycleInv, InsertsTell
    <3> QED
      BY <3>1, <3>2 DEF LifecycleInv, InsertsTell, LifecycleTypeOK
  <2> QED
    BY <2>1 DEF LifecycleInv, InsertsTell
<1> QED
  BY <1>1, LifecycleInductive, PTL

(* What an event that nobody heard of was lost to, in whichever process.   *)
THEOREM LossesAreExplained == Spec => []LossExplained
<1>1. LifecycleInv => LossExplained
  <2> SUFFICES ASSUME LifecycleInv, NEW e \in registered
               PROVE  \E d \in Deliveries :
                        /\ event[d] = e
                        /\ d \in Working \cup interrupted \/ heard[d] > 0 \/ posted[d] = MaxAttempts
    BY DEF LossExplained
  <2>1. PICK d \in Deliveries : event[d] = e /\ insert[d] \in {"new", "failed"}
    BY DEF LifecycleInv, InsertsTell
  <2>2. CASE d \in Working \cup interrupted
    BY <2>1, <2>2
  <2>o. CASE wpc[d] = "ok"
    <3>1. heard[d] = lost[d] + 1 /\ lost[d] \in Nat
      BY <2>o DEF LifecycleInv, WebhookInv, WebhookTypeOK, RepeatsAreLostAnswers
    <3> QED
      BY <2>1, <3>1
  <2> SUFFICES ASSUME d \notin Working \cup interrupted, wpc[d] # "ok"
               PROVE  event[d] = e /\ posted[d] = MaxAttempts
    BY <2>2, <2>o
  <2>3. /\ hpc[d] = "calling" /\ wpc[d] # "cancelled"
        /\ posted[d] = attempt[d] - (IF wpc[d] = "start" THEN 1 ELSE 0)
        /\ wpc[d] = "failed" => attempt[d] = MaxAttempts
    BY <2>1 DEF LifecycleInv, Undisturbed
  <2>4. wpc[d] = "failed"
    BY <2>3 DEF Working, Results
  <2>5. MaxAttempts \in Nat
    BY WebhookAssumption DEF WebhookAssumption
  <2> QED
    BY <2>1, <2>3, <2>4, <2>5
<1> QED
  BY <1>1, LifecycleInductive, PTL
==============================================================================
