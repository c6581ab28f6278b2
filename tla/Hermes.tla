------------------------------- MODULE Hermes -------------------------------
(***************************************************************************)
(* POST /v1/hermes/send: the goroutine runHermesAndCallback that answers   *)
(* for a 202, with the client of internal/hermes that runs its command in  *)
(* a terminal (ttyd) and the delivery of the result by internal/webhook.   *)
(* Jobs share nothing, so one is modelled.                                 *)
(*                                                                         *)
(* Time is a clock that starts with the job.  A wait is over at limit at   *)
(* the latest: Tick cannot pass it.  What does not wait takes no time,     *)
(* the two writes to the terminal included: the code sets no deadline for  *)
(* them.                                                                   *)
(***************************************************************************)
EXTENDS Webhook, Sequences

CONSTANTS
  Job,            \* the one delivery
  HermesTimeout,  \* HERMES_TIMEOUT_SECONDS
  Grace,          \* the five seconds the context of the job adds to it
  WebhookTimeout, \* WEBHOOK_TIMEOUT_SECONDS
  RetryDelay,     \* HTTP_RETRY_DELAY_MS
  MaxFrames       \* bound: frames the terminal sends

ASSUME HermesAssumption ==
  /\ Deliveries = {Job}
  /\ HermesTimeout \in Nat \ {0} /\ WebhookTimeout \in Nat \ {0}
  /\ Grace \in Nat \ {0} /\ RetryDelay \in Nat /\ MaxFrames \in Nat

VARIABLES
  validUrl, basic,  \* configuration: HERMES_WS_URL parses; credentials are set
  pc,               \* the goroutine of the job
  clock, limit,     \* time since it started; when its present wait ends
  ways,             \* dialWithAuthFallback: the attempts left
  chunks,           \* the kinds of text collected from the terminal
  verdict,          \* result["code"]
  decided,          \* when it was reached
  term, closing,    \* the terminal: what it does with the command; its connection
  wire, frames,     \* frames on their way; how many were sent
  echoes            \* the terminal echoes what is typed

configVars == <<validUrl, basic, echoes>>
terminalVars == <<term, closing, frames>>
jobVars == <<pc, limit, ways, chunks, verdict, decided>>
vars == <<configVars, terminalVars, wire, jobVars, clock, ended, webhookVars>>

(* The context of the job: it bounds dialling and the callback, not the    *)
(* reads from the terminal.                                                *)
Deadline == HermesTimeout + Grace

Earlier(s, t) == IF s <= t THEN s ELSE t

Init ==
  /\ validUrl \in BOOLEAN /\ basic \in BOOLEAN /\ echoes \in BOOLEAN
  /\ pc = "idle"
  /\ clock = 0 /\ limit = 0 /\ ended = {}
  /\ ways = <<>>
  /\ chunks = {}
  /\ verdict = "none" /\ decided = 0
  /\ term = "off" /\ closing = "open"
  /\ wire = <<>> /\ frames = 0
  /\ WebhookInit

Wait(p, until) == pc' = p /\ limit' = until

BugDecide(v) ==                           \* the code of a failure is not set
  Wait("callback", clock) /\ decided' = clock /\ wire' = <<>> /\ Call(Job)
    /\ verdict' = (IF v = "ok" THEN v ELSE verdict)
(* SendCommand has returned and closed its connection, what was unread is  *)
(* gone; the callback is sent in any case.                                 *)
Decide(v) ==
  /\ Wait("callback", clock)
  /\ verdict' = v
  /\ decided' = clock
  /\ wire' = <<>>
  /\ Call(Job)

Undecided == UNCHANGED <<verdict, decided, wire, webhookVars>>

-----------------------------------------------------------------------------
(* handleHermesSend answers 202; a request it refuses changes nothing.     *)
Accept ==
  /\ pc = "idle"
  /\ Wait("start", clock)
  /\ Undecided
  /\ UNCHANGED <<configVars, terminalVars, clock, ended, ways, chunks>>

(* normalizeWSURL                                                          *)
Start ==
  /\ pc = "start"
  /\ IF validUrl THEN Wait("token", clock + HermesTimeout) /\ Undecided ELSE Decide("failed")
  /\ UNCHANGED <<configVars, terminalVars, clock, ended, ways, chunks>>

(* The attempts of dialWithAuthFallback, in their order.                   *)
Ways(b, token) ==
  LET w == (IF b THEN <<"basic">> ELSE <<>>)
             \o (IF token THEN <<"token">> ELSE <<>>)
             \o (IF b /\ token THEN <<"token+basic">> ELSE <<>>)
  IN IF w = <<>> THEN <<"plain">> ELSE w

BugDialUntil == clock + HermesTimeout     \* Dial in the place of DialContext
DialUntil == Earlier(clock + HermesTimeout, Deadline)

(* fetchToken has an answer, an error or its timeout; errors are ignored.  *)
FetchToken ==
  /\ pc = "token"
  /\ \E token \in BOOLEAN : ways' = Ways(basic, token)
  /\ Wait("dial", DialUntil)
  /\ Undecided
  /\ UNCHANGED <<configVars, terminalVars, clock, ended, chunks>>

DialOK ==
  /\ pc = "dial"
  /\ Job \notin ended
  /\ Wait("setup", clock)
  /\ term' = "prompt"
  /\ Undecided
  /\ UNCHANGED <<configVars, closing, frames, clock, ended, ways, chunks>>

DialFail ==
  /\ pc = "dial"
  /\ ways' = Tail(ways)
  /\ IF Tail(ways) = <<>> THEN Decide("failed") ELSE Wait("dial", DialUntil) /\ Undecided
  /\ UNCHANGED <<configVars, terminalVars, clock, ended, chunks>>

(* initializeTTY and sendCommandWithFallback.  A connection that failed to *)
(* write once fails again, so their second candidates are never sent.      *)
Setup ==
  /\ pc = "setup"
  /\ \/ /\ term' = "running"
        /\ Wait("read", clock + HermesTimeout)
        /\ Undecided
     \/ Decide("failed") /\ UNCHANGED term
  /\ UNCHANGED <<configVars, closing, frames, clock, ended, ways, chunks>>

(* Both the exit line and the echo of the command contain the marker.      *)
(* Chunks are joined by newlines, so an exit line cut in two never does.   *)
BugMarked(c) == c # {}
Marked(c) == c \cap {"exit", "echo"} # {}

Read ==
  /\ pc = "read"
  /\ wire # <<>>
  /\ chunks' = chunks \cup ({Head(wire)} \ {"blank"})
  /\ \/ Marked(chunks') /\ Decide("ok")
     \/ /\ ~Marked(chunks')
        /\ wire' = Tail(wire)
        /\ UNCHANGED <<pc, limit, verdict, decided, webhookVars>>
  /\ UNCHANGED <<configVars, term, closing, frames, clock, ended, ways>>

(* isUnexpectedClose: going away or abnormal, an EOF among them; neither   *)
(* a normal closure, nor a broken connection, nor the deadline.            *)
UnexpectedClose == closing = "abnormal"

ReadClosed ==
  /\ pc = "read"
  /\ wire = <<>> /\ closing # "open"
  /\ Decide(IF chunks # {} /\ UnexpectedClose THEN "ok" ELSE "failed")
  /\ UNCHANGED <<configVars, terminalVars, clock, ended, ways, chunks>>

BugExpired == FALSE                       \* no SetReadDeadline
Expired == clock = limit

ReadTimeout ==
  /\ pc = "read"
  /\ Expired
  /\ Decide("failed")
  /\ UNCHANGED <<configVars, terminalVars, clock, ended, ways, chunks>>

-----------------------------------------------------------------------------
(* When the wait of the callback that begins now is over.                  *)
HookUntil ==
  CASE wpc'[Job] = "posting" -> Earlier(clock + WebhookTimeout, Deadline)
    [] wpc'[Job] = "delay" -> clock + RetryDelay * attempt[Job]
    [] OTHER -> clock

Callback ==
  /\ pc = "callback"
  /\ WebhookStep(Job)
  /\ wpc[Job] = "delay" /\ wpc'[Job] = "start" => clock >= limit
  /\ limit' = HookUntil
  /\ UNCHANGED <<configVars, terminalVars, wire, pc, clock, ended, ways, chunks, verdict, decided>>

Return ==
  /\ pc = "callback"
  /\ wpc[Job] \in Results
  /\ pc' = "done"
  /\ Undecided
  /\ UNCHANGED <<configVars, terminalVars, clock, ended, limit, ways, chunks>>

(* The process stops: the job was nowhere but in its goroutine.            *)
Exit ==
  /\ pc \notin {"idle", "done", "cut"}
  /\ pc' = "cut"
  /\ Undecided
  /\ UNCHANGED <<configVars, terminalVars, clock, ended, limit, ways, chunks>>

-----------------------------------------------------------------------------
(* The terminal sends a frame: a title or a prompt, blanks, the echo of    *)
(* the command, its output, the exit line in one frame or in two.          *)
Sends(f) ==
  /\ pc \in {"setup", "read"} /\ closing = "open"
  /\ frames < MaxFrames
  /\ frames' = frames + 1
  /\ wire' = Append(wire, f)
  /\ UNCHANGED <<configVars, jobVars, closing, clock, ended, webhookVars>>

Chatter ==
  /\ \/ Sends("notice") \/ Sends("blank")
     \/ term = "running" /\ Sends("output")
     \/ term = "running" /\ echoes /\ Sends("echo")
  /\ UNCHANGED term

Finish ==
  \/ term = "running" /\ Sends("exit") /\ term' = "finished"
  \/ term = "running" /\ Sends("head") /\ term' = "exiting"
  \/ term = "exiting" /\ Sends("tail") /\ term' = "finished"

Close ==
  /\ pc \in {"setup", "read"} /\ closing = "open"
  /\ closing' \in {"abnormal", "other"}
  /\ UNCHANGED <<configVars, jobVars, term, wire, frames, clock, ended, webhookVars>>

Waiting ==
  /\ clock < limit
  /\ \/ pc \in {"token", "dial", "read"}
     \/ pc = "callback" /\ wpc[Job] = "posting"
     \/ pc = "callback" /\ wpc[Job] = "delay" /\ Job \notin ended

Tick ==
  /\ Waiting
  /\ clock' = clock + 1
  /\ ended' = IF clock' >= Deadline THEN {Job} ELSE {}
  /\ UNCHANGED <<configVars, terminalVars, wire, jobVars, webhookVars>>

Step ==
  \/ Start \/ FetchToken \/ DialOK \/ DialFail \/ Setup
  \/ Read \/ ReadClosed \/ ReadTimeout \/ Callback \/ Return

Next == Accept \/ Step \/ Exit \/ Chatter \/ Finish \/ Close \/ Tick

Spec == Init /\ [][Next]_vars

(* The goroutine of a job runs, and time passes.                           *)
FairSpec == Spec /\ WF_vars(Step) /\ WF_vars(Tick)

-----------------------------------------------------------------------------
PCs == {"idle", "start", "token", "dial", "setup", "read", "callback", "done", "cut"}
Kinds == {"notice", "blank", "output", "echo", "exit", "head", "tail"}

TypeOK ==
  /\ validUrl \in BOOLEAN /\ basic \in BOOLEAN /\ echoes \in BOOLEAN
  /\ pc \in PCs
  /\ clock \in Nat /\ limit \in Nat /\ decided \in Nat
  /\ ended = IF clock >= Deadline THEN {Job} ELSE {}
  /\ ways \in Seq({"basic", "token", "token+basic", "plain"})
  /\ chunks \subseteq Kinds
  /\ verdict \in {"none", "ok", "failed"}
  /\ term \in {"off", "prompt", "running", "exiting", "finished"}
  /\ closing \in {"open", "abnormal", "other"}
  /\ wire \in Seq(Kinds) /\ frames \in Nat

(* A job is over HERMES_TIMEOUT_SECONDS after its context at the latest,   *)
(* whatever terminal and receiver do: reads from the terminal do not heed  *)
(* the context, but they start while it lives and have a deadline.         *)
Timely ==
  /\ pc = "token" => limit <= HermesTimeout
  /\ pc \in {"idle", "start"} => clock = 0
  /\ pc = "setup" => clock < Deadline
  /\ pc = "dial" => limit <= Deadline
  /\ pc \in {"token", "dial", "read"} => clock <= limit
  /\ pc = "read" => limit <= Deadline + HermesTimeout
  /\ pc = "callback" /\ wpc[Job] = "posting" => limit <= Deadline
  /\ clock <= Deadline + HermesTimeout

(* How far the callback is while the context lives.                        *)
OnTheWay ==
  /\ pc \in {"callback", "done"} =>
       /\ decided <= clock
       /\ wpc[Job] # "idle"
       /\ clock < Deadline =>
            posted[Job] = attempt[Job] - (IF wpc[Job] = "start" THEN 1 ELSE 0)
       /\ decided < Deadline /\ clock >= Deadline => posted[Job] >= 1
       /\ wpc[Job] = "failed" => attempt[Job] = MaxAttempts
       /\ wpc[Job] = "cancelled" => clock >= Deadline
  /\ pc \notin {"callback", "done", "cut"} => wpc[Job] = "idle" /\ verdict = "none"
  /\ pc = "done" => wpc[Job] \in Results
  /\ pc = "dial" => ways # <<>>

HermesInv == WebhookInv /\ TypeOK /\ Timely /\ OnTheWay

(* A result that was reached before the context ended is posted, and while *)
(* the context lives a callback is given up only after all attempts.       *)
Tried ==
  pc = "done" =>
    /\ decided < Deadline => posted[Job] >= 1
    /\ clock < Deadline /\ wpc[Job] # "ok" => posted[Job] = MaxAttempts

(* hermes_command_ok means that the command has come to its end, or that   *)
(* the terminal went away after it had sent something, unless the terminal *)
(* echoes: then the echo of the command is taken for its end.              *)
OkTells ==
  verdict = "ok" =>
    \/ term = "finished"
    \/ "echo" \in chunks
    \/ closing = "abnormal" /\ chunks # {}

(* Why OkTells holds: an exit line is only sent by a command that has come *)
(* to its end, and a command has not begun before the terminal is set up.  *)
ExitTold ==
  /\ "exit" \in chunks \cup {wire[i] : i \in DOMAIN wire} => term = "finished"
  /\ pc \in {"idle", "start", "token", "dial"} => term = "off"
  /\ pc = "setup" => term = "prompt"

(* What is left of a job: of its time, its stages, its attempts to dial    *)
(* and to post, and of what the terminal may send.                         *)
StagesAfter ==
  [idle |-> 12, start |-> 11, token |-> 10, dial |-> 6, setup |-> 5, read |-> 4,
   callback |-> 3, done |-> 0, cut |-> 0]

PostsLeft ==
  3 * (MaxAttempts - attempt[Job])
    + (CASE wpc[Job] = "start" -> 3 [] wpc[Job] = "posting" -> 2 [] wpc[Job] = "delay" -> 1
         [] OTHER -> 0)

FramesLeft ==
  2 * (MaxFrames - frames) + Len(wire) + (IF closing = "open" THEN 1 ELSE 0)

JobLeft ==
  (Deadline + HermesTimeout - clock) + StagesAfter[pc] + Len(ways) + PostsLeft + FramesLeft

(* Every step of a job, and every tick of its clock, leaves less of it:    *)
(* nothing is retried, read or waited for without end.                     *)
JobRunsDown == [][JobLeft' < JobLeft]_vars

(* Every job that was answered 202 ends, unless the process does.          *)
JobEnds == pc = "start" ~> pc \in {"done", "cut"}

Phase ==
  CASE pc = "idle" -> "none"
    [] pc \in {"start", "token", "dial", "setup", "read"} -> "queued"
    [] pc = "callback" -> "decided"
    [] pc \in {"done", "cut"} -> "ended"

(* Refinement: one verdict, told a bounded number of times, and never      *)
(* after the job has ended.                                                *)
Abstract == INSTANCE JobContract WITH MaxTellings <- MaxAttempts, phase <- Phase, told <- heard[Job]
Contract == Abstract!Spec
=============================================================================
