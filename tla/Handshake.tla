------------------------------ MODULE Handshake ------------------------------
(***************************************************************************)
(* internal/wsclient, connect and handshake, inside the loop of App.Run:   *)
(* dial, wait 2 s for connect.challenge, send connect, wait for its        *)
(* response, then serve until the connection is lost and start again.      *)
(*                                                                         *)
(* The WebSocket library is modelled from how it is used: a read that has  *)
(* failed once, be it by a deadline, fails at once ever after on the same  *)
(* connection.  Time is the step Expire, which puts the deadline in force  *)
(* in the past.                                                            *)
(***************************************************************************)
EXTENDS Naturals, Sequences

CONSTANTS
  MaxInbox,     \* bound: frames in flight from the gateway
  WSReconnect   \* cfg.WSReconnect

ASSUME HandshakeAssumption == MaxInbox \in Nat \ {0} /\ WSReconnect \in BOOLEAN

(* The frames a client tells apart: connect.challenge, the response to its *)
(* connect request without or with an error, and all the others.           *)
Frames == {"challenge", "accept", "reject", "noise"}

Waiting == {"challenge", "response"}
RunPCs == {"dial", "request", "serving", "decide", "stopped", "failed"} \cup Waiting
Errors == {"none", "gateway_connectivity_error", "read_challenge", "send_connect",
           "connect_rejected", "read_frame"}

VARIABLES
  run,        \* where App.Run is
  cancelled,  \* the context of App.Run is done
  deadline,   \* the read deadline of the connection
  expired,    \* that deadline is in the past
  readErr,    \* a read of this connection has failed
  challenged, \* waitForChallenge returned true
  error,      \* how the last Serve ended
  link,       \* external: the connection
  gateway,    \* external: what the gateway has done on this connection
  inbox,      \* external: frames on their way to the client
  calm        \* external: gateway and network behave from now on

clientVars == <<run, cancelled, deadline, expired, readErr, challenged, error>>
vars == <<clientVars, link, gateway, inbox, calm>>

Init ==
  /\ run = "dial"
  /\ cancelled = FALSE
  /\ deadline = "none"
  /\ expired = FALSE
  /\ readErr = FALSE
  /\ challenged = FALSE
  /\ error = "none"
  /\ link = "none"
  /\ gateway = "none"
  /\ inbox = <<>>
  /\ calm = FALSE

-----------------------------------------------------------------------------
(* conn.SetReadDeadline, in force until the next one.                      *)
SetDeadline(d) == deadline' = d /\ expired' = FALSE

(* Serve ends with error e; connect has closed the connection if need be.  *)
End(e) ==
  /\ run' = "decide"
  /\ error' = e
  /\ link' = "none"
  /\ gateway' = "none"
  /\ inbox' = <<>>

(* handshake sets its deadline, and waitForChallenge its own at once.      *)
DialOK ==
  /\ run = "dial"
  /\ link' = "up"
  /\ gateway' = "open"
  /\ SetDeadline("challenge")
  /\ readErr' = FALSE
  /\ challenged' = FALSE
  /\ run' = "challenge"
  /\ UNCHANGED <<cancelled, error, inbox, calm>>

DialFail ==
  /\ run = "dial"
  /\ ~calm \/ cancelled
  /\ End("gateway_connectivity_error")
  /\ UNCHANGED <<cancelled, deadline, expired, readErr, challenged, calm>>

(* conn.ReadMessage: the next frame, or an error.                          *)
Readable == ~readErr /\ inbox # <<>>
ReadFails == readErr \/ expired \/ link = "gone"

ReadChallenge ==
  /\ run = "challenge"
  /\ Readable
  /\ inbox[1] = "challenge"
  /\ inbox' = Tail(inbox)
  /\ challenged' = TRUE
  /\ SetDeadline("handshake")
  /\ run' = "request"
  /\ UNCHANGED <<cancelled, readErr, error, link, gateway, calm>>

(* Any other deadline error is taken for the absence of a challenge: the   *)
(* deferred call sets the long deadline, and the handshake goes on.        *)
ChallengeTimeout ==
  /\ run = "challenge"
  /\ expired
  /\ readErr' = TRUE
  /\ SetDeadline("handshake")
  /\ run' = "request"
  /\ UNCHANGED <<cancelled, challenged, error, link, gateway, inbox, calm>>

ChallengeError ==
  /\ run = "challenge"
  /\ link = "gone"
  /\ End("read_challenge")
  /\ UNCHANGED <<cancelled, deadline, expired, readErr, challenged, calm>>

BugKeepWaiting == expired' = FALSE      \* each frame starts the wait anew
KeepWaiting == UNCHANGED expired

(* Both loops skip the frames they do not look for.                        *)
Skip ==
  /\ run \in Waiting
  /\ Readable
  /\ IF run = "challenge" THEN inbox[1] # "challenge"
                          ELSE inbox[1] \notin {"accept", "reject"}
  /\ inbox' = Tail(inbox)
  /\ KeepWaiting
  /\ UNCHANGED <<run, cancelled, deadline, readErr, challenged, error, link,
                 gateway, calm>>

SendConnect ==
  /\ run = "request"
  /\ \/ /\ link = "up"
        /\ gateway' = "asked"
        /\ run' = "response"
        /\ UNCHANGED <<error, link, inbox>>
     \/ /\ link = "gone"
        /\ run' = "response"
        /\ UNCHANGED <<error, link, gateway, inbox>>
     \/ link = "gone" /\ End("send_connect")
  /\ UNCHANGED <<cancelled, deadline, expired, readErr, challenged, calm>>

BugAccepts(f) == f # "reject"           \* the id of the response is ignored
Accepts(f) == f = "accept"
BugClearDeadline == UNCHANGED <<deadline, expired>>
ClearDeadline == SetDeadline("none")

ReadAccept ==
  /\ run = "response"
  /\ Readable
  /\ Accepts(inbox[1])
  /\ inbox' = Tail(inbox)
  /\ ClearDeadline
  /\ run' = "serving"
  /\ error' = "none"
  /\ UNCHANGED <<cancelled, readErr, challenged, link, gateway, calm>>

(* Refusal by the gateway and failure to read get the same error code.     *)
ResponseError ==
  /\ run = "response"
  /\ ReadFails \/ (Readable /\ inbox[1] = "reject")
  /\ run' = "decide"
  /\ error' = "connect_rejected"
  /\ UNCHANGED <<cancelled, deadline, expired, readErr, challenged, link,
                 gateway, inbox, calm>>

(* Serve: read frames until the context is done or a read fails.           *)
ServeFrame ==
  /\ run = "serving"
  /\ Readable
  /\ inbox' = Tail(inbox)
  /\ run' = IF cancelled THEN "decide" ELSE run
  /\ UNCHANGED <<cancelled, deadline, expired, readErr, challenged, error, link,
                 gateway, calm>>

ServeError ==
  /\ run = "serving"
  /\ ReadFails
  /\ End("read_frame")
  /\ UNCHANGED <<cancelled, deadline, expired, readErr, challenged, calm>>

(* App.Run; the connection is closed by now.                               *)
RunDecides ==
  /\ run = "decide"
  /\ link' = "none"
  /\ gateway' = "none"
  /\ inbox' = <<>>
  /\ \/ cancelled /\ run' = "stopped"
     \/ ~cancelled /\ ~WSReconnect /\ run' = "failed"
     \/ WSReconnect /\ run' = "dial"
  /\ UNCHANGED <<cancelled, deadline, expired, readErr, challenged, error, calm>>

-----------------------------------------------------------------------------
(* The environment.                                                        *)
Cancel ==
  /\ ~cancelled /\ ~calm
  /\ cancelled' = TRUE
  /\ UNCHANGED <<run, deadline, expired, readErr, challenged, error, link,
                 gateway, inbox, calm>>

Expire ==
  /\ run \in Waiting \cup {"serving"}
  /\ deadline # "none"
  /\ ~expired
  /\ ~calm \/ run = "serving"
  /\ expired' = TRUE
  /\ UNCHANGED <<run, cancelled, deadline, readErr, challenged, error, link,
                 gateway, inbox, calm>>

LinkBreaks ==
  /\ link = "up" /\ ~calm
  /\ link' = "gone"
  /\ UNCHANGED <<clientVars, gateway, inbox, calm>>

Emit(f) == link = "up" /\ Len(inbox) < MaxInbox /\ inbox' = Append(inbox, f)

(* The challenge may come late, or never unless the gateway is calm.       *)
Greet ==
  /\ gateway = "open"
  /\ Emit("challenge")
  /\ gateway' = "greeted"
  /\ UNCHANGED <<clientVars, link, calm>>

Noise ==
  /\ ~calm
  /\ Emit("noise")
  /\ UNCHANGED <<clientVars, link, gateway, calm>>

Respond ==
  /\ gateway = "asked"
  /\ \/ Emit("accept") /\ gateway' = "accepted"
     \/ ~calm /\ Emit("reject") /\ gateway' = "refused"
  /\ UNCHANGED <<clientVars, link, calm>>

CalmDown ==
  /\ ~calm
  /\ calm' = TRUE
  /\ UNCHANGED <<clientVars, link, gateway, inbox>>

-----------------------------------------------------------------------------
ClientStep ==
  \/ DialOK \/ DialFail
  \/ ReadChallenge \/ ChallengeTimeout \/ ChallengeError \/ Skip
  \/ SendConnect \/ ReadAccept \/ ResponseError
  \/ ServeFrame \/ ServeError \/ RunDecides

Next ==
  \/ ClientStep
  \/ Cancel \/ Expire \/ LinkBreaks
  \/ Greet \/ Noise \/ Respond \/ CalmDown

Spec == Init /\ [][Next]_vars

(* Goroutines go on, time passes, a read past its deadline fails though    *)
(* frames keep coming, and a gateway answers as long as the link is up.    *)
FairSpec ==
  /\ Spec
  /\ WF_vars(ClientStep) /\ WF_vars(Expire)
  /\ WF_vars(ChallengeTimeout) /\ WF_vars(ResponseError)
  /\ WF_vars(Greet) /\ WF_vars(Respond)

-----------------------------------------------------------------------------
TypeOK ==
  /\ run \in RunPCs
  /\ cancelled \in BOOLEAN
  /\ deadline \in {"none", "challenge", "handshake"}
  /\ expired \in BOOLEAN
  /\ readErr \in BOOLEAN
  /\ challenged \in BOOLEAN
  /\ error \in Errors
  /\ link \in {"none", "up", "gone"}
  /\ gateway \in {"none", "open", "greeted", "asked", "accepted", "refused"}
  /\ inbox \in Seq(Frames) /\ Len(inbox) <= MaxInbox
  /\ calm \in BOOLEAN

(* A connection is served only when the gateway has accepted the connect   *)
(* request made on it, and with a reader that can still read: no error is  *)
(* left over from the handshake and no deadline is left to cut it short.   *)
ServedIsUsable ==
  run = "serving" => gateway = "accepted" /\ ~readErr /\ deadline = "none"

(* The same, inductive: an acceptance on its way is that of the connect    *)
(* request of this connection, for nothing is left of the one before.      *)
Greeting == {"open", "greeted"}

HandshakeInv ==
  /\ TypeOK
  /\ run = "dial" => link = "none" /\ gateway = "none" /\ inbox = <<>>
  /\ run \in {"challenge", "request"} => gateway \in Greeting
  /\ \A i \in 1 .. Len(inbox) : inbox[i] = "accept" => gateway = "accepted"
  /\ ServedIsUsable

Attempting == run \in Waiting \cup {"request"}

(* However the gateway floods or starves the client, no attempt to connect *)
(* lasts for ever: it is served or given up.                               *)
AttemptEnds == Attempting ~> run \in {"serving", "decide"}

(* An attempt goes its way, challenge, request, response, each wait with   *)
(* its deadline, and never back: no frame gives it more time.              *)
AttemptLeft ==
  (CASE run = "challenge" -> 5 [] run = "request" -> 3 [] run = "response" -> 2 [] OTHER -> 0)
    - (IF run \in Waiting /\ expired THEN 1 ELSE 0)

AttemptAdvances ==
  [][Attempting => UNCHANGED <<run, deadline, expired>> \/ AttemptLeft' < AttemptLeft]_vars

(* Once gateway and network behave, App.Run gets a connection served and   *)
(* keeps it, whatever the attempts before were left in.                    *)
Recovers ==
  calm /\ ~cancelled /\ run # "failed" ~> [](run = "serving")

(* An attempt that goes on without a challenge is given up only for cause: *)
(* the gateway refused it, the handshake deadline has passed or the        *)
(* connection is lost.                                                     *)
DirectConnectWaits ==
  error = "connect_rejected" /\ run = "decide" /\ ~challenged =>
    gateway = "refused" \/ expired \/ link = "gone"
=============================================================================
