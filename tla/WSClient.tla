------------------------------- MODULE WSClient -------------------------------
(***************************************************************************)
(* internal/wsclient: the client that multiplexes concurrent RPC calls of  *)
(* the HTTP handlers over the one WebSocket to the OpenClaw gateway, and   *)
(* App.Run, which serves one connection after another.                     *)
(*                                                                         *)
(* Goroutines: one per caller (SendSessionMessage or CreateSession, both   *)
(* through callRPC) and the one that runs App.Run -> Client.Serve.  They   *)
(* share the fields of Client: requestID, conn, pending (under mu) and     *)
(* writeMu.  Each action below is one critical section or one blocking     *)
(* operation of a goroutine.  The gateway and the network are external.    *)
(* The handshake is one step here; module Handshake opens it.              *)
(***************************************************************************)
EXTENDS Naturals, FiniteSets

CONSTANTS
  Callers,      \* HTTP handler goroutines, each of which performs one operation
  MaxDials,     \* bound: how many connections App.Run may attempt
  Ops,          \* the operations callers may ask for
  Bodies,       \* the answers the gateway may give
  AutoSend,     \* cfg.AutoSendOnConnect
  WSReconnect   \* cfg.WSReconnect

(* "create" names a session key, "createAnon" does not; "createOpts" and   *)
(* "createAnonOpts" name a workspace or an agent id, too.                  *)
Anonymous == {"createAnon", "createAnonOpts"}
WithOptions == {"createOpts", "createAnonOpts"}
AllOps == {"send", "create"} \cup Anonymous \cup WithOptions

(* "error" is any error, "badParam" the "unexpected property" error, and   *)
(* "noKey" a success that does not echo the session key.                   *)
AllBodies == {"ok", "error", "badParam", "noKey"}

ASSUME WSClientAssumption ==
  /\ MaxDials \in Nat
  /\ Ops \subseteq AllOps
  /\ Bodies \subseteq AllBodies
  /\ AutoSend \in BOOLEAN
  /\ WSReconnect \in BOOLEAN

Conns == 1 .. MaxDials
NoConn == 0

(* A request id: "send-7", "create-8" or "create-8-fallback".              *)
Attempts == {"first", "fallback"}
Ids == [num : Nat, attempt : Attempts]

(* callRPC makes a channel of capacity one per call: one per attempt.      *)
Chans == Callers \X Attempts

Frames == [kind : {"res"}, id : Ids, body : Bodies]
Closed == [kind |-> "closed"]         \* an rpcResponse that carries an error
Messages == Frames \cup {Closed}

Entries == [id : Ids, chan : Chans]   \* one entry of the map Client.pending

ServePCs == {"connect", "autosend", "autosending", "read", "deliver", "clear", "wake",
             "retry", "stopped", "failed", "crashed"}
CallPCs == {"idle", "call", "register", "lock", "write", "wait", "return", "done"}
Results == {"none", "ok", "ws_not_connected", "gateway_connectivity_error",
            "send_rejected", "session_create_rejected", "aborted"}

VARIABLES
  requestID,  \* Client.requestID
  conn,       \* Client.conn, NoConn when nil
  pending,    \* Client.pending, a set of entries with distinct ids
  writeMu,    \* Client.writeMu: the caller that holds it, in a set
  \* the goroutine of App.Run
  serve,      \* its control point
  dials,      \* connections attempted; the last one is the one Serve works on
  autoNum,    \* number in the id of the last automatic message
  held,       \* what resolvePending has taken from pending and not yet sent
  waking,     \* channels clearActiveConn has yet to send the error to
  cancelled,  \* the context of App.Run is done
  \* the callers
  pc, op, num, attempt,
  lconn,      \* the connection callRPC read from Client.conn
  late,       \* history: callers that registered after lconn was Client.conn
  got,        \* the message the current callRPC returns, in a set
  result,     \* what the operation returned
  \* the channels
  chan,       \* the message each channel holds or has held, in a set
  \* external: the connections and the gateway
  link,       \* state of each connection
  arrived,    \* ids of the requests that reached the gateway, by connection
  answers     \* the gateway's response to each request it has executed

rpcVars == <<requestID, conn, pending, writeMu>>
runVars == <<dials, autoNum, held, waking, cancelled>>
serveVars == <<serve, runVars>>
callVars == <<pc, op, num, attempt, lconn, late, got, result>>
netVars == <<link, arrived, answers>>
vars == <<rpcVars, serveVars, callVars, chan, netVars>>

Id(c) == [num |-> num[c], attempt |-> attempt[c]]
Ch(c) == <<c, attempt[c]>>
Entry(c) == [id |-> Id(c), chan |-> Ch(c)]
AutoId == [num |-> autoNum, attempt |-> "first"]

Init ==
  /\ requestID = 0
  /\ conn = NoConn
  /\ pending = {}
  /\ writeMu = {}
  /\ serve = "connect"
  /\ dials = 0
  /\ autoNum = 0
  /\ held = {}
  /\ waking = {}
  /\ cancelled = FALSE
  /\ pc = [c \in Callers |-> "idle"]
  /\ op \in [Callers -> Ops]
  /\ num = [c \in Callers |-> 0]
  /\ attempt = [c \in Callers |-> "first"]
  /\ lconn = [c \in Callers |-> NoConn]
  /\ late = {}
  /\ got = [c \in Callers |-> {}]
  /\ result = [c \in Callers |-> "none"]
  /\ chan = [x \in Chans |-> {}]
  /\ link = [k \in Conns |-> "none"]
  /\ arrived = [k \in Conns |-> {}]
  /\ answers = {}

-----------------------------------------------------------------------------
(* Callers: SendSessionMessage and CreateSession, through callRPC.         *)

(* nextID, an atomic increment that returns the new value.                 *)
nextID == requestID + 1

Begin(c) ==
  /\ pc[c] = "idle"
  /\ requestID' = nextID
  /\ num' = [num EXCEPT ![c] = nextID]
  /\ pc' = [pc EXCEPT ![c] = "call"]
  /\ UNCHANGED <<conn, pending, writeMu, serveVars, op, attempt, lconn, late, got,
                 result, chan, netVars>>

(* callRPC reads Client.conn and releases mu at once: the connection may   *)
(* be gone before the call is registered.                                  *)
GetActiveConn(c) ==
  /\ pc[c] = "call"
  /\ \/ /\ conn = NoConn
        /\ result' = [result EXCEPT ![c] = "ws_not_connected"]
        /\ pc' = [pc EXCEPT ![c] = "done"]
        /\ UNCHANGED lconn
     \/ /\ conn # NoConn
        /\ lconn' = [lconn EXCEPT ![c] = conn]
        /\ pc' = [pc EXCEPT ![c] = "register"]
        /\ UNCHANGED result
  /\ UNCHANGED <<rpcVars, serveVars, op, num, attempt, late, got, chan, netVars>>

(* The map without the key of a call.                                      *)
BugUnregistered(c) == pending           \* no deferred unregisterPending
Unregistered(c) == {e \in pending : e.id # Id(c)}

Register(c) ==
  /\ pc[c] = "register"
  /\ pending' = Unregistered(c) \cup {Entry(c)}
  /\ late' = IF lconn[c] = conn THEN late ELSE late \cup {c}
  /\ pc' = [pc EXCEPT ![c] = "lock"]
  /\ UNCHANGED <<requestID, conn, writeMu, serveVars, op, num, attempt, lconn,
                 got, result, chan, netVars>>

BugUnlocked == TRUE                     \* the mutex is forgotten
Unlocked == writeMu = {}

BugUnlock(c) == UNCHANGED writeMu       \* a return before writeMu.Unlock
Unlock(c) == writeMu' = writeMu \ {c}

LockWrite(c) ==
  /\ pc[c] = "lock"
  /\ Unlocked
  /\ writeMu' = writeMu \cup {c}
  /\ pc' = [pc EXCEPT ![c] = "write"]
  /\ UNCHANGED <<requestID, conn, pending, serveVars, op, num, attempt, lconn, late,
                 got, result, chan, netVars>>

(* The goroutines inside WriteJSON on connection k.  sendAutoMessage does  *)
(* not take writeMu; gorilla/websocket supports one writer at a time.      *)
CallersWriting(k) == {c \in Callers : pc[c] = "write" /\ lconn[c] = k}
AutoSending(k) == serve = "autosending" /\ dials = k
Overlap(k) == CallersWriting(k) # {} /\ AutoSending(k)

(* A request is accepted by an open connection, lost by one whose peer has *)
(* gone but which is not known to be broken yet.                           *)
Reached(k, i) ==
  IF link[k] = "open" THEN [arrived EXCEPT ![k] = @ \cup {i}] ELSE arrived

WriteOK(c) ==
  LET k == lconn[c] IN
  /\ pc[c] = "write"
  /\ link[k] \in {"open", "broken"}
  /\ arrived' = Reached(k, Id(c))
  /\ Unlock(c)
  /\ pc' = [pc EXCEPT ![c] = "wait"]
  /\ UNCHANGED <<requestID, conn, pending, serveVars, op, num, attempt, lconn, late,
                 got, result, chan, link, answers>>

(* What fails because of an overlap may have been written before.          *)
WriteError(c) ==
  LET k == lconn[c] IN
  /\ pc[c] = "write"
  /\ \/ link[k] # "open" /\ UNCHANGED arrived
     \/ Overlap(k) /\ arrived' \in {arrived, Reached(k, Id(c))}
  /\ Unlock(c)
  /\ got' = [got EXCEPT ![c] = {Closed}]
  /\ pc' = [pc EXCEPT ![c] = "return"]
  /\ UNCHANGED <<requestID, conn, pending, serveVars, op, num, attempt, lconn, late,
                 result, chan, link, answers>>

(* gorilla/websocket panics on a concurrent write it notices, before it    *)
(* writes or after.  net/http recovers the handler's panic, the deferred   *)
(* unregisterPending runs, but writeMu.Unlock is not deferred: the mutex   *)
(* stays locked.                                                           *)
WritePanic(c) ==
  LET k == lconn[c] IN
  /\ pc[c] = "write"
  /\ Overlap(k)
  /\ arrived' \in {arrived, Reached(k, Id(c))}
  /\ pc' = [pc EXCEPT ![c] = "return"]
  /\ UNCHANGED <<rpcVars, serveVars, op, num, attempt, lconn, late, got, result,
                 chan, link, answers>>

(* requestTimeout, or the HTTP client has gone away.                       *)
Timeout(c) ==
  /\ pc[c] = "wait"
  /\ got' = [got EXCEPT ![c] = {Closed}]
  /\ pc' = [pc EXCEPT ![c] = "return"]
  /\ UNCHANGED <<rpcVars, serveVars, op, num, attempt, lconn, late, result, chan,
                 netVars>>

Receive(c) ==
  /\ pc[c] = "wait"
  /\ chan[Ch(c)] # {}
  /\ got' = [got EXCEPT ![c] = chan[Ch(c)]]
  /\ pc' = [pc EXCEPT ![c] = "return"]
  /\ UNCHANGED <<rpcVars, serveVars, op, num, attempt, lconn, late, result, chan,
                 netVars>>

BugVerdict(o, body) == "ok"             \* frame["error"] is not looked at

(* What an operation returns for the response frame of its last request.   *)
Verdict(o, body) ==
  IF o = "send"
    THEN IF body \in {"error", "badParam"} THEN "send_rejected" ELSE "ok"
    ELSE IF body \in {"error", "badParam"} \/ (body = "noKey" /\ o \in Anonymous)
           THEN "session_create_rejected" ELSE "ok"

BugFallsBack(c) ==                      \* any error makes CreateSession ask again
  /\ op[c] \in WithOptions
  /\ attempt[c] = "first"
  /\ \A f \in got[c] \ {Closed} : f.body # "ok"

(* CreateSession drops the optional parameters and asks once more.         *)
FallsBack(c) ==
  /\ op[c] \in WithOptions
  /\ attempt[c] = "first"
  /\ \E f \in got[c] \ {Closed} : f.body = "badParam"

(* The error of callRPC is ignored.                                        *)
BugOutcome(c, r) ==
  \/ got[c] \in {{}, {Closed}} /\ r = "ok"
  \/ \E f \in got[c] \ {Closed} : r = Verdict(op[c], f.body)

(* Nothing was returned by a callRPC that panicked.                        *)
Outcome(c, r) ==
  \/ got[c] = {} /\ r = "aborted"
  \/ got[c] = {Closed} /\ r = "gateway_connectivity_error"
  \/ \E f \in got[c] \ {Closed} : r = Verdict(op[c], f.body)

(* callRPC returns: its deferred unregisterPending, then the caller's use  *)
(* of the frame or of the error.                                           *)
Return(c) ==
  /\ pc[c] = "return"
  /\ pending' = Unregistered(c)
  /\ \/ /\ FallsBack(c)
        /\ attempt' = [attempt EXCEPT ![c] = "fallback"]
        /\ pc' = [pc EXCEPT ![c] = "call"]
        /\ UNCHANGED result
     \/ /\ ~FallsBack(c)
        /\ \E r \in Results : Outcome(c, r) /\ result' = [result EXCEPT ![c] = r]
        /\ pc' = [pc EXCEPT ![c] = "done"]
        /\ UNCHANGED attempt
  /\ got' = [got EXCEPT ![c] = {}]
  /\ lconn' = [lconn EXCEPT ![c] = NoConn]
  /\ late' = late \ {c}
  /\ UNCHANGED <<requestID, conn, writeMu, serveVars, op, num, chan, netVars>>

-----------------------------------------------------------------------------
(* The goroutine of App.Run: Serve, then the decision to serve again.      *)

(* The head of the read loop looks at the context; ReadMessage does not,   *)
(* and blocks until the next frame or error.                               *)
LoopHead == IF cancelled THEN "clear" ELSE "read"

(* connect(), dial and handshake, which shares nothing with the callers,   *)
(* then setActiveConn.  The context ends a dial, but not a handshake.  The *)
(* number in the id of the connect request only leaves a gap.              *)
ConnectOK ==
  /\ serve = "connect"
  /\ dials < MaxDials
  /\ dials' = dials + 1
  /\ link' = [link EXCEPT ![dials + 1] = "open"]
  /\ conn' = dials + 1
  /\ serve' = IF AutoSend THEN "autosend" ELSE LoopHead
  /\ UNCHANGED <<requestID, pending, writeMu, autoNum, held, waking, cancelled,
                 callVars, chan, arrived, answers>>

ConnectFail ==
  /\ serve = "connect"
  /\ dials < MaxDials
  /\ dials' = dials + 1
  /\ link' = [link EXCEPT ![dials + 1] = "closed"]
  /\ serve' = "retry"
  /\ UNCHANGED <<rpcVars, autoNum, held, waking, cancelled, callVars, chan,
                 arrived, answers>>

(* sendAutoMessage: nextID, then WriteJSON outside writeMu.                *)
AutoSendBegin ==
  /\ serve = "autosend"
  /\ requestID' = nextID
  /\ autoNum' = nextID
  /\ serve' = "autosending"
  /\ UNCHANGED <<conn, pending, writeMu, dials, held, waking, cancelled,
                 callVars, chan, netVars>>

AutoSendOK ==
  /\ serve = "autosending"
  /\ arrived' = Reached(dials, AutoId)
  /\ serve' = LoopHead
  /\ UNCHANGED <<rpcVars, runVars, callVars, chan, link, answers>>

AutoSendError ==
  /\ serve = "autosending"
  /\ \/ link[dials] # "open" /\ UNCHANGED arrived
     \/ Overlap(dials) /\ arrived' \in {arrived, Reached(dials, AutoId)}
  /\ serve' = "clear"
  /\ UNCHANGED <<rpcVars, runVars, callVars, chan, link, answers>>

(* Nothing recovers a panic of this goroutine: the process exits.          *)
AutoSendPanic ==
  /\ serve = "autosending"
  /\ Overlap(dials)
  /\ serve' = "crashed"
  /\ UNCHANGED <<rpcVars, runVars, callVars, chan, netVars>>

(* The frames ReadMessage may return: the gateway answers on the           *)
(* connection the request came from, at any time after it has executed it, *)
(* in any order, perhaps more than once; what it sent before a failure can *)
(* still be read.                                                          *)
Incoming == {f \in answers : f.id \in arrived[dials]}

(* The fallback request is registered under the id of the first one.       *)
BugEntriesFor(f) == {e \in pending : e.id.num = f.id.num}

(* The entries of the map whose id is the one of a response.               *)
EntriesFor(f) == {e \in pending : e.id = f.id}

BugResolved(f) == pending               \* the entry is not deleted
Resolved(f) == pending \ EntriesFor(f)

(* A response whose id is pending: resolvePending removes the entry under  *)
(* mu and sends on its channel after releasing mu.                         *)
ReadReply(f) ==
  /\ serve = "read"
  /\ f \in Incoming
  /\ EntriesFor(f) # {}
  /\ held' = {[chan |-> e.chan, frame |-> f] : e \in EntriesFor(f)}
  /\ pending' = Resolved(f)
  /\ serve' = "deliver"
  /\ UNCHANGED <<requestID, conn, writeMu, dials, autoNum, waking, cancelled,
                 callVars, chan, netVars>>

(* Any other frame, an event or a response nobody waits for, goes to a new *)
(* goroutine that runs onMessage.                                          *)
ReadOther ==
  /\ serve = "read"
  /\ \/ link[dials] = "open"
     \/ \E f \in Incoming : EntriesFor(f) = {}
  /\ serve' = LoopHead
  /\ UNCHANGED <<rpcVars, runVars, callVars, chan, netVars>>

ReadError ==
  /\ serve = "read"
  /\ link[dials] = "broken"
  /\ serve' = "clear"
  /\ UNCHANGED <<rpcVars, runVars, callVars, chan, netVars>>

(* The channel has no buffer: a message is lost if nobody is receiving.    *)
BugSend(x, m) ==
  chan' = IF pc[x[1]] = "wait" THEN [chan EXCEPT ![x] = {m}] ELSE chan

(* A send that never blocks: dropped if the channel already has a message. *)
Send(x, m) == chan' = IF chan[x] = {} THEN [chan EXCEPT ![x] = {m}] ELSE chan

Deliver ==
  /\ serve = "deliver"
  /\ \E h \in held : Send(h.chan, h.frame)
  /\ held' = {}
  /\ serve' = LoopHead
  /\ UNCHANGED <<rpcVars, dials, autoNum, waking, cancelled, callVars,
                 netVars>>

(* clearActiveConn, deferred last and therefore run first: conn and the    *)
(* map are replaced under mu, the callers are woken outside it.            *)
BugPendingChans == {}                   \* the map is replaced, nobody is woken
PendingChans == {e.chan : e \in pending}

BugClearActiveConn ==                   \* Client.conn is not set to nil
  /\ serve = "clear"
  /\ waking' = PendingChans
  /\ pending' = {}
  /\ serve' = "wake"
  /\ UNCHANGED <<requestID, conn, writeMu, dials, autoNum, held, cancelled,
                 callVars, chan, netVars>>

ClearActiveConn ==
  /\ serve = "clear"
  /\ conn' = NoConn
  /\ waking' = PendingChans
  /\ pending' = {}
  /\ serve' = "wake"
  /\ UNCHANGED <<requestID, writeMu, dials, autoNum, held, cancelled, callVars,
                 chan, netVars>>

Wake(x) ==
  /\ serve = "wake"
  /\ x \in waking
  /\ Send(x, Closed)
  /\ waking' = waking \ {x}
  /\ UNCHANGED <<rpcVars, serve, dials, autoNum, held, cancelled, callVars,
                 netVars>>

(* conn.Close, deferred first: until then the connection still takes       *)
(* writes of callers that had read it from Client.conn.  Frames not read   *)
(* by now never will be.                                                   *)
CloseConn ==
  /\ serve = "wake"
  /\ waking = {}
  /\ link' = [link EXCEPT ![dials] = "closed"]
  /\ serve' = "retry"
  /\ UNCHANGED <<rpcVars, runVars, callVars, chan, arrived, answers>>

(* App.Run after Serve has returned: stop, fail, or sleep and serve again. *)
(* The sleep also ends when the context does.                              *)
RunDecides ==
  /\ serve = "retry"
  /\ \/ cancelled /\ serve' = "stopped"
     \/ ~cancelled /\ ~WSReconnect /\ serve' = "failed"
     \/ WSReconnect /\ serve' = "connect"
  /\ UNCHANGED <<rpcVars, runVars, callVars, chan, netVars>>

-----------------------------------------------------------------------------
(* The environment: main's signal context, the network and the gateway.    *)

Cancel ==
  /\ ~cancelled
  /\ cancelled' = TRUE
  /\ UNCHANGED <<rpcVars, serve, dials, autoNum, held, waking, callVars, chan,
                 netVars>>

PeerGone(k) ==
  /\ link[k] = "open"
  /\ link' = [link EXCEPT ![k] = "broken"]
  /\ UNCHANGED <<rpcVars, serveVars, callVars, chan, arrived, answers>>

(* The gateway executes a request once, perhaps after its connection is    *)
(* gone or its caller has given up.                                        *)
Execute(k, i) ==
  /\ i \in arrived[k]
  /\ \A f \in answers : f.id # i
  /\ \E b \in Bodies : answers' = answers \cup {[kind |-> "res", id |-> i, body |-> b]}
  /\ UNCHANGED <<rpcVars, serveVars, callVars, chan, link, arrived>>

-----------------------------------------------------------------------------
CallStep(c) ==
  \/ Begin(c) \/ GetActiveConn(c) \/ Register(c) \/ LockWrite(c)
  \/ WriteOK(c) \/ WriteError(c) \/ WritePanic(c)
  \/ Receive(c) \/ Return(c)

ServeStep ==
  \/ ConnectOK \/ ConnectFail
  \/ AutoSendBegin \/ AutoSendOK \/ AutoSendError \/ AutoSendPanic
  \/ serve = "read" /\ \E f \in Incoming : ReadReply(f)
  \/ ReadOther \/ ReadError \/ Deliver
  \/ ClearActiveConn \/ CloseConn \/ RunDecides
  \/ \E x \in waking : Wake(x)

GatewayStep ==
  \E k \in Conns :
    \/ PeerGone(k)
    \/ \E i \in arrived[k] : Execute(k, i)

Next ==
  /\ serve # "crashed"
  /\ \/ \E c \in Callers : CallStep(c) \/ Timeout(c)
     \/ ServeStep
     \/ Cancel
     \/ GatewayStep

Spec == Init /\ [][Next]_vars

-----------------------------------------------------------------------------
(* Properties.                                                             *)

Held == [chan : Chans, frame : Frames]
AtMostOne(S) == \A x, y \in S : x = y

(* Every variable keeps its type; the mutex has at most one holder and a   *)
(* channel of capacity one at most one message.                            *)
TypeOK ==
  /\ requestID \in Nat
  /\ conn \in Conns \cup {NoConn}
  /\ pending \subseteq Entries
  /\ writeMu \subseteq Callers /\ AtMostOne(writeMu)
  /\ serve \in ServePCs
  /\ dials \in Conns \cup {0}
  /\ autoNum \in Nat
  /\ held \subseteq Held
  /\ waking \subseteq Chans
  /\ cancelled \in BOOLEAN
  /\ pc \in [Callers -> CallPCs]
  /\ op \in [Callers -> Ops]
  /\ num \in [Callers -> Nat]
  /\ attempt \in [Callers -> Attempts]
  /\ lconn \in [Callers -> Conns \cup {NoConn}] /\ late \subseteq Callers
  /\ got \in [Callers -> SUBSET Messages] /\ \A c \in Callers : AtMostOne(got[c])
  /\ result \in [Callers -> Results]
  /\ chan \in [Chans -> SUBSET Messages] /\ \A x \in Chans : AtMostOne(chan[x])
  /\ link \in [Conns -> {"none", "open", "broken", "closed"}]
  /\ arrived \in [Conns -> SUBSET Ids]
  /\ answers \subseteq Frames

Registered == {"lock", "write", "wait", "return"}

(* A registered caller with an empty channel is woken by its connection:   *)
(* its entry is in the map that the reader of this connection resolves and *)
(* clears, or the goroutine that took it out of the map (resolvePending,   *)
(* clearActiveConn) has yet to send on it.  So it misses neither its       *)
(* response nor the end of its connection.  The exception is a caller that *)
(* read Client.conn before clearActiveConn and registered after it: its    *)
(* entry is in the map of the next connection, and nothing but its timer   *)
(* or the end of that one wakes it.                                        *)
NoLostWakeup ==
  \A c \in Callers :
    pc[c] \in {"lock", "write", "wait"} /\ chan[Ch(c)] = {} =>
      \/ Entry(c) \in pending /\ (lconn[c] = conn \/ c \in late)
      \/ \E h \in held : h.chan = Ch(c)
      \/ Ch(c) \in waking

(* The two non-blocking sends (resolvePending and clearActiveConn) never   *)
(* take their default branch: whoever is about to send finds the channel   *)
(* empty, so no response and no error is dropped.                          *)
NoSendDropped ==
  /\ \A h \in held : chan[h.chan] = {}
  /\ \A x \in waking : chan[x] = {}

(* The map has no entry left behind: every entry belongs to a call that is *)
(* in progress and will unregister it, and was made by that call.          *)
NoPendingLeak ==
  \A e \in pending : \E c \in Callers : pc[c] \in Registered /\ e = Entry(c)

(* What callRPC returns to a caller is the gateway's own answer to that    *)
(* caller's own request, whatever the order in which answers come back.    *)
ReplyMatchesRequest ==
  \A c \in Callers : \A m \in got[c] \ {Closed} :
    m.id = Id(c) /\ m \in answers

(* Nobody has left callRPC with writeMu locked, and no two goroutines are  *)
(* inside WriteJSON on one connection.  It holds for the callers; with     *)
(* AutoSend the automatic message is written without writeMu.              *)
OneWriter ==
  /\ \A c \in writeMu : pc[c] = "write"
  /\ \A k \in Conns : ~Overlap(k) /\ AtMostOne(CallersWriting(k))

(* A caller that is handed a connection is handed the one that is being    *)
(* read, and reconnecting leaves no connection open behind it.             *)
Serving == {"autosend", "autosending", "read", "deliver", "clear", "crashed"}

OneConnection ==
  /\ conn # NoConn => conn = dials /\ serve \in Serving
  /\ \A k \in Conns : link[k] \in {"open", "broken"} => k = dials /\ serve \in Serving \cup {"wake"}
  /\ serve \in Serving \cup {"wake"} => link[dials] \in {"open", "broken"}

-----------------------------------------------------------------------------
(* Liveness.  The Go scheduler runs every goroutine that can go on, and a  *)
(* read on a dead connection returns its error after the data received.    *)
FairSpec ==
  /\ Spec
  /\ \A c \in Callers : WF_vars(CallStep(c))
  /\ WF_vars(ServeStep)
  /\ WF_vars(ReadError)

(* A call never goes back, but for the one fallback: whatever the others   *)
(* do, it returns after so many steps of its own or stands still.          *)
StepsLeft(c) ==
  [idle |-> 7, call |-> 6, register |-> 5, lock |-> 4, write |-> 3, wait |-> 2,
   return |-> 1, done |-> 0][pc[c]]
    + (IF attempt[c] = "first" THEN 6 ELSE 0)

CallsAdvance ==
  [][\A c \in Callers : UNCHANGED <<pc[c], attempt[c]>> \/ StepsLeft(c)' < StepsLeft(c)]_vars

(* The 30 s timer of callRPC fires.                                        *)
TimersFire == \A c \in Callers : WF_vars(Timeout(c))

(* Every operation returns, however the connection fares.                  *)
CallsTerminate ==
  TimersFire => \A c \in Callers : pc[c] # "idle" ~> pc[c] = "done"

(* A caller that waits on the connection being served when it breaks stops *)
(* waiting then, and not when its timer fires.  A caller that registers    *)
(* once clearActiveConn has begun is not promised this: see NoLostWakeup.  *)
BreakReleases ==
  \A c \in Callers :
    (/\ pc[c] = "wait" /\ lconn[c] = dials
     /\ link[dials] = "broken" /\ serve = "read")
      ~> pc[c] # "wait"
=============================================================================
