# OpenClaw API bridge: TLA+ models and proofs

The bridge is one Go process between HTTP clients and an OpenClaw gateway. It keeps one WebSocket to the
gateway, turns `POST /v1/sessions/send` and `/v1/sessions/create` into RPC calls over it, and turns the
gateway's events into HTTP callbacks, with delivery options and deduplication keys in PostgreSQL. This
directory models that behaviour, checks it with TLC and proves part of it with TLAPS. Paths and line
numbers are those of the repository; `PROJECT.json` maps every definition to its lines.

    tlc -config MCWSClient.cfg MCWSClient      # any MC module with one of its .cfg files
    tlapm WSClientProofs.tla                   # any *Proofs module

## The system

| Component | State | Operations | Interacts with | What is hard, what must hold |
|---|---|---|---|---|
| `wsclient` RPC | `requestID`, `conn` and `pending` under `mu`, `writeMu`, one channel of capacity 1 per call | `SendSessionMessage`, `CreateSession` (`callRPC`), `Serve`, `resolvePending`, `clearActiveConn`, `sendAutoMessage` | called by every HTTP handler; one goroutine serves the connection | calls race responses, timers, breaks and reconnections: no lost wake-up (but for a late registration), no answer to the wrong call, no leak, one writer, every call returns |
| `wsclient` handshake | read deadline, sticky read error | `connect`, `handshake`, `waitForChallenge`, `waitForConnectResponse` | called by `Serve` | deadlines, floods, refusals: serve only accepted connections, give every attempt up or finish it |
| `app` forwarding | map `delivery` under `mu` | `handleMessage`, `SetSessionDelivery`, `getSessionDelivery`, `clearSessionDelivery` | one goroutine per event, HTTP handlers, store, webhook | map and row change apart; check-then-act on both; at most one callback per event |
| `store` | tables `session_delivery`, `dedupe_keys` | upsert, get, delete, register a key | `app`, from both sides | statements fail, expired keys; each start decides anew whether there is a database at all |
| `httpapi` send and create | none of its own | `handleSend`, `handleCreateSession`, `classifyGatewayError` | `app` | dedupe, options, send, create, send again: five effects, each may fail; clients repeat |
| `httpapi` hermes, `hermes` | a goroutine for each 202 | `handleHermesSend`, `runHermesAndCallback`, `SendCommand` | a terminal (ttyd), webhook | one context for command and callback, which reads do not heed; echo, framing and early close; the job must end and tell its verdict |
| `webhook` | none | `Send`, `SendToURL` | receivers | bounded attempts with growing delay; an answer that is lost makes the receiver hear of it again |
| `events`, `config`, `logger` | none | pure functions, environment | all | data conversion |
| `main`, `App.Run`, HTTP server | contexts, error channel | start, `Run`, `ListenAndServe`, exit | all; docker restarts the process | a signal, two results and a kill race; handlers are cut off 200 ms later; exit code; a late frame; reconnects until cancelled |

`PROJECT.json` lists the hazards at their lines, with the properties that watch over each.

## The modules

**`WSClient`** is the core. A caller is the goroutine of an HTTP handler inside one operation; its
control point `pc` walks through `callRPC`: `call` (read `conn`), `register`, `lock`, `write`, `wait`,
`return`. The goroutine of `App.Run` has `serve`: `connect`, `read`, `deliver`, `clear`, `wake`, `retry`.
Each action is one critical section or one blocking operation, so that every gap between two locks in
the code is a gap in the model: `ReadReply` takes the entry out of the map (`mu`) and `Deliver` sends on
the channel later; `ClearActiveConn` replaces the map, `Wake` reaches one channel at a time, and only
then does `CloseConn` close the connection, in the order of the deferred calls. Frames are records with
a request id; the gateway answers late, out of order, more than once, or never. A write on a broken
connection may still succeed. The automatic message is written without `writeMu`, so it may overlap a
caller's write; then either writer may get an error or panic, whether its frame had gone out or not
(`Reached`), with the consequences the code has. `late` is a history variable: the callers that registered
in the map after the connection they are about to write to was taken out of `Client.conn`. Such a caller
is in the map of the next connection and sends to one nobody reads; only its timer or the end of the next
connection wakes it. `NoLostWakeup` names this exception and ties every other entry to its connection.

**`RpcContract`** says what one isolated call promises: one outcome, a verdict only from the gateway on
that very call, `ws_not_connected` only if the gateway has nothing left to execute, and the fallback of
`CreateSession` only after its optional parameters were rejected. `Promise` is what a handler may conclude
from the outcome, now and for ever. **`WSClientImplements`** maps `WSClient` to it (`Phase`, `Told`); the
property `Contract` is the refinement and `OutcomesBind` the promise, both proved in `WSClientProofs`.

**`WSClientInvariant`** holds the inductive invariant, **`WSClientProofs`** the theorems.

**`Handshake`** opens the step `ConnectOK`/`ConnectFail` of `WSClient`: deadlines are a name and a flag
`expired`, the inbox is a sequence, and a failed read stays failed, as in gorilla/websocket v1.5.
`HandshakeProofs` proves its invariant.

**`Forwarding`** models what becomes of the events of one session, and the delivery options. Options are known
by the number of the call that set them, `mem` is the map's entry, `row` the database's. Sessions share
nothing but locks, so one is enough. `CallWebhook` is a call with all its retries: `SentOnce` counts calls,
and what one makes the receiver hear is the matter of `Webhook`. `Restart` loses the goroutines and the map
but not the tables, and runs `store.New` again: the new process has its database or goes on without
(`persistent`), whatever the one before it had. Without it no key is looked up, no options are read
(`Readable`) and none are written, so that a later process with it finds the rows of an earlier one.
`unchecked` (how often an event was let through without an answer of the table), `promised`, `undisturbed`,
`stored`, `dropped`, `solo` and `gone` are history variables: no action reads them to decide what the code
does. `ForwardingProofs` proves at-most-once, `QuietProofs` what the model says of the options.

**`SendApi`** models the two handlers. An attempt is one HTTP request, numbered as they arrive; a repeated
message is another attempt with the same key. Session keys and idempotency keys are sequences of the parts
between their colons, so that `Scoped`, which the code builds by joining with a colon, is `\o`, and two
pairs can give one key. An RPC is one step, `Gateway`, with the outcomes that `RpcContract` allows (the
client modelled here has no automatic message, so no call is aborted by a panic) and with what they tell by
its `Promise`: `ok` that the message was taken, a rejection that it never will be, and
`gateway_connectivity_error` nothing, so that the message is `onWay` and the gateway may take it later
(`TakeLate`). A restart leaves the messages that were being sent on their way too, and decides anew whether
there is a database. The delivery options are set in one step, which `Forwarding` opens: `delivery` is the
map, `row` the table. The gateway gets sessions from others and drops them as it likes:
any session may be missing at any time. `insert` is a history variable: what became of the insert of an
attempt's key, `unchecked` if its process had no database.

**`SendContract`** is what a client of `/v1/sessions/send` is promised when it repeats a message with its
key: one request claims the key for ever, another gets past it only at the price of a failed insert or in a
process that came up without its database; ok is
said of messages that were taken, a refusal of those that never will be, and no answer leaves it open. The
table, the sessions, their creation and the second send are gone from it. **`SendApiImplements`** maps
`SendApi` to it; `SendApiProofs` proves the refinement and the safety properties.

**`Webhook`** is the loop of `sendToURL`, for any number of calls at once: `start`, `posting`, `delay`, and
a result. A request has three outcomes: taken and answered, not taken, taken and the answer lost. The
module says nothing of time, and only reads whether a call's context has `ended`: it is a part, which
`Hermes` and `Lifecycle` extend. `WebhookProofs` holds the lemmas that both use: each step keeps
`WebhookInv`.

**`Hermes`** is one job of `POST /v1/hermes/send` (jobs share nothing): `start`, `token`, `dial` (the `ways`
of `dialWithAuthFallback` left to try), `setup` (the two writes), `read`, `callback`. It has a clock: a
wait has a `limit`, which `Tick` cannot pass, and the context ends at `Deadline`. So the model tells what the
context bounds (dials, callback) from what has a deadline of its own (reads). Frames of the terminal are
known by their kind: `notice` (title, prompt), `blank`, `output`, `echo` (the command with the marker),
`exit`, or the exit line in two pieces, `head` and `tail`, which the code joins with a newline between
them. **`JobContract`** is what the 202 promises: one verdict, told a bounded number of times, and not after
the end of the job. `Contract` is the refinement, proved in `HermesProofs`.

**`Lifecycle`** is the process: the control points of `main`, of `App.Run` with `Serve` as far as it looks at
its context (`run`), and of the HTTP server (`http`); the channel `errCh`; signals, kills, the exit and the
restart by docker. With it run the handlers of events, each from `RegisterDedupeKey` to the end of its
webhook call, under the context that a signal ends. `ended`, the variable of `Webhook`, is set by `Signal`
for all of them. Waits may end at any time, so nothing depends on how 200 ms, ten seconds and the delays
compare; that the ten seconds of `Shutdown` never pass is the one fact used, for `main` is gone by then.
`insert`, `late` and `interrupted` (the calls that a context at its end
kept from an attempt, or that were cut off with their process) are history variables.

## The runs

Every run that passes checks all its properties on all reachable states; the bounds follow.

| Run | Shows | Bounds, and why they are enough |
|---|---|---|
| `wsclient` | no lost wake-up but that of a late registration, no dropped response, leaked entry, mixed-up answer; one writer; no connection but the one served; `IInv`; `Contract` and what its outcomes tell | 2 callers (all races are between two calls, or a call and the server), 2 connections (a late registration on the old one beside the new), operations with and without a fallback |
| `wsclient_auto` | `IInv`, from which the same follows for the calls, and `Contract`, while the automatic message races them; not `OneWriter`, which the code breaks | 1 connection, `WS_RECONNECT=false`, creations with a key and without, answers that echo none |
| `wsclient_live` | every call returns; a break releases those that wait | 1 connection, two calls that name an agent but no key and may fall back |
| `handshake` | `ServedIsUsable`, `HandshakeInv`, `AttemptEnds`, `Recovers` | 3 frames in flight, attempts without bound |
| `handshake_direct` | violated: see findings | 2 frames in flight |
| `forwarding` | at most once but for events that got no answer of the table; options survive, where they can be read, when no handler interferes; cleared options stay cleared; `QuietInv`, from which these two are proved | 2 overlapping handlers, 2 frames (two events or copies of one: every race is between two handlers, or one and a set), 2 sets, 1 failed statement, 2 restarts, each of the three starts with its database or without (so that a process without it can stand between two that have it) |
| `forwarding_set` | violated: see findings | no failures, no restart |
| `sendapi` | a keyed message is taken at most once but for requests that got no answer of the table; replies tell the truth; refused requests change nothing; only copies are duplicates, if keys have no colon; every request is answered; `Contract` | 2 attempts (a request and its copy, or two that race for a session), 2 session keys and 2 idempotency keys, one with a colon, that join to one text in two ways, 1 failed insert, 1 restart, each of the two starts with its database or without; any outcome of any RPC, answers as late as they like |
| `sendapi_retry`, `sendapi_ttl` | violated: see findings | no failures, no restart |
| `hermes` | a job ends, in bounded time, with one verdict, tried to be told; `ok` means what `OkTells` says; `Contract` | 3 frames, 3 attempts, time in units of about five seconds: a job that decides at once has time for its three attempts, one that decides late has not, and one whose context ends during a read decides after it |
| `lifecycle` | the process stops and its exit code tells why; a late event is harmless; one handler calls the webhook; what can lose an event | 2 frames, copies of one event (every race is between two handlers, or one and `main`), 2 attempts, 1 restart; kills, signals and failures at any step |

Deadlock is not checked: in every instance the system may stop, at a bound or because its context ended.

**Fairness.** `WSClient`: each caller's step and the server's are weakly fair, for the Go scheduler runs
every goroutine that can go on; a read on a dead connection returns its error after the data; the 30 s
timers fire (`TimersFire`), which only `CallsTerminate` assumes. It is assumed that a write returns: the
code sets no write deadline, and against a peer that stops reading neither property would hold. Nothing
is assumed of the gateway. `Handshake`: the client's steps, time, and a gateway that answers while the
link is up; from some moment on, `calm`, neither gateway nor network misbehaves, and `Recovers` is about
what follows. A read past its deadline fails though frames keep coming (`ChallengeTimeout`,
`ResponseError`). `SendApi`: some attempt that can step does, again
and again (less than fairness of each), since RPCs return (`CallsTerminate`). `Hermes`: the goroutine of
the job runs, and time passes; the two writes to the terminal take no time, for they have no deadline
either. `Lifecycle`: `main` runs and its 200 ms pass; `App.Run` runs once `Serve` has returned. `Serve`,
the HTTP server and the handlers may stand still for ever, so that `Stops` shows that `main` needs none of
them to exit. Nothing is assumed of gateways, terminals and receivers.

## Findings

1. **Direct connect never works** (`handshake_direct`, client.go:387 against client.go:288). When the
   2 s challenge deadline passes, the same connection's next read fails at once, so a gateway that sends
   no challenge is given up as `connect_rejected` within moments.
2. **A handler undoes the options of a completed send** (`forwarding_set`, app.go:215, README.md:113).
   A handler that read the row of an earlier call stores it over the options set in between.
3. **A failed message cannot be repeated with its key** (`sendapi_retry`, server.go:174, README.md:115).
   The key is taken before the checks and the send, and the retry is answered `ok`.
4. **Keys never expire** (`sendapi_ttl`, store.go:148, docs/manual-tecnico-api-go.md:324).

What the passing properties had to make room for is worth as much:

* README.md:116 speaks of no repeated callback for the same event. That holds of the handlers, of which one
  calls the webhook (`AskedByOne`, `SentOnce`), but for those whose insert failed; not of the receiver: it
  hears of an event again as often as its answer came late or was lost (`RepeatsAreLostAnswers`). Across a
  crash an event may be lost instead (`LossExplained`).
* A process that finds no database when it starts goes on without (store.go:45-59) and never tries again.
  Until it is restarted it takes every event and every key for new, so copies pass on both sides without any
  failed statement, and it uses the default options for sessions whose row holds others. Options that it was
  given itself are gone after the next restart, and older ones of the row are back (`SentOnce`,
  `AcceptedOnce` and `SendContract` count such copies; `SetSurvives` leaves out such a process).
* An idempotency key with a colon can be taken for the key of another session (`DuplicateHasOriginal`
  needs `Plain`).
* A terminal that echoes what is typed makes every command succeed at once, without its output, for the
  echo contains the marker; output before an abnormal close is taken for a success, and an exit line that
  comes in two frames is not recognised, so that the job waits for its deadline (`OkTells`).
* A command that is still read when its context ends gets no callback at all (`Tried` speaks of verdicts
  before `Deadline`). The context lasts five seconds longer than `HERMES_TIMEOUT_SECONDS`, which the read
  alone may take: a token request or dials of more than five seconds before it are enough.

## What is proved

For any number of callers, connections, handlers, events, frames in flight and of failures:

* `WSClientProofs`: `TypeCorrect`, `Inductive`, `NoWakeupIsLost`, `NoSendIsDropped`, `NoEntryLeaks`,
  `RepliesMatch`, `ConnectionsAreServed`, `CallsOnlyAdvance`, `ClientKeepsContract`, `OutcomesTell`, and,
  assuming `~AutoSend`, `WritesExclusive`. `NoLostWakeup` is not inductive alone: that a send finds its
  channel empty needs to know where a channel can be, and that an entry is in the map of its own connection
  needs to know that calls find no connection but the one that is served (`OneConnection`). The invariant
  `IInv` includes that, and says that a channel is in one place at a time (unused, in the map, in the hands of
  `resolvePending`, in those of `clearActiveConn`, or filled: `OnePlace`, `ChansFresh`), that numbers are
  handed out once (`NumbersUnique`), that hands are empty outside their control point (`HandsEmpty`), and that
  what is in a hand or a channel answers the request of that channel (`AnswersOwn`). For the contract it adds
  what the gateway can know of a call (`RequestsTell`): a request carries the number of the call that wrote
  it, was written once, is answered in one way, and is a fallback only if the first was rejected for its
  parameters; a call that has not written is unknown to the gateway, so `ws_not_connected` leaves it nothing
  to execute. `OutcomesTell` is proved of the contract's own steps and carried over by the refinement, so it
  holds of whatever implements the contract. To keep the proof short the actions are sorted by what they do to
  these (`Advance`, `Background`), and each conjunct is proved once per kind.
* `HandshakeProofs`: `ServesUsable`, `AttemptsOnlyAdvance`. The invariant adds that an acceptance on its way
  belongs to this connection's request, for a dial starts with nothing in flight.
* `ForwardingProofs`: `SendsAtMostOnce`. The invariant adds the handlers that are past the insert and
  about to send to the number of calls, and weighs them against the key in the table and the handlers that
  got no answer of it (`Accounted`): so it does not matter which of the processes had their database. The
  proof counts them with the library's facts on finite sets.
* `QuietProofs`: `QuietSetsSurvive`, `QuietClearsHold`. Survival is not inductive: it must be known where the
  last options are while the call is still under way, and that no handler carries older ones towards the map
  (`Owed`, `Held`): in the map, or in a row that a process without its database leaves as it is; calls begin
  in order (`Begun`), and a handler that removes options while alone finds no others (`SoloTells`,
  `GoneTells`).
* `SendApiProofs`: `OneIsAccepted`, `CopiesAreBounded`, `AnswersTell`, `RefusalsAreInert`,
  `DuplicatesHaveOriginals`, `RequestsOnlyAdvance`, `SendKeepsContract`. The invariant `SendInv` ties every
  row of the table to a request that was let through, and lets one request only claim to have made it
  (`RowsTell`), whether this process can see the table or not; that options belong to requests that got past
  their checks (`OptionsTell`); and what the control point says of answers and messages (`Phases`).
  `CopiesAreBounded` counts the copies against the failed inserts (`ErrorsCount`) and the requests that came
  to a process without its database.
* `HermesProofs`: `CallbackIsTried`, `JobsAreBounded`, `RepeatsAreLost`, `JobKeepsContract`, `OkIsTold`,
  `JobsRunDown`. The invariant
  bounds every limit by the context or by the read deadline (`Timely`), and says that while the context
  lives every attempt of the callback was posted (`OnTheWay`), on top of `WebhookInv`. `OkIsTold` rests on
  `ExitTold`: no exit line is on its way or collected unless the command has come to its end.
* `LifecycleProofs`: `ExitCodesTell`, `LateEventsAreHarmless`, `OneAsks`, `LossesAreExplained`. The
  invariant says what each result in `errCh` implies (`ResultsTell`), what the result of an insert has to
  do with the table and the call (`InsertsTell`), that a handler started late is the last of its process
  (`LateOnes`), and that a handler which neither the end of its
  context nor that of its process `interrupted` has made all the attempts its verdict speaks of (`Undisturbed`).

`CallsOnlyAdvance`, `RequestsOnlyAdvance`, `AttemptsOnlyAdvance` and `JobsRunDown` are the safe half of
`CallsTerminate`, `Answered`, `AttemptEnds` and `JobEnds`: each step of one lowers a measure of what is left,
so that a call, request, attempt or job which does not end stands still. That it does not stand still is
liveness. The measure of a job (`JobLeft`) counts its clock and the frames of its terminal too: it ends after
at most `JobLeft` steps and ticks, whatever `MaxFrames` is. The terminal of the program may send without end;
then the deadline of the reads ends the job, not the frames (`JobsAreBounded`).

The assumptions are the ASSUMEs of the modules, which TLC evaluates in every run. Only model-checked:
the liveness properties, which are out of the prover's reach.

## Not modelled, and what is left

* `config` and `logger`: sequential, run once before anything else; their values are CONSTANTS, and what
  `Validate` demands of them the assumptions.
* The text of frames, payloads, URLs and outputs. `ShouldForward`, `requiresSessionKey` and `isFinalEvent`
  are predicates on one frame that the models take as arbitrary sets; nothing in the repository says which
  frames ought to be final, so a model could only repeat the code (see the hazard at app.go:280).
  `BuildPayload`, `resolveSessionKey` and `cleanupTTYOutput` convert data that no property tells apart.
* The health endpoints answer a constant. Requests refused for their form change nothing.
* A write that blocks for ever, in `WSClient` and in `Hermes`: the code sets no deadline for it.
* The pool of HTTP connections and of database connections: a call returns or its context ends.
