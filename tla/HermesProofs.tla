----------------------------- MODULE HermesProofs -----------------------------
(* Proofs about Hermes, for any timeouts, delays and number of attempts:   *)
(* every job has a bounded life, and its callback a fair try.              *)
EXTENDS Hermes, WebhookProofs

(* What the constants are to the steps below.                              *)
LEMMA Constants ==
  /\ Job \in Deliveries
  /\ HermesTimeout \in Nat /\ Grace \in Nat /\ RetryDelay \in Nat /\ WebhookTimeout \in Nat
  /\ MaxAttempts \in Nat /\ MaxAttempts > 0
  /\ Deadline \in Nat /\ HermesTimeout < Deadline
BY HermesAssumption, WebhookAssumption DEF HermesAssumption, WebhookAssumption, Deadline

(* The earlier of two points of time.                                      *)
LEMMA EarlierOK ==
  ASSUME NEW s \in Nat, NEW t \in Nat
  PROVE  Earlier(s, t) \in Nat /\ Earlier(s, t) <= s /\ Earlier(s, t) <= t
                               /\ (Earlier(s, t) = s \/ Earlier(s, t) = t)
BY DEF Earlier

(* The ways to dial are some, each of a known name.                        *)
LEMMA WaysOK ==
  ASSUME NEW b \in BOOLEAN, NEW t \in BOOLEAN
  PROVE  /\ Ways(b, t) \in Seq({"basic", "token", "token+basic", "plain"})
         /\ Ways(b, t) # <<>>
<1> DEFINE S == {"basic", "token", "token+basic", "plain"}
<1> DEFINE w == (IF b THEN <<"basic">> ELSE <<>>)
                  \o (IF t THEN <<"token">> ELSE <<>>)
                  \o (IF b /\ t THEN <<"token+basic">> ELSE <<>>)
<1>1. w \in Seq(S)
  <2>0. /\ <<"basic">> \in Seq(S) /\ <<"token">> \in Seq(S) /\ <<"token+basic">> \in Seq(S)
        /\ <<>> \in Seq(S)
    OBVIOUS
  <2>1. /\ (IF b THEN <<"basic">> ELSE <<>>) \in Seq(S)
        /\ (IF t THEN <<"token">> ELSE <<>>) \in Seq(S)
        /\ (IF b /\ t THEN <<"token+basic">> ELSE <<>>) \in Seq(S)
    BY <2>0
  <2> QED
    BY <2>1
<1>2. <<"plain">> \in Seq(S) /\ <<"plain">> # <<>>
  OBVIOUS
<1>3. Ways(b, t) = IF w = <<>> THEN <<"plain">> ELSE w
  BY DEF Ways
<1> HIDE DEF w
<1> QED
  BY <1>1, <1>2, <1>3

(* A verdict starts the callback.                                          *)
LEMMA DecideOK ==
  ASSUME HermesInv, pc \notin {"idle", "callback", "done", "cut"},
         NEW v \in {"ok", "failed"}, Decide(v),
         UNCHANGED <<configVars, clock, ended, frames, term>>, closing' = closing,
         ways' \in Seq({"basic", "token", "token+basic", "plain"}), chunks' \subseteq Kinds
  PROVE  HermesInv'
<1> USE Constants
<1>1. WebhookInv'
  BY CallOK DEF HermesInv, Decide
<1>2. pc' = "callback" /\ limit' = clock /\ verdict' = v /\ decided' = clock /\ wire' = <<>>
      /\ clock' = clock /\ ended' = ended
  BY DEF Decide, Wait
<1>3. wpc'[Job] = "start" /\ attempt'[Job] = 1 /\ posted' = posted
  BY DEF Decide, Call, GoTo, HermesInv, WebhookInv, WebhookTypeOK
<1>4. wpc[Job] = "idle" /\ attempt[Job] = 0 /\ posted[Job] = 0
  <2>1. wpc[Job] = "idle"
    BY DEF Decide, Call
  <2>2. attempt[Job] = 0
    BY <2>1 DEF HermesInv, WebhookInv, Progress
  <2>3. posted[Job] \in Nat
    BY DEF HermesInv, WebhookInv, WebhookTypeOK
  <2>4. posted[Job] + (IF wpc[Job] = "start" THEN 1 ELSE 0) <= attempt[Job]
    BY DEF HermesInv, WebhookInv, Progress
  <2> QED
    BY <2>1, <2>2, <2>3, <2>4
<1>5. clock \in Nat /\ clock <= Deadline + HermesTimeout
  BY DEF HermesInv, TypeOK, Timely
<1>6. <<>> \in Seq(Kinds)
  OBVIOUS
<1>7. TypeOK'
  <2>1. /\ validUrl' \in BOOLEAN /\ basic' \in BOOLEAN /\ echoes' \in BOOLEAN
        /\ term' \in {"off", "prompt", "running", "exiting", "finished"}
        /\ closing' \in {"open", "abnormal", "other"}
        /\ frames' \in Nat
    BY DEF HermesInv, TypeOK, configVars
  <2>2. ended' = IF clock' >= Deadline THEN {Job} ELSE {}
    BY <1>2 DEF HermesInv, TypeOK
  <2>3. /\ clock' \in Nat /\ limit' \in Nat /\ decided' \in Nat
        /\ pc' \in PCs /\ verdict' \in {"none", "ok", "failed"} /\ wire' \in Seq(Kinds)
    BY <1>2, <1>5, <1>6 DEF PCs
  <2> QED
    BY <2>1, <2>2, <2>3 DEF TypeOK
<1>8. Timely'
  BY <1>2, <1>3, <1>5 DEF Timely
<1>9. OnTheWay'
  BY <1>2, <1>3, <1>4, <1>5 DEF OnTheWay
<1> QED
  BY <1>1, <1>7, <1>8, <1>9 DEF HermesInv

(* The steps of SendCommand.                                               *)
LEMMA CommandOK ==
  ASSUME HermesInv,
         Accept \/ Start \/ FetchToken \/ DialOK \/ DialFail \/ Setup \/ Read \/ ReadClosed
           \/ ReadTimeout
  PROVE  HermesInv'
<1> USE Constants
<1>h. /\ clock \in Nat /\ limit \in Nat
      /\ ways \in Seq({"basic", "token", "token+basic", "plain"})
      /\ chunks \subseteq Kinds /\ wire \in Seq(Kinds)
  BY DEF HermesInv, TypeOK
<1>d. DialUntil \in Nat /\ DialUntil <= Deadline /\ (clock <= Deadline => clock <= DialUntil)
  BY <1>h, EarlierOK DEF DialUntil, Earlier
<1>w. ASSUME Undecided PROVE WebhookInv' /\ UNCHANGED <<verdict, decided, wire, wpc, attempt, posted>>
  BY <1>w, WebhookIdleOK DEF HermesInv, Undecided, webhookVars
<1>1. CASE Accept
  <2>1. pc = "idle" /\ pc' = "start" /\ limit' = clock /\ clock' = clock
    BY <1>1 DEF Accept, Wait
  <2> QED
    BY <1>1, <1>h, <1>w, <2>1
       DEF Accept, HermesInv, TypeOK, Timely, OnTheWay, PCs, configVars, terminalVars
<1>2. CASE Start
  <2>1. CASE validUrl
    <3>1. pc = "start" /\ pc' = "token" /\ limit' = clock + HermesTimeout /\ Undecided
      BY <1>2, <2>1 DEF Start, Wait
    <3>2. clock = 0
      BY <3>1 DEF HermesInv, Timely
    <3> QED
      BY <1>2, <1>h, <1>w, <3>1, <3>2
         DEF Start, HermesInv, TypeOK, Timely, OnTheWay, PCs, configVars, terminalVars
  <2>2. CASE ~validUrl
    BY <1>2, <1>h, <2>2, DecideOK DEF Start, configVars, terminalVars
  <2> QED
    BY <2>1, <2>2
<1>3. CASE FetchToken
  <2>1. pc = "token" /\ pc' = "dial" /\ limit' = DialUntil /\ Undecided
    BY <1>3 DEF FetchToken, Wait
  <2>2. ways' \in Seq({"basic", "token", "token+basic", "plain"}) /\ ways' # <<>>
    BY <1>3, WaysOK DEF FetchToken, HermesInv, TypeOK
  <2>3. clock <= Deadline
    BY <1>h, <2>1 DEF HermesInv, Timely
  <2> QED
    BY <1>3, <1>h, <1>d, <1>w, <2>1, <2>2, <2>3
       DEF FetchToken, HermesInv, TypeOK, Timely, OnTheWay, PCs, configVars, terminalVars
<1>4. CASE DialOK
  <2>1. pc = "dial" /\ pc' = "setup" /\ limit' = clock /\ Undecided /\ term' = "prompt"
    BY <1>4 DEF DialOK, Wait
  <2>2. clock < Deadline
    BY <1>4, <1>h DEF DialOK, HermesInv, TypeOK
  <2> QED
    BY <1>4, <1>h, <1>w, <2>1, <2>2
       DEF DialOK, HermesInv, TypeOK, Timely, OnTheWay, PCs, configVars
<1>5. CASE DialFail
  <2>1. pc = "dial" /\ ways # <<>> /\ ways' = Tail(ways)
    BY <1>5 DEF DialFail, HermesInv, OnTheWay
  <2>2. ways' \in Seq({"basic", "token", "token+basic", "plain"})
    BY <1>h, <2>1
  <2>3. CASE Tail(ways) = <<>>
    BY <1>5, <1>h, <2>1, <2>2, <2>3, DecideOK DEF DialFail, configVars, terminalVars
  <2>4. CASE Tail(ways) # <<>>
    <3>1. pc' = "dial" /\ limit' = DialUntil /\ Undecided
      BY <1>5, <2>4 DEF DialFail, Wait
    <3>2. clock <= Deadline
      BY <1>h, <2>1 DEF HermesInv, Timely
    <3> QED
      BY <1>5, <1>h, <1>d, <1>w, <2>1, <2>2, <2>4, <3>1, <3>2
         DEF DialFail, HermesInv, TypeOK, Timely, OnTheWay, PCs, configVars, terminalVars
  <2> QED
    BY <2>3, <2>4
<1>6. CASE Setup
  <2>1. CASE Decide("failed") /\ UNCHANGED term
    BY <1>6, <1>h, <2>1, DecideOK DEF Setup, configVars
  <2>2. CASE ~(Decide("failed") /\ UNCHANGED term)
    <3>1. /\ pc = "setup" /\ pc' = "read" /\ limit' = clock + HermesTimeout /\ Undecided
          /\ term' = "running"
      BY <1>6, <2>2 DEF Setup, Wait
    <3>2. clock < Deadline
      BY <3>1 DEF HermesInv, Timely
    <3> QED
      BY <1>6, <1>h, <1>w, <3>1, <3>2
         DEF Setup, HermesInv, TypeOK, Timely, OnTheWay, PCs, configVars
  <2> QED
    BY <2>1, <2>2
<1>7. CASE Read
  <2>1. pc = "read" /\ wire # <<>> /\ Head(wire) \in Kinds /\ Tail(wire) \in Seq(Kinds)
    BY <1>7, <1>h DEF Read
  <2>2. chunks' \subseteq Kinds
    BY <1>7, <1>h, <2>1 DEF Read
  <2>3. CASE Marked(chunks')
    BY <1>7, <1>h, <2>1, <2>2, <2>3, DecideOK DEF Read, configVars
  <2>4. CASE ~Marked(chunks')
    <3>1. UNCHANGED <<pc, limit, verdict, decided, webhookVars>> /\ wire' = Tail(wire)
      BY <1>7, <2>4 DEF Read
    <3>2. WebhookInv'
      BY <3>1, WebhookIdleOK DEF HermesInv
    <3> QED
      BY <1>7, <1>h, <2>1, <2>2, <3>1, <3>2
         DEF Read, HermesInv, TypeOK, Timely, OnTheWay, configVars, webhookVars
  <2> QED
    BY <2>3, <2>4
<1>8. CASE ReadClosed
  <2>1. PICK v \in {"ok", "failed"} : Decide(v)
    BY <1>8 DEF ReadClosed
  <2> QED
    BY <1>8, <1>h, <2>1, DecideOK DEF ReadClosed, configVars, terminalVars
<1>9. CASE ReadTimeout
  BY <1>9, <1>h, DecideOK DEF ReadTimeout, configVars, terminalVars
<1> QED
  BY <1>1, <1>2, <1>3, <1>4, <1>5, <1>6, <1>7, <1>8, <1>9

(* The steps of the callback.                                              *)
LEMMA CallbackOK ==
  ASSUME HermesInv, Callback
  PROVE  HermesInv'
<1> USE Constants
<1>h. /\ clock \in Nat /\ limit \in Nat /\ decided \in Nat
      /\ ended = IF clock >= Deadline THEN {Job} ELSE {}
  BY DEF HermesInv, TypeOK
<1>u. /\ pc = "callback" /\ pc' = "callback" /\ limit' = HookUntil /\ WebhookStep(Job)
      /\ UNCHANGED <<configVars, terminalVars, wire, clock, ended, ways, chunks, verdict, decided>>
  BY DEF Callback
<1>1. WebhookInv /\ WebhookInv'
  BY <1>u, WebhookStepOK DEF HermesInv
<1>2. /\ attempt[Job] \in Nat /\ attempt[Job] <= MaxAttempts
      /\ posted[Job] \in Nat /\ posted[Job] <= attempt[Job]
      /\ wpc[Job] = "start" => posted[Job] < attempt[Job]
  BY <1>1 DEF WebhookInv, WebhookTypeOK, Progress
<1>3. /\ HookUntil \in Nat
      /\ wpc'[Job] = "posting" => HookUntil <= Deadline
  <2>1. RetryDelay * attempt[Job] \in Nat
    BY <1>2
  <2> QED
    BY <1>h, <1>2, <2>1, EarlierOK DEF HookUntil
<1>4. TypeOK'
  BY <1>h, <1>u, <1>3 DEF HermesInv, TypeOK, configVars, terminalVars
<1>5. Timely'
  BY <1>h, <1>u, <1>3 DEF HermesInv, Timely
<1>f. ASSUME Failed(Job)
      PROVE  /\ attempt' = attempt
             /\ \/ wpc'[Job] = "failed" /\ attempt[Job] = MaxAttempts
                \/ wpc'[Job] = "delay"
  BY <1>1, <1>f DEF Failed, Spent, GoTo, WebhookInv, WebhookTypeOK
<1>6. OnTheWay'
  <2>0. /\ decided <= clock /\ wpc[Job] # "idle"
        /\ clock < Deadline =>
             posted[Job] = attempt[Job] - (IF wpc[Job] = "start" THEN 1 ELSE 0)
        /\ decided < Deadline /\ clock >= Deadline => posted[Job] >= 1
    BY <1>u DEF HermesInv, OnTheWay
  <2>1. /\ wpc'[Job] # "idle"
        /\ clock < Deadline =>
             posted'[Job] = attempt'[Job] - (IF wpc'[Job] = "start" THEN 1 ELSE 0)
        /\ decided < Deadline /\ clock >= Deadline => posted'[Job] >= 1
        /\ wpc'[Job] = "failed" => attempt'[Job] = MaxAttempts
        /\ wpc'[Job] = "cancelled" => clock >= Deadline
    <3> USE DEF GoTo, WebhookInv, WebhookTypeOK
    <3>1. CASE Post(Job)
      <4>1. CASE Job \in ended
        <5>1. Failed(Job) /\ posted' = posted /\ wpc[Job] = "start" /\ clock >= Deadline
          BY <1>h, <3>1, <4>1 DEF Post
        <5> QED
          BY <1>h, <1>f, <2>0, <5>1
      <4>2. CASE Job \notin ended
        BY <1>1, <1>2, <1>h, <2>0, <3>1, <4>2 DEF Post
      <4> QED
        BY <4>1, <4>2
    <3>2. CASE Delivered(Job)
      BY <1>1, <1>2, <2>0, <3>2 DEF Delivered
    <3>3. CASE Refused(Job)
      <4>1. Failed(Job) /\ posted' = posted /\ wpc[Job] = "posting"
        BY <3>3 DEF Refused
      <4> QED
        BY <1>f, <1>2, <2>0, <4>1
    <3>4. CASE AnswerLost(Job)
      <4>1. Failed(Job) /\ posted' = posted /\ wpc[Job] = "posting"
        BY <3>4 DEF AnswerLost
      <4> QED
        BY <1>f, <1>2, <2>0, <4>1
    <3>5. CASE Again(Job)
      BY <1>1, <1>2, <2>0, <3>5 DEF Again
    <3>6. CASE GiveUp(Job)
      BY <1>1, <1>2, <1>h, <2>0, <3>6 DEF GiveUp
    <3> QED
      BY <1>u, <3>1, <3>2, <3>3, <3>4, <3>5, <3>6 DEF WebhookStep
  <2> QED
    BY <1>u, <2>0, <2>1 DEF OnTheWay
<1> QED
  BY <1>1, <1>4, <1>5, <1>6 DEF HermesInv

(* The end of the job, and of the process.                                 *)
LEMMA EndOK ==
  ASSUME HermesInv, Return \/ Exit
  PROVE  HermesInv'
<1> USE Constants
<1>1. /\ pc' \in {"done", "cut"}
      /\ pc' = "done" => pc = "callback" /\ wpc[Job] \in Results
      /\ UNCHANGED <<configVars, terminalVars, clock, ended, limit, ways, chunks,
                     verdict, decided, wire, webhookVars>>
  BY DEF Return, Exit, Undecided
<1>2. WebhookInv'
  BY <1>1, WebhookIdleOK DEF HermesInv
<1>3. UNCHANGED <<wpc, attempt, posted>>
  BY <1>1 DEF webhookVars
<1>4. TypeOK'
  BY <1>1 DEF HermesInv, TypeOK, PCs, configVars, terminalVars
<1>5. Timely'
  BY <1>1, <1>3 DEF HermesInv, Timely
<1>6. OnTheWay'
  BY <1>1, <1>3 DEF HermesInv, OnTheWay
<1> QED
  BY <1>2, <1>4, <1>5, <1>6 DEF HermesInv

(* The steps of the terminal.                                              *)
LEMMA TerminalOK ==
  ASSUME HermesInv, Chatter \/ Finish \/ Close
  PROVE  HermesInv'
<1>1. UNCHANGED <<configVars, jobVars, clock, ended, webhookVars>>
  BY DEF Chatter, Finish, Close, Sends
<1>2. /\ wire' \in Seq(Kinds) /\ frames' \in Nat
      /\ term' \in {"off", "prompt", "running", "exiting", "finished"}
      /\ closing' \in {"open", "abnormal", "other"}
  <2>0. /\ wire \in Seq(Kinds) /\ frames \in Nat
        /\ term \in {"off", "prompt", "running", "exiting", "finished"}
        /\ closing \in {"open", "abnormal", "other"}
    BY DEF HermesInv, TypeOK
  <2>s. ASSUME NEW f \in Kinds, Sends(f)
        PROVE  wire' \in Seq(Kinds) /\ frames' \in Nat /\ closing' = closing
    BY <2>0, <2>s DEF Sends
  <2>1. CASE Chatter
    <3>1. PICK f \in Kinds : Sends(f)
      BY <2>1 DEF Chatter, Kinds
    <3> QED
      BY <2>0, <2>1, <2>s, <3>1 DEF Chatter
  <2>2. CASE Finish
    <3>1. PICK f \in Kinds : Sends(f)
      BY <2>2 DEF Finish, Kinds
    <3>2. term' \in {"exiting", "finished"}
      BY <2>2 DEF Finish
    <3> QED
      BY <2>0, <2>s, <3>1, <3>2
  <2>3. CASE Close
    BY <2>0, <2>3 DEF Close
  <2> QED
    BY <2>1, <2>2, <2>3
<1>3. WebhookInv'
  BY <1>1, WebhookIdleOK DEF HermesInv
<1>4. TypeOK'
  BY <1>1, <1>2 DEF HermesInv, TypeOK, configVars, jobVars
<1>5. Timely'
  BY <1>1 DEF HermesInv, Timely, jobVars, webhookVars
<1>6. OnTheWay'
  BY <1>1 DEF HermesInv, OnTheWay, jobVars, webhookVars
<1> QED
  BY <1>3, <1>4, <1>5, <1>6 DEF HermesInv

(* Time passes.                                                            *)
LEMMA TickOK ==
  ASSUME HermesInv, Tick
  PROVE  HermesInv'
<1> USE Constants
<1>1. /\ clock \in Nat /\ limit \in Nat /\ clock < limit /\ clock' = clock + 1
      /\ ended' = IF clock' >= Deadline THEN {Job} ELSE {}
      /\ UNCHANGED <<configVars, terminalVars, wire, jobVars, webhookVars>>
  BY DEF Tick, Waiting, HermesInv, TypeOK
<1>2. WebhookInv'
  BY <1>1, WebhookIdleOK DEF HermesInv
<1>3. TypeOK'
  BY <1>1 DEF HermesInv, TypeOK, configVars, terminalVars, jobVars
<1>4. \/ pc \in {"token", "dial", "read"}
      \/ pc = "callback" /\ wpc[Job] = "posting"
      \/ pc = "callback" /\ wpc[Job] = "delay" /\ clock < Deadline
  BY <1>1 DEF Tick, Waiting, HermesInv, TypeOK
<1>5. Timely'
  BY <1>1, <1>4 DEF HermesInv, Timely, jobVars, webhookVars
<1>6. OnTheWay'
  <2>1. CASE pc \in {"token", "dial", "read"}
    BY <1>1, <2>1 DEF HermesInv, OnTheWay, jobVars, webhookVars
  <2>2. CASE pc = "callback"
    <3>0. wpc[Job] \in {"posting", "delay"} /\ posted[Job] \in Nat /\ attempt[Job] \in Nat
      BY <1>4, <2>2 DEF HermesInv, WebhookInv, WebhookTypeOK
    <3>1. /\ decided \in Nat /\ decided <= clock
          /\ clock < Deadline => posted[Job] = attempt[Job]
          /\ decided < Deadline /\ clock >= Deadline => posted[Job] >= 1
      BY <2>2, <3>0 DEF HermesInv, TypeOK, OnTheWay
    <3>2. attempt[Job] # 0
      BY <3>0 DEF HermesInv, WebhookInv, Progress
    <3>3. UNCHANGED <<pc, decided, wpc, attempt, posted, verdict, ways>>
      BY <1>1 DEF jobVars, webhookVars
    <3>4. clock' = clock + 1 /\ clock \in Nat
      BY <1>1
    <3> QED
      BY <2>2, <3>0, <3>1, <3>2, <3>3, <3>4 DEF OnTheWay
  <2> QED
    BY <1>4, <2>1, <2>2
<1> QED
  BY <1>2, <1>3, <1>5, <1>6 DEF HermesInv

(* The inductive invariant holds of every reachable state of the job.      *)
THEOREM HermesInductive == Spec => []HermesInv
<1>1. Init => HermesInv
  <2> SUFFICES ASSUME Init PROVE HermesInv
    OBVIOUS
  <2> USE Constants
  <2>1. WebhookInv
    BY WebhookInitOK DEF Init
  <2>2. wpc[Job] = "idle"
    BY DEF Init, WebhookInit
  <2>3. <<>> \in Seq(Kinds) /\ <<>> \in Seq({"basic", "token", "token+basic", "plain"})
    OBVIOUS
  <2>4. TypeOK
    BY <2>3 DEF Init, TypeOK, PCs
  <2>5. Timely /\ OnTheWay
    BY <2>2 DEF Init, Timely, OnTheWay
  <2> QED
    BY <2>1, <2>4, <2>5 DEF HermesInv
<1>2. HermesInv /\ [Next]_vars => HermesInv'
  <2> SUFFICES ASSUME HermesInv, [Next]_vars PROVE HermesInv'
    OBVIOUS
  <2>1. CASE UNCHANGED vars
    <3>1. WebhookInv'
      BY <2>1, WebhookIdleOK DEF HermesInv, vars
    <3>2. TypeOK' /\ Timely' /\ OnTheWay'
      BY <2>1 DEF HermesInv, TypeOK, Timely, OnTheWay, vars, configVars, terminalVars, jobVars,
                  webhookVars
    <3> QED
      BY <3>1, <3>2 DEF HermesInv
  <2>2. CASE Next
    BY <2>2, CommandOK, CallbackOK, EndOK, TerminalOK, TickOK DEF Next, Step
  <2> QED
    BY <2>1, <2>2
<1> QED
  BY <1>1, <1>2, PTL DEF Spec

(* A job is over HERMES_TIMEOUT_SECONDS after its context at the latest.   *)
THEOREM JobsAreBounded == Spec => []Timely
<1>1. HermesInv => Timely
  BY DEF HermesInv
<1> QED
  BY <1>1, HermesInductive, PTL

(* The callback of a job has a fair try.                                   *)
THEOREM CallbackIsTried == Spec => []Tried
<1>1. HermesInv => Tried
  <2> SUFFICES ASSUME HermesInv, pc = "done"
               PROVE  /\ decided < Deadline => posted[Job] >= 1
                      /\ clock < Deadline /\ wpc[Job] # "ok" => posted[Job] = MaxAttempts
    BY DEF Tried
  <2> USE Constants
  <2>1. /\ wpc[Job] \in Results /\ wpc[Job] # "start"
        /\ clock < Deadline => posted[Job] = attempt[Job]
        /\ decided < Deadline /\ clock >= Deadline => posted[Job] >= 1
        /\ wpc[Job] = "failed" => attempt[Job] = MaxAttempts
        /\ wpc[Job] = "cancelled" => clock >= Deadline
        /\ clock \in Nat /\ posted[Job] \in Nat
    BY DEF HermesInv, OnTheWay, TypeOK, Results, WebhookInv, WebhookTypeOK
  <2>2. wpc[Job] = "ok" => posted[Job] >= 1
    BY DEF HermesInv, WebhookInv, WebhookTypeOK, Progress
  <2> QED
    BY <2>1, <2>2 DEF Results
<1> QED
  BY <1>1, HermesInductive, PTL

(* The receiver hears of a job again only when its answer was lost.        *)
THEOREM RepeatsAreLost == Spec => []RepeatsAreLostAnswers
<1>1. HermesInv => RepeatsAreLostAnswers
  BY DEF HermesInv, WebhookInv
<1> QED
  BY <1>1, HermesInductive, PTL

(* A verdict of success tells of the end of the command.                   *)
LEMMA DecideTells ==
  ASSUME ExitTold, NEW v \in {"ok", "failed"}, Decide(v), chunks \subseteq chunks',
         "exit" \in chunks' => "exit" \in chunks \cup {wire[i] : i \in DOMAIN wire},
         term' = term, closing' = closing,
         v = "ok" => \/ Marked(chunks')
                     \/ closing = "abnormal" /\ chunks' # {}
  PROVE  ExitTold' /\ OkTells'
<1>1. pc' = "callback" /\ verdict' = v /\ wire' = <<>>
  BY DEF Decide, Wait
<1>2. "exit" \in chunks' => term' = "finished"
  BY DEF ExitTold
<1>3. ExitTold'
  BY <1>1, <1>2 DEF ExitTold
<1>4. OkTells'
  BY <1>1, <1>2 DEF OkTells, Marked
<1> QED
  BY <1>3, <1>4

(* What is collected and what is on its way change with the terminal only. *)
LEMMA TellsStep ==
  ASSUME HermesInv, ExitTold, OkTells, [Next]_vars
  PROVE  ExitTold' /\ OkTells'
<1> DEFINE W == {wire[i] : i \in DOMAIN wire}
<1>h. chunks \subseteq Kinds /\ wire \in Seq(Kinds)
  BY DEF HermesInv, TypeOK
<1>v. pc \notin {"callback", "done", "cut"} => verdict = "none"
  BY DEF HermesInv, OnTheWay
<1>s. ASSUME UNCHANGED <<term, closing, chunks, wire, verdict>>,
             \/ pc' = pc
             \/ pc' \in {"read", "callback", "done", "cut"}
             \/ pc \in {"idle", "start", "token", "dial"} /\ pc' \in {"start", "token", "dial"}
      PROVE  ExitTold' /\ OkTells'
  BY <1>s DEF ExitTold, OkTells
<1>d. ASSUME NEW v \in {"ok", "failed"}, Decide(v), UNCHANGED <<term, closing, chunks>>,
             v = "ok" => closing = "abnormal" /\ chunks # {}
      PROVE  ExitTold' /\ OkTells'
  BY <1>d, DecideTells
<1>1. CASE Accept
  BY <1>1, <1>s DEF Accept, Wait, Undecided, terminalVars
<1>2. CASE Start
  BY <1>2, <1>s, <1>d DEF Start, Wait, Undecided, terminalVars
<1>3. CASE FetchToken
  BY <1>3, <1>s DEF FetchToken, Wait, Undecided, terminalVars
<1>4. CASE DialOK
  <2>1. /\ pc = "dial" /\ pc' = "setup" /\ term' = "prompt"
        /\ UNCHANGED <<closing, chunks, wire, verdict>>
    BY <1>4 DEF DialOK, Wait, Undecided
  <2> QED
    BY <1>v, <2>1 DEF ExitTold, OkTells
<1>5. CASE DialFail
  BY <1>5, <1>s, <1>d DEF DialFail, Wait, Undecided, terminalVars
<1>6. CASE Setup
  <2>1. CASE Decide("failed") /\ UNCHANGED term
    BY <1>6, <2>1, <1>d DEF Setup
  <2>2. CASE ~(Decide("failed") /\ UNCHANGED term)
    <3>1. /\ pc = "setup" /\ pc' = "read" /\ UNCHANGED <<closing, chunks, wire, verdict>>
      BY <1>6, <2>2 DEF Setup, Wait, Undecided
    <3> QED
      BY <1>v, <3>1 DEF ExitTold, OkTells
  <2> QED
    BY <2>1, <2>2
<1>7. CASE Read
  <2>1. /\ pc = "read" /\ wire # <<>> /\ chunks' = chunks \cup ({Head(wire)} \ {"blank"})
        /\ UNCHANGED <<term, closing>>
    BY <1>7 DEF Read
  <2>2. Head(wire) \in W
    BY <1>h, <2>1
  <2>3. CASE Marked(chunks')
    BY <1>7, <2>1, <2>2, <2>3, DecideTells DEF Read
  <2>4. CASE ~Marked(chunks')
    <3>1. wire' = Tail(wire) /\ pc' = pc /\ verdict' = verdict
      BY <1>7, <2>4 DEF Read
    <3>2. {wire'[i] : i \in DOMAIN wire'} \subseteq W
      <4> SUFFICES ASSUME NEW i \in DOMAIN wire' PROVE wire'[i] \in W
        OBVIOUS
      <4>1. i + 1 \in DOMAIN wire /\ wire'[i] = wire[i + 1]
        BY <1>h, <2>1, <3>1
      <4> QED
        BY <4>1
    <3>3. "exit" \in chunks' \cup {wire'[i] : i \in DOMAIN wire'} => "exit" \in chunks \cup W
      BY <2>1, <2>2, <3>2
    <3>4. ExitTold'
      BY <2>1, <3>1, <3>3 DEF ExitTold
    <3>5. OkTells'
      BY <1>v, <2>1, <3>1 DEF OkTells
    <3> QED
      BY <3>4, <3>5
  <2> QED
    BY <2>3, <2>4
<1>8. CASE ReadClosed
  BY <1>8, <1>d DEF ReadClosed, UnexpectedClose, terminalVars
<1>9. CASE ReadTimeout
  BY <1>9, <1>d DEF ReadTimeout, terminalVars
<1>10. CASE Callback \/ Return \/ Exit \/ Tick \/ UNCHANGED vars
  BY <1>10, <1>s DEF Callback, Return, Exit, Tick, Undecided, terminalVars, jobVars, vars
<1>11. CASE Chatter \/ Finish
  <2>1. PICK f \in Kinds : Sends(f) /\ (f = "exit" => term' = "finished")
    BY <1>11 DEF Chatter, Finish, Kinds
  <2>2. /\ pc \in {"setup", "read"} /\ pc' = pc /\ wire' = Append(wire, f)
        /\ UNCHANGED <<chunks, verdict, closing>>
    BY <2>1 DEF Sends, jobVars
  <2>3. term' = term \/ pc = "read"
    BY <1>11, <2>2 DEF Chatter, Finish, ExitTold
  <2>4. {wire'[i] : i \in DOMAIN wire'} \subseteq W \cup {f}
    BY <1>h, <2>2
  <2>5. ExitTold'
    BY <1>11, <2>1, <2>2, <2>3, <2>4 DEF ExitTold, Chatter, Finish
  <2>6. OkTells'
    BY <1>v, <2>2 DEF OkTells
  <2> QED
    BY <2>5, <2>6
<1>12. CASE Close
  <2>1. /\ pc \in {"setup", "read"} /\ pc' = pc
        /\ UNCHANGED <<chunks, verdict, wire, term>>
    BY <1>12 DEF Close, jobVars
  <2> QED
    BY <1>v, <2>1 DEF ExitTold, OkTells
<1> QED
  BY <1>1, <1>2, <1>3, <1>4, <1>5, <1>6, <1>7, <1>8, <1>9, <1>10, <1>11, <1>12 DEF Next, Step

(* hermes_command_ok is only told of a command that came to its end, that  *)
(* was echoed, or whose terminal went away after it had sent something.    *)
THEOREM OkIsTold == Spec => []OkTells
<1>1. Init => ExitTold /\ OkTells
  BY DEF Init, ExitTold, OkTells
<1>2. HermesInv /\ (ExitTold /\ OkTells) /\ [Next]_vars => (ExitTold /\ OkTells)'
  BY TellsStep
<1> QED
  BY <1>1, <1>2, HermesInductive, PTL DEF Spec

(* A verdict is one of the two.                                            *)
LEMMA DecidesVerdict ==
  ASSUME HermesInv, pc \in {"start", "token", "dial", "setup", "read"},
         NEW v \in {"ok", "failed"}, Decide(v)
  PROVE  Abstract!Decide
<1>1. pc' = "callback" /\ verdict' = v /\ heard' = heard
  BY DEF Decide, Wait, Call
<1>2. Phase = "queued" /\ Phase' = "decided"
  BY <1>1 DEF Phase
<1> QED
  BY <1>1, <1>2 DEF Abstract!Decide

(* A step that moves no phase and tells nobody is a stutter.               *)
LEMMA Stutters ==
  ASSUME Phase' = Phase, verdict' = verdict, heard' = heard
  PROVE  UNCHANGED Abstract!vars
BY DEF Abstract!vars

(* The steps of SendCommand keep the contract.                             *)
LEMMA CommandRefines ==
  ASSUME HermesInv,
         Accept \/ Start \/ FetchToken \/ DialOK \/ DialFail \/ Setup \/ Read \/ ReadClosed
           \/ ReadTimeout
  PROVE  Abstract!Next \/ UNCHANGED Abstract!vars
<1>u. ASSUME Undecided PROVE verdict' = verdict /\ heard' = heard
  BY <1>u DEF Undecided, webhookVars
<1>d. ASSUME Decide("ok") \/ Decide("failed"), pc \in {"start", "token", "dial", "setup", "read"}
      PROVE  Abstract!Next
  BY <1>d, DecidesVerdict DEF Abstract!Next
<1>s. ASSUME Undecided, pc \in {"start", "token", "dial", "setup"},
             pc' \in {"token", "dial", "setup", "read"}
      PROVE  UNCHANGED Abstract!vars
  <2>1. Phase = "queued" /\ Phase' = "queued"
    BY <1>s DEF Phase
  <2> QED
    BY <1>s, <1>u, <2>1, Stutters
<1>1. CASE Accept
  <2>1. pc = "idle" /\ pc' = "start" /\ Undecided
    BY <1>1 DEF Accept, Wait
  <2>2. Phase = "none" /\ Phase' = "queued"
    BY <2>1 DEF Phase
  <2> QED
    BY <1>u, <2>1, <2>2 DEF Abstract!Next, Abstract!Queue
<1>2. CASE Start
  BY <1>2, <1>d, <1>s DEF Start, Wait
<1>3. CASE FetchToken
  BY <1>3, <1>s DEF FetchToken, Wait
<1>4. CASE DialOK
  BY <1>4, <1>s DEF DialOK, Wait
<1>5. CASE DialFail
  BY <1>5, <1>d, <1>s DEF DialFail, Wait
<1>6. CASE Setup
  BY <1>6, <1>d, <1>s DEF Setup, Wait
<1>7. CASE Read
  <2>1. CASE Marked(chunks')
    BY <1>7, <1>d, <2>1 DEF Read
  <2>2. CASE ~Marked(chunks')
    <3>1. UNCHANGED <<pc, verdict, webhookVars>>
      BY <1>7, <2>2 DEF Read
    <3>2. Phase' = Phase /\ verdict' = verdict /\ heard' = heard
      BY <3>1 DEF Phase, webhookVars
    <3> QED
      BY <3>2, Stutters
  <2> QED
    BY <2>1, <2>2
<1>8. CASE ReadClosed
  BY <1>8, <1>d DEF ReadClosed
<1>9. CASE ReadTimeout
  BY <1>9, <1>d DEF ReadTimeout
<1> QED
  BY <1>1, <1>2, <1>3, <1>4, <1>5, <1>6, <1>7, <1>8, <1>9

(* The steps of the callback keep the contract.                            *)
LEMMA CallbackRefines ==
  ASSUME HermesInv, HermesInv', Callback
  PROVE  Abstract!Next \/ UNCHANGED Abstract!vars
<1> USE Constants
<1>1. pc = "callback" /\ pc' = pc /\ verdict' = verdict /\ WebhookStep(Job)
  BY DEF Callback
<1>2. Phase = "decided" /\ Phase' = "decided"
  BY <1>1 DEF Phase
<1>3. heard \in [Deliveries -> Nat] /\ heard'[Job] <= MaxAttempts
  BY DEF HermesInv, WebhookInv, WebhookTypeOK, RepeatsAreLostAnswers
<1>4. \/ heard' = heard
      \/ heard' = [heard EXCEPT ![Job] = @ + 1]
  BY <1>1 DEF WebhookStep, Post, Delivered, Refused, AnswerLost, Again, GiveUp
<1>5. CASE heard' = heard
  BY <1>1, <1>2, <1>5, Stutters
<1>6. CASE heard' = [heard EXCEPT ![Job] = @ + 1]
  <2>1. heard'[Job] = heard[Job] + 1 /\ heard[Job] < MaxAttempts
    BY <1>3, <1>6
  <2> QED
    BY <1>1, <1>2, <2>1 DEF Abstract!Next, Abstract!Tell
<1> QED
  BY <1>4, <1>5, <1>6

(* The job of a 202 keeps its contract: one verdict, told at most          *)
(* HTTP_RETRY_COUNT + 1 times and never after the end of the job.          *)
THEOREM JobKeepsContract == Spec => Contract
<1>1. Init => Abstract!Init
  <2> SUFFICES ASSUME Init PROVE Abstract!Init
    OBVIOUS
  <2>1. Phase = "none" /\ verdict = "none"
    BY DEF Init, Phase
  <2>2. heard[Job] = 0
    BY Constants DEF Init, WebhookInit
  <2> QED
    BY <2>1, <2>2 DEF Abstract!Init
<1>2. HermesInv /\ HermesInv' /\ [Next]_vars => [Abstract!Next]_(Abstract!vars)
  <2> SUFFICES ASSUME HermesInv, HermesInv', [Next]_vars
               PROVE  Abstract!Next \/ UNCHANGED Abstract!vars
    OBVIOUS
  <2>1. CASE Return \/ Exit
    <3>1. /\ pc \in {"start", "token", "dial", "setup", "read", "callback"}
          /\ pc' \in {"done", "cut"} /\ verdict' = verdict /\ heard' = heard
      BY <2>1 DEF Return, Exit, Undecided, webhookVars, HermesInv, TypeOK, PCs
    <3>2. Phase \in {"queued", "decided"} /\ Phase' = "ended"
      BY <3>1 DEF Phase
    <3> QED
      BY <3>1, <3>2 DEF Abstract!Next, Abstract!End
  <2>2. CASE Chatter \/ Finish \/ Close \/ Tick \/ UNCHANGED vars
    <3>1. UNCHANGED <<jobVars, webhookVars>>
      BY <2>2 DEF Chatter, Finish, Close, Sends, Tick, vars
    <3>2. Phase' = Phase /\ verdict' = verdict /\ heard' = heard
      BY <3>1 DEF Phase, jobVars, webhookVars
    <3> QED
      BY <3>2, Stutters
  <2> QED
    BY <2>1, <2>2, CommandRefines, CallbackRefines DEF Next, Step
<1> QED
  BY <1>1, <1>2, HermesInductive, PTL DEF Spec, Contract, Abstract!Spec

(* How far each part of a job can go: what JobLeft is the sum of.          *)
PartsLeft ==
  /\ clock \in Nat /\ clock <= Deadline + HermesTimeout
  /\ pc \in PCs
  /\ Len(ways) \in Nat
  /\ PostsLeft \in Nat
  /\ Len(wire) \in Nat /\ frames \in Nat /\ frames <= MaxFrames
  /\ FramesLeft \in Nat

(* The numbers of StagesAfter.                                             *)
LEMMA StagesOK ==
  /\ \A p \in PCs : StagesAfter[p] \in Nat
  /\ StagesAfter["idle"] = 12 /\ StagesAfter["start"] = 11 /\ StagesAfter["token"] = 10
  /\ StagesAfter["dial"] = 6 /\ StagesAfter["setup"] = 5 /\ StagesAfter["read"] = 4
  /\ StagesAfter["callback"] = 3 /\ StagesAfter["done"] = 0 /\ StagesAfter["cut"] = 0
BY DEF StagesAfter, PCs

(* There are at most three ways to dial.                                   *)
LEMMA WaysFew ==
  ASSUME NEW b \in BOOLEAN, NEW t \in BOOLEAN
  PROVE  Len(Ways(b, t)) <= 3
<1>1. CASE b /\ t
  BY <1>1 DEF Ways
<1>2. CASE b /\ ~t
  BY <1>2 DEF Ways
<1>3. CASE ~b /\ t
  BY <1>3 DEF Ways
<1>4. CASE ~b /\ ~t
  BY <1>4 DEF Ways
<1> QED
  BY <1>1, <1>2, <1>3, <1>4

(* The invariant bounds the parts.                                         *)
LEMMA PartsOK == HermesInv /\ frames <= MaxFrames => PartsLeft
<1> SUFFICES ASSUME HermesInv, frames <= MaxFrames PROVE PartsLeft
  OBVIOUS
<1> USE Constants
<1>1. attempt[Job] \in 0 .. MaxAttempts
  BY DEF HermesInv, WebhookInv, WebhookTypeOK
<1>2. PostsLeft \in Nat
  BY <1>1 DEF PostsLeft
<1>3. Len(ways) \in Nat /\ Len(wire) \in Nat
  BY DEF HermesInv, TypeOK
<1>4. FramesLeft \in Nat
  <2>1. frames \in Nat /\ MaxFrames \in Nat
    BY HermesAssumption DEF HermesInv, TypeOK, HermesAssumption
  <2> QED
    BY <1>3, <2>1 DEF FramesLeft
<1> QED
  BY <1>2, <1>3, <1>4 DEF PartsLeft, HermesInv, TypeOK, Timely

(* What is left is a number.                                               *)
LEMMA LeftOK ==
  ASSUME PartsLeft
  PROVE  JobLeft \in Nat
<1> USE Constants
<1>1. StagesAfter[pc] \in Nat
  BY StagesOK DEF PartsLeft
<1>2. FramesLeft \in Nat
  BY DEF PartsLeft
<1>3. Deadline + HermesTimeout - clock \in Nat
  BY DEF PartsLeft
<1> QED
  BY <1>1, <1>2, <1>3 DEF JobLeft, PartsLeft

(* One part gets less and no part gets more.                               *)
LEMMA SumsLess ==
  ASSUME PartsLeft, PartsLeft',
         clock <= clock', StagesAfter[pc'] + Len(ways') <= StagesAfter[pc] + Len(ways),
         PostsLeft' <= PostsLeft, FramesLeft' <= FramesLeft,
         \/ clock < clock' \/ StagesAfter[pc'] + Len(ways') < StagesAfter[pc] + Len(ways)
         \/ PostsLeft' < PostsLeft \/ FramesLeft' < FramesLeft
  PROVE  JobLeft' < JobLeft
<1> USE Constants
<1>1. StagesAfter[pc] \in Nat /\ StagesAfter[pc'] \in Nat
  BY StagesOK DEF PartsLeft
<1>2. FramesLeft \in Nat /\ FramesLeft' \in Nat
  BY DEF PartsLeft
<1>3. JobLeft' = (Deadline + HermesTimeout - clock') + StagesAfter[pc'] + Len(ways')
                   + PostsLeft' + FramesLeft'
  BY DEF JobLeft, Deadline, StagesAfter
<1>4. JobLeft = (Deadline + HermesTimeout - clock) + StagesAfter[pc] + Len(ways)
                   + PostsLeft + FramesLeft
  BY DEF JobLeft
<1>5. /\ clock \in Nat /\ clock' \in Nat /\ Len(ways) \in Nat /\ Len(ways') \in Nat
      /\ PostsLeft \in Nat /\ PostsLeft' \in Nat
  BY DEF PartsLeft
<1>6. /\ clock <= Deadline + HermesTimeout /\ clock' <= Deadline + HermesTimeout
      /\ Deadline \in Nat /\ HermesTimeout \in Nat
  BY DEF PartsLeft, Deadline
<1>t. PICK t \in Nat : t = clock'
  BY <1>5
<1> DEFINE a == Deadline + HermesTimeout - clock
           p == Deadline + HermesTimeout - clock'
<1>7. a \in Nat /\ p \in Nat /\ p <= a /\ (clock < clock' => p < a)
  <2>1. clock <= t /\ t <= Deadline + HermesTimeout /\ clock <= Deadline + HermesTimeout
    BY <1>6, <1>t
  <2>2. p = Deadline + HermesTimeout - t
    BY <1>t
  <2> HIDE DEF p
  <2>3. p \in Nat /\ p <= a /\ (clock < t => p < a)
    BY <1>5, <1>6, <2>1, <2>2
  <2>4. a \in Nat
    BY <1>5, <1>6, <2>1
  <2> QED
    BY <1>t, <2>3, <2>4
<1> HIDE DEF a, p
<1>8. p + StagesAfter[pc'] + Len(ways') + PostsLeft' + FramesLeft'
        < a + StagesAfter[pc] + Len(ways) + PostsLeft + FramesLeft
  <2>1. PICK b, c, d, e \in Nat : /\ b = StagesAfter[pc] /\ c = Len(ways)
                                  /\ d = PostsLeft /\ e = FramesLeft
    BY <1>1, <1>2, <1>5
  <2>2. PICK q, r, s, u \in Nat : /\ q = StagesAfter[pc'] /\ r = Len(ways')
                                  /\ s = PostsLeft' /\ u = FramesLeft'
    BY <1>1, <1>2, <1>5
  <2>3. PICK x, y \in Nat : x = a /\ y = p
    BY <1>7
  <2>4. /\ y <= x /\ q + r <= b + c /\ s <= d /\ u <= e
        /\ y < x \/ q + r < b + c \/ s < d \/ u < e
    BY <1>7, <2>1, <2>2, <2>3
  <2>5. y + q + r + s + u < x + b + c + d + e
    BY <2>4
  <2> QED
    BY <2>1, <2>2, <2>3, <2>5
<1>9. JobLeft' = p + StagesAfter[pc'] + Len(ways') + PostsLeft' + FramesLeft'
  BY <1>3 DEF p
<1>10. JobLeft = a + StagesAfter[pc] + Len(ways) + PostsLeft + FramesLeft
  BY <1>4 DEF a
<1> QED
  BY <1>8, <1>9, <1>10

(* A call leaves all attempts to the callback, and each of its steps takes *)
(* some of them.                                                           *)
LEMMA PostsRunDown ==
  ASSUME HermesInv
  PROVE  /\ Call(Job) => PostsLeft' = PostsLeft
         /\ WebhookStep(Job) => PostsLeft' < PostsLeft
<1> USE Constants DEF GoTo
<1>1. /\ wpc \in [Deliveries -> WebhookPCs] /\ attempt \in [Deliveries -> 0 .. MaxAttempts]
      /\ wpc[Job] = "idle" => attempt[Job] = 0
      /\ wpc[Job] = "delay" => attempt[Job] < MaxAttempts
  BY DEF HermesInv, WebhookInv, WebhookTypeOK, Progress
<1>2. ASSUME Call(Job) PROVE PostsLeft' = PostsLeft
  <2>1. wpc[Job] = "idle" /\ wpc'[Job] = "start" /\ attempt[Job] = 0 /\ attempt'[Job] = 1
    BY <1>1, <1>2 DEF Call
  <2> QED
    BY <2>1 DEF PostsLeft
<1>f. ASSUME Failed(Job)
      PROVE  attempt'[Job] = attempt[Job] /\ wpc'[Job] \in {"failed", "delay"}
  BY <1>1, <1>f DEF Failed
<1>3. ASSUME WebhookStep(Job) PROVE PostsLeft' < PostsLeft
  <2>1. \/ /\ attempt'[Job] = attempt[Job]
           /\ \/ wpc[Job] = "start" /\ wpc'[Job] \in {"failed", "delay", "posting"}
              \/ wpc[Job] = "posting" /\ wpc'[Job] \in {"failed", "delay", "ok"}
              \/ wpc[Job] = "delay" /\ wpc'[Job] = "cancelled"
        \/ /\ attempt'[Job] = attempt[Job] + 1
           /\ wpc[Job] = "delay" /\ wpc'[Job] = "start"
    BY <1>1, <1>3, <1>f DEF WebhookStep, Post, Delivered, Refused, AnswerLost, Again, GiveUp
  <2>2. attempt[Job] \in Nat /\ attempt[Job] <= MaxAttempts
    BY <1>1
  <2>3. CASE attempt'[Job] = attempt[Job]
    BY <2>1, <2>2, <2>3 DEF PostsLeft
  <2>4. CASE attempt'[Job] = attempt[Job] + 1
    BY <1>1, <2>1, <2>2, <2>4 DEF PostsLeft
  <2> QED
    BY <2>1, <2>3, <2>4
<1> QED
  BY <1>2, <1>3

(* A verdict ends what was left of the command.                            *)
LEMMA DecideRunsDown ==
  ASSUME HermesInv, PartsLeft, PartsLeft', pc \in {"start", "dial", "setup", "read"},
         NEW v, Decide(v), Len(ways') <= Len(ways),
         UNCHANGED <<clock, closing, frames>>
  PROVE  JobLeft' < JobLeft
<1>1. pc' = "callback" /\ wire' = <<>> /\ Call(Job)
  BY DEF Decide, Wait
<1>2. PostsLeft' = PostsLeft
  BY <1>1, PostsRunDown
<1>3. StagesAfter[pc'] = 3 /\ StagesAfter[pc] \in Nat /\ 3 < StagesAfter[pc]
  BY <1>1, StagesOK
<1>4. FramesLeft' <= FramesLeft
  <2>1. Len(wire') = 0
    BY <1>1
  <2> QED
    BY <2>1, HermesAssumption DEF FramesLeft, PartsLeft, HermesAssumption
<1>5. Len(ways) \in Nat /\ Len(ways') \in Nat /\ PostsLeft \in Nat /\ clock \in Nat
  BY DEF PartsLeft
<1>6. /\ StagesAfter[pc'] + Len(ways') < StagesAfter[pc] + Len(ways)
      /\ StagesAfter[pc'] + Len(ways') <= StagesAfter[pc] + Len(ways)
  BY <1>3, <1>5
<1> QED
  BY <1>2, <1>4, <1>5, <1>6, SumsLess

(* What a job does on its way to the verdict.                              *)
LEMMA UndecidedRunsDown ==
  ASSUME HermesInv, PartsLeft, PartsLeft', Undecided, UNCHANGED <<clock, closing, frames>>,
         StagesAfter[pc'] + Len(ways') < StagesAfter[pc] + Len(ways)
  PROVE  JobLeft' < JobLeft
<1>1. PostsLeft' = PostsLeft /\ FramesLeft' = FramesLeft
  BY DEF Undecided, webhookVars, PostsLeft, FramesLeft
<1>2. PostsLeft \in Nat /\ clock \in Nat /\ FramesLeft \in Nat
  BY DEF PartsLeft
<1>3. StagesAfter[pc'] + Len(ways') <= StagesAfter[pc] + Len(ways)
  <2>1. /\ Len(ways) \in Nat /\ Len(ways') \in Nat
        /\ StagesAfter[pc] \in Nat /\ StagesAfter[pc'] \in Nat
    BY StagesOK DEF PartsLeft
  <2> QED
    BY <2>1
<1> QED
  BY <1>1, <1>2, <1>3, SumsLess

(* The steps of SendCommand use up stages and ways to dial.                *)
LEMMA CommandRunsDown ==
  ASSUME HermesInv, PartsLeft, PartsLeft',
         Accept \/ Start \/ FetchToken \/ DialOK \/ DialFail \/ Setup \/ Read \/ ReadClosed
           \/ ReadTimeout
  PROVE  JobLeft' < JobLeft
<1>h. Len(ways) \in Nat /\ wire \in Seq(Kinds) /\ UNCHANGED <<clock, closing>>
  BY DEF PartsLeft, HermesInv, TypeOK, Accept, Start, FetchToken, DialOK, DialFail, Setup, Read,
         ReadClosed, ReadTimeout, terminalVars
<1>w. ASSUME UNCHANGED ways PROVE Len(ways') = Len(ways) /\ Len(ways') <= Len(ways)
  BY <1>h, <1>w
<1>1. CASE Accept
  <2>1. pc = "idle" /\ pc' = "start" /\ Undecided /\ UNCHANGED <<ways, frames>>
    BY <1>1 DEF Accept, Wait, terminalVars
  <2>2. StagesAfter[pc'] + Len(ways') < StagesAfter[pc] + Len(ways)
    BY <1>h, <1>w, <2>1, StagesOK
  <2> QED
    BY <1>h, <2>1, <2>2, UndecidedRunsDown
<1>2. CASE Start
  <2>1. pc = "start" /\ UNCHANGED <<ways, frames>>
    BY <1>2 DEF Start, terminalVars
  <2>2. CASE validUrl
    <3>1. pc' = "token" /\ Undecided
      BY <1>2, <2>2 DEF Start, Wait
    <3>2. StagesAfter[pc'] + Len(ways') < StagesAfter[pc] + Len(ways)
      BY <1>h, <1>w, <2>1, <3>1, StagesOK
    <3> QED
      BY <1>h, <2>1, <3>1, <3>2, UndecidedRunsDown
  <2>3. CASE ~validUrl
    BY <1>2, <1>h, <1>w, <2>1, <2>3, DecideRunsDown DEF Start
  <2> QED
    BY <2>2, <2>3
<1>3. CASE FetchToken
  <2>1. pc = "token" /\ pc' = "dial" /\ Undecided /\ UNCHANGED frames
    BY <1>3 DEF FetchToken, Wait, terminalVars
  <2>2. Len(ways') <= 3 /\ Len(ways') \in Nat
    BY <1>3, WaysFew DEF FetchToken, HermesInv, TypeOK, PartsLeft
  <2>3. StagesAfter[pc'] + Len(ways') < StagesAfter[pc] + Len(ways)
    <3>1. PICK n \in Nat : n = Len(ways')
      BY <2>2
    <3>2. n <= 3 /\ StagesAfter[pc'] = 6 /\ StagesAfter[pc] = 10
      BY <2>1, <2>2, <3>1, StagesOK
    <3> QED
      BY <1>h, <3>1, <3>2
  <2> QED
    BY <1>h, <2>1, <2>3, UndecidedRunsDown
<1>4. CASE DialOK
  <2>1. pc = "dial" /\ pc' = "setup" /\ Undecided /\ UNCHANGED <<ways, frames>>
    BY <1>4 DEF DialOK, Wait
  <2>2. StagesAfter[pc'] + Len(ways') < StagesAfter[pc] + Len(ways)
    BY <1>h, <1>w, <2>1, StagesOK
  <2> QED
    BY <1>h, <2>1, <2>2, UndecidedRunsDown
<1>5. CASE DialFail
  <2>1. pc = "dial" /\ ways' = Tail(ways) /\ UNCHANGED frames
    BY <1>5 DEF DialFail, terminalVars
  <2>2. Len(ways') < Len(ways) /\ Len(ways') <= Len(ways)
    BY <2>1 DEF HermesInv, TypeOK, OnTheWay
  <2>3. CASE Tail(ways) = <<>>
    BY <1>5, <1>h, <2>1, <2>2, <2>3, DecideRunsDown DEF DialFail
  <2>4. CASE Tail(ways) # <<>>
    <3>1. pc' = "dial" /\ Undecided
      BY <1>5, <2>4 DEF DialFail, Wait
    <3>2. StagesAfter[pc'] + Len(ways') < StagesAfter[pc] + Len(ways)
      <4>1. PICK n \in Nat : n = Len(ways')
        BY DEF PartsLeft
      <4>2. n < Len(ways) /\ StagesAfter[pc'] = 6 /\ StagesAfter[pc] = 6
        BY <2>1, <2>2, <3>1, <4>1, StagesOK
      <4> QED
        BY <1>h, <4>1, <4>2
    <3> QED
      BY <1>h, <2>1, <3>1, <3>2, UndecidedRunsDown
  <2> QED
    BY <2>3, <2>4
<1>6. CASE Setup
  <2>1. pc = "setup" /\ UNCHANGED <<ways, frames>>
    BY <1>6 DEF Setup
  <2>2. CASE Decide("failed")
    BY <1>h, <1>w, <2>1, <2>2, DecideRunsDown
  <2>3. CASE ~Decide("failed")
    <3>1. pc' = "read" /\ Undecided
      BY <1>6, <2>3 DEF Setup, Wait
    <3>2. StagesAfter[pc'] + Len(ways') < StagesAfter[pc] + Len(ways)
      BY <1>h, <1>w, <2>1, <3>1, StagesOK
    <3> QED
      BY <1>h, <2>1, <3>1, <3>2, UndecidedRunsDown
  <2> QED
    BY <2>2, <2>3
<1>7. CASE Read
  <2>1. pc = "read" /\ wire # <<>> /\ UNCHANGED <<ways, frames>>
    BY <1>7 DEF Read
  <2>2. CASE Marked(chunks')
    BY <1>7, <1>h, <1>w, <2>1, <2>2, DecideRunsDown DEF Read
  <2>3. CASE ~Marked(chunks')
    <3>1. pc' = pc /\ wire' = Tail(wire) /\ UNCHANGED webhookVars
      BY <1>7, <2>3 DEF Read
    <3>2. Len(wire') = Len(wire) - 1 /\ Len(wire) \in Nat
      BY <1>h, <2>1, <3>1
    <3>3. FramesLeft' < FramesLeft /\ FramesLeft' <= FramesLeft
      BY <1>h, <2>1, <3>2, HermesAssumption DEF FramesLeft, PartsLeft, HermesAssumption
    <3>4. PostsLeft' <= PostsLeft
      <4>1. PostsLeft' = PostsLeft
        BY <3>1 DEF webhookVars, PostsLeft
      <4> QED
        BY <4>1 DEF PartsLeft
    <3>5. StagesAfter[pc'] + Len(ways') <= StagesAfter[pc] + Len(ways)
      BY <1>h, <1>w, <2>1, <3>1, StagesOK
    <3>6. clock <= clock'
      BY <1>h DEF PartsLeft
    <3> QED
      BY <3>3, <3>4, <3>5, <3>6, SumsLess
  <2> QED
    BY <2>2, <2>3
<1>8. CASE ReadClosed
  <2>1. pc = "read" /\ UNCHANGED <<ways, frames>>
    BY <1>8 DEF ReadClosed, terminalVars
  <2>2. PICK v : Decide(v)
    BY <1>8 DEF ReadClosed
  <2> QED
    BY <1>h, <1>w, <2>1, <2>2, DecideRunsDown
<1>9. CASE ReadTimeout
  <2>1. pc = "read" /\ UNCHANGED <<ways, frames>> /\ Decide("failed")
    BY <1>9 DEF ReadTimeout, terminalVars
  <2> QED
    BY <1>h, <1>w, <2>1, DecideRunsDown
<1> QED
  BY <1>1, <1>2, <1>3, <1>4, <1>5, <1>6, <1>7, <1>8, <1>9

(* The other steps use up attempts to post, stages, frames or time.        *)
LEMMA OthersRunDown ==
  ASSUME HermesInv, PartsLeft, PartsLeft',
         Callback \/ Return \/ Exit \/ Chatter \/ Finish \/ Close \/ Tick
  PROVE  JobLeft' < JobLeft
<1>h. /\ clock \in Nat /\ PostsLeft \in Nat /\ FramesLeft \in Nat
      /\ StagesAfter[pc] \in Nat /\ Len(ways) \in Nat
      /\ StagesAfter[pc] + Len(ways) \in Nat
  <2>1. FramesLeft \in Nat
    BY DEF PartsLeft
  <2>2. clock \in Nat /\ PostsLeft \in Nat /\ StagesAfter[pc] \in Nat /\ Len(ways) \in Nat
    BY StagesOK DEF PartsLeft
  <2> QED
    BY <2>1, <2>2
<1>f. UNCHANGED <<closing, frames, wire>> => FramesLeft' = FramesLeft
  BY DEF FramesLeft
<1>p. UNCHANGED webhookVars => PostsLeft' = PostsLeft
  BY DEF webhookVars, PostsLeft
<1>s. UNCHANGED <<pc, ways>> =>
        StagesAfter[pc'] + Len(ways') <= StagesAfter[pc] + Len(ways)
  BY <1>h
<1>1. CASE Callback
  <2>1. UNCHANGED <<clock, closing, frames, wire, pc, ways>> /\ WebhookStep(Job)
    BY <1>1 DEF Callback, terminalVars
  <2>2. PostsLeft' < PostsLeft
    BY <2>1, PostsRunDown
  <2>3. PostsLeft' <= PostsLeft
    <3>1. PICK n \in Nat : n = PostsLeft'
      BY DEF PartsLeft
    <3>2. n < PostsLeft
      BY <2>2, <3>1
    <3>3. n <= PostsLeft
      BY <1>h, <3>2
    <3> QED
      BY <3>1, <3>3
  <2>4. clock <= clock' /\ FramesLeft' <= FramesLeft
    BY <1>f, <1>h, <2>1
  <2> QED
    BY <1>s, <2>1, <2>2, <2>3, <2>4, SumsLess
<1>2. CASE Return \/ Exit
  <2>1. /\ pc' \in {"done", "cut"} /\ pc \in {"start", "token", "dial", "setup", "read", "callback"}
        /\ Undecided /\ UNCHANGED <<clock, closing, frames, ways>>
    BY <1>2 DEF Return, Exit, terminalVars, HermesInv, TypeOK, PCs
  <2>2. StagesAfter[pc'] = 0 /\ StagesAfter[pc] > 0
    BY <2>1, StagesOK
  <2>3. StagesAfter[pc'] + Len(ways') < StagesAfter[pc] + Len(ways)
    BY <1>h, <2>1, <2>2
  <2> QED
    BY <2>1, <2>3, UndecidedRunsDown
<1>3. CASE Chatter \/ Finish \/ Close
  <2>1. UNCHANGED <<clock, pc, ways, webhookVars>>
    BY <1>3 DEF Chatter, Finish, Close, Sends, jobVars
  <2>2. FramesLeft' < FramesLeft /\ FramesLeft' <= FramesLeft
    <3> USE HermesAssumption DEF FramesLeft, PartsLeft, HermesAssumption
    <3>1. ASSUME NEW f \in Kinds, Sends(f) PROVE FramesLeft' < FramesLeft /\ FramesLeft' <= FramesLeft
      <4>1. /\ frames \in Nat /\ frames < MaxFrames /\ frames' = frames + 1 /\ closing' = closing
            /\ wire' = Append(wire, f)
        BY <3>1 DEF Sends
      <4>2. Len(wire') = Len(wire) + 1 /\ Len(wire) \in Nat
        BY <4>1 DEF HermesInv, TypeOK
      <4> QED
        BY <4>1, <4>2
    <3>2. CASE Chatter \/ Finish
      <4>1. PICK f \in Kinds : Sends(f)
        BY <3>2 DEF Chatter, Finish, Kinds
      <4> QED
        BY <3>1, <4>1
    <3>3. CASE Close
      <4>1. UNCHANGED <<frames, wire>> /\ closing = "open" /\ closing' # "open"
        BY <3>3 DEF Close
      <4> QED
        BY <4>1
    <3> QED
      BY <1>3, <3>2, <3>3
  <2>3. PostsLeft' <= PostsLeft /\ clock <= clock'
    BY <1>h, <1>p, <2>1
  <2> QED
    BY <1>s, <2>1, <2>2, <2>3, SumsLess
<1>4. CASE Tick
  <2>1. UNCHANGED <<closing, frames, wire, pc, ways, webhookVars>> /\ clock' = clock + 1
    BY <1>4 DEF Tick, terminalVars, jobVars
  <2>2. PostsLeft' <= PostsLeft /\ FramesLeft' <= FramesLeft
    BY <1>f, <1>h, <1>p, <2>1
  <2>3. clock < clock' /\ clock <= clock'
    BY <1>h, <2>1
  <2> QED
    BY <1>s, <2>1, <2>2, <2>3, SumsLess
<1> QED
  BY <1>1, <1>2, <1>3, <1>4

(* The terminal sends MaxFrames frames at most.                            *)
LEMMA FramesOK == Spec => [](frames <= MaxFrames)
<1>1. Init => frames <= MaxFrames
  BY HermesAssumption DEF Init, HermesAssumption
<1>2. HermesInv /\ frames <= MaxFrames /\ [Next]_vars => (frames <= MaxFrames)'
  <2> SUFFICES ASSUME HermesInv, frames <= MaxFrames, [Next]_vars
               PROVE  frames' <= MaxFrames
    OBVIOUS
  <2>1. frames' = frames \/ (frames < MaxFrames /\ frames' = frames + 1)
    BY DEF Next, Step, Accept, Start, FetchToken, DialOK, DialFail, Setup, Read, ReadClosed,
           ReadTimeout, Callback, Return, Exit, Chatter, Finish, Close, Tick, Sends, terminalVars, vars
  <2>2. frames \in Nat
    BY DEF HermesInv, TypeOK
  <2> QED
    BY <2>1, <2>2, HermesAssumption DEF HermesAssumption
<1> QED
  BY <1>1, <1>2, HermesInductive, PTL DEF Spec

(* A job runs down: what is left of its time, of its stages, of its        *)
(* attempts to dial and to post and of the frames of its terminal is a     *)
(* number, and every step of it and every tick makes that number smaller.  *)
THEOREM JobsRunDown == Spec => [](JobLeft \in Nat) /\ JobRunsDown
<1>1. HermesInv /\ frames <= MaxFrames => PartsLeft
  BY PartsOK
<1>2. PartsLeft => JobLeft \in Nat
  BY LeftOK
<1>3. HermesInv /\ PartsLeft /\ PartsLeft' /\ [Next]_vars => [JobLeft' < JobLeft]_vars
  <2> SUFFICES ASSUME HermesInv, PartsLeft, PartsLeft', Next
               PROVE  JobLeft' < JobLeft
    OBVIOUS
  <2> QED
    BY CommandRunsDown, OthersRunDown DEF Next, Step
<1> QED
  BY <1>1, <1>2, <1>3, HermesInductive, FramesOK, PTL DEF Spec, JobRunsDown
=============================================================================
