---------------------------- MODULE WSClientProofs ----------------------------
(***************************************************************************)
(* Theorems of module WSClient for any number of callers and connections.  *)
(***************************************************************************)
EXTENDS WSClientInvariant, WSClientImplements, TLAPS

-----------------------------------------------------------------------------
(* Type correctness.                                                       *)

(* Initial states have the types.                                          *)
LEMMA InitTypeOK == Init => TypeOK
<1> SUFFICES ASSUME Init PROVE TypeOK
  OBVIOUS
<1> USE DEF Init
<1>1. requestID \in Nat /\ autoNum \in Nat /\ conn \in Conns \cup {NoConn}
  OBVIOUS
<1>2. dials \in Conns \cup {0} /\ serve \in ServePCs /\ cancelled \in BOOLEAN
  BY DEF ServePCs
<1>3. pc \in [Callers -> CallPCs] /\ attempt \in [Callers -> Attempts]
  BY DEF CallPCs, Attempts
<1>4. num \in [Callers -> Nat] /\ lconn \in [Callers -> Conns \cup {NoConn}]
  OBVIOUS
<1>5. result \in [Callers -> Results] /\ op \in [Callers -> Ops]
  BY DEF Results
<1>6. link \in [Conns -> {"none", "open", "broken", "closed"}]
  OBVIOUS
<1>7. got \in [Callers -> SUBSET Messages] /\ \A c \in Callers : AtMostOne(got[c])
  BY DEF AtMostOne
<1>8. chan \in [Chans -> SUBSET Messages] /\ \A x \in Chans : AtMostOne(chan[x])
  BY DEF AtMostOne
<1>9. arrived \in [Conns -> SUBSET Ids]
  OBVIOUS
<1>10. writeMu \subseteq Callers /\ AtMostOne(writeMu) /\ held \subseteq Held
  BY DEF AtMostOne
<1>11. pending \subseteq Entries /\ waking \subseteq Chans /\ answers \subseteq Frames
  OBVIOUS
<1> QED
  BY <1>1, <1>2, <1>3, <1>4, <1>5, <1>6, <1>7, <1>8, <1>9, <1>10, <1>11 DEF TypeOK

(* A write adds its id to what has arrived, or does not.                   *)
LEMMA ReachedType ==
  ASSUME TypeOK, NEW k, NEW i \in Ids
  PROVE  /\ Reached(k, i) \in [Conns -> SUBSET Ids]
         /\ \A j \in Conns : /\ arrived[j] \subseteq Reached(k, i)[j]
                            /\ Reached(k, i)[j] \subseteq arrived[j] \cup {i}
<1>1. arrived \in [Conns -> SUBSET Ids]
  BY DEF TypeOK
<1>2. CASE link[k] = "open"
  <2>1. Reached(k, i) = [arrived EXCEPT ![k] = arrived[k] \cup {i}]
    BY <1>2 DEF Reached
  <2> QED
    BY <1>1, <2>1
<1>3. CASE link[k] # "open"
  BY <1>1, <1>3 DEF Reached
<1> QED
  BY <1>2, <1>3

(* What a caller or App.Run writes has an id.                              *)
LEMMA IdTypes ==
  ASSUME TypeOK
  PROVE  AutoId \in Ids /\ \A c \in Callers : Id(c) \in Ids
BY DEF TypeOK, AutoId, Id, Ids, Attempts

(* One fact per group of variables that an action assigns; what it leaves  *)
(* unchanged is settled by the same leaf.                                  *)
LEMMA CallerTypeOK ==
  ASSUME TypeOK, NEW c \in Callers, CallStep(c) \/ Timeout(c)
  PROVE  TypeOK'
<1> USE DEF rpcVars, runVars, serveVars, callVars, netVars, CallPCs
<1>1. CASE Begin(c)
  BY <1>1 DEF TypeOK, Begin, nextID
<1>2. CASE GetActiveConn(c)
  BY <1>2 DEF TypeOK, GetActiveConn, Results
<1>3. CASE Register(c)
  BY <1>3 DEF TypeOK, Register, Unregistered, Entry, Entries, Id, Ch, Ids, Chans
<1>4. CASE LockWrite(c)
  BY <1>4 DEF TypeOK, LockWrite, Unlocked, AtMostOne
<1>5. CASE WriteOK(c)
  BY <1>5, ReachedType, IdTypes DEF TypeOK, WriteOK, Unlock, AtMostOne
<1>6. CASE WriteError(c)
  <2>1. arrived' \in [Conns -> SUBSET Ids]
    BY <1>6, ReachedType, IdTypes DEF TypeOK, WriteError
  <2> QED
    BY <1>6, <2>1 DEF TypeOK, WriteError, Unlock, AtMostOne, Messages
<1>7. CASE WritePanic(c)
  <2>1. arrived' \in [Conns -> SUBSET Ids]
    BY <1>7, ReachedType, IdTypes DEF TypeOK, WritePanic
  <2> QED
    BY <1>7, <2>1 DEF TypeOK, WritePanic
<1>8. CASE Receive(c)
  BY <1>8 DEF TypeOK, Receive, Ch, Chans
<1>9. CASE Return(c)
  BY <1>9 DEF TypeOK, Return, Unregistered, Results, Attempts, AtMostOne
<1>10. CASE Timeout(c)
  BY <1>10 DEF TypeOK, Timeout, AtMostOne, Messages
<1> QED
  BY <1>1, <1>2, <1>3, <1>4, <1>5, <1>6, <1>7, <1>8, <1>9, <1>10 DEF CallStep

(* The goroutine of App.Run keeps the types.                               *)
LEMMA ServeTypeOK ==
  ASSUME TypeOK, ServeStep
  PROVE  TypeOK'
<1> USE DEF rpcVars, runVars, serveVars, callVars, netVars, ServePCs, LoopHead
<1>1. CASE ConnectOK
  BY <1>1, WSClientAssumption DEF TypeOK, ConnectOK, Conns, NoConn
<1>2. CASE ConnectFail
  BY <1>2, WSClientAssumption DEF TypeOK, ConnectFail, Conns
<1>3. CASE AutoSendBegin
  BY <1>3 DEF TypeOK, AutoSendBegin, nextID
<1>4. CASE AutoSendOK
  BY <1>4, ReachedType, IdTypes DEF TypeOK, AutoSendOK
<1>5. CASE AutoSendError
  <2>1. arrived' \in [Conns -> SUBSET Ids]
    BY <1>5, ReachedType, IdTypes DEF TypeOK, AutoSendError
  <2> QED
    BY <1>5, <2>1 DEF TypeOK, AutoSendError
<1>6. CASE AutoSendPanic
  BY <1>6 DEF TypeOK, AutoSendPanic
<1>7. CASE ReadOther
  BY <1>7 DEF TypeOK, ReadOther
<1>8. CASE ReadError
  BY <1>8 DEF TypeOK, ReadError
<1>9. CASE Deliver
  BY <1>9 DEF TypeOK, Deliver, Send, Held, AtMostOne, Messages
<1>10. CASE ClearActiveConn
  BY <1>10 DEF TypeOK, ClearActiveConn, PendingChans, Entries
<1>11. CASE CloseConn
  BY <1>11 DEF TypeOK, CloseConn
<1>12. CASE RunDecides
  BY <1>12 DEF TypeOK, RunDecides
<1>13. ASSUME NEW f \in Incoming, ReadReply(f) PROVE TypeOK'
  <2>1. f \in Frames /\ \A e \in pending : e.chan \in Chans
    BY DEF TypeOK, Incoming, Entries
  <2>2. held' \subseteq Held /\ pending' \subseteq Entries
    BY <1>13, <2>1 DEF TypeOK, ReadReply, EntriesFor, Resolved, Held
  <2> QED
    BY <1>13, <2>2 DEF TypeOK, ReadReply
<1>14. ASSUME NEW x \in waking, Wake(x) PROVE TypeOK'
  BY <1>14 DEF TypeOK, Wake, Send, AtMostOne, Messages
<1> QED
  BY <1>1, <1>2, <1>3, <1>4, <1>5, <1>6, <1>7, <1>8, <1>9, <1>10, <1>11, <1>12, <1>13, <1>14 DEF ServeStep

(* So do the network, the gateway and the signal context.                  *)
LEMMA EnvironmentTypeOK ==
  ASSUME TypeOK, Cancel \/ GatewayStep
  PROVE  TypeOK'
<1> USE DEF rpcVars, runVars, serveVars, callVars, netVars
<1>1. CASE Cancel
  BY <1>1 DEF TypeOK, Cancel
<1>2. ASSUME NEW k \in Conns, PeerGone(k) PROVE TypeOK'
  BY <1>2 DEF TypeOK, PeerGone
<1>3. ASSUME NEW k \in Conns, NEW i \in arrived[k], Execute(k, i) PROVE TypeOK'
  BY <1>3 DEF TypeOK, Execute, Frames, Ids
<1> QED
  BY <1>1, <1>2, <1>3 DEF GatewayStep

(* TypeOK is inductive on its own.                                         *)
LEMMA TypeOKStep == TypeOK /\ [Next]_vars => TypeOK'
<1> SUFFICES ASSUME TypeOK, [Next]_vars PROVE TypeOK'
  OBVIOUS
<1>1. CASE UNCHANGED vars
  BY <1>1 DEF TypeOK, vars, rpcVars, runVars, serveVars, callVars, netVars
<1>2. CASE Next
  BY <1>2, CallerTypeOK, ServeTypeOK, EnvironmentTypeOK DEF Next
<1> QED
  BY <1>1, <1>2

(* Type correctness: the state of the client stays well formed, one holder *)
(* of writeMu and one message per channel included (client.go:460-576).    *)
THEOREM TypeCorrect == Spec => []TypeOK
<1>1. Init => TypeOK
  BY InitTypeOK
<1>2. TypeOK /\ [Next]_vars => TypeOK'
  BY TypeOKStep
<1> QED
  BY <1>1, <1>2, PTL DEF Spec

-----------------------------------------------------------------------------
(* The safety invariants.  Few kinds of step matter to them.               *)

(* A registered call takes a step that leaves the map and channels alone.  *)
Advance(c) ==
  /\ pc[c] \in {"lock", "write", "wait"}
  /\ \E p \in Registered : pc' = [pc EXCEPT ![c] = p]
  /\ \/ got' = got
     \/ /\ pc'[c] = "return"
        /\ \E m \in {{Closed}, chan[Ch(c)]} : got' = [got EXCEPT ![c] = m]
  /\ UNCHANGED <<requestID, conn, pending, num, attempt, lconn, late, serveVars, chan, answers>>

(* A step of App.Run, of the network or of the gateway that only moves     *)
(* what the callers do not see.                                            *)
Background ==
  /\ UNCHANGED <<pending, writeMu, held, waking, pc, num, attempt, lconn, late, got, chan>>
  /\ conn' = conn \/ serve = "connect"
  /\ requestID \in Nat /\ requestID' \in Nat /\ requestID <= requestID'
  /\ answers \subseteq answers'
  /\ \/ serve' = serve
     \/ serve # "deliver" /\ (serve = "wake" => waking = {})

(* The caller steps, sorted by what they do to the map, the channels and   *)
(* got: an induction step needs one case per kind, not one per action.     *)
LEMMA AdvanceKinds ==
  ASSUME TypeOK, NEW c \in Callers,
         LockWrite(c) \/ WriteOK(c) \/ WriteError(c) \/ WritePanic(c) \/ Receive(c) \/ Timeout(c)
  PROVE  Advance(c)
<1> USE DEF Advance, Registered, rpcVars, runVars, serveVars, callVars, netVars, TypeOK
<1>1. CASE LockWrite(c)
  BY <1>1 DEF LockWrite
<1>2. CASE WriteOK(c)
  BY <1>2 DEF WriteOK
<1>3. CASE WriteError(c)
  BY <1>3 DEF WriteError
<1>4. CASE WritePanic(c)
  BY <1>4 DEF WritePanic
<1>5. CASE Receive(c)
  BY <1>5 DEF Receive
<1>6. CASE Timeout(c)
  BY <1>6 DEF Timeout
<1> QED
  BY <1>1, <1>2, <1>3, <1>4, <1>5, <1>6

(* The other steps, sorted likewise.                                       *)
LEMMA BackgroundKinds ==
  ASSUME TypeOK,
         \/ UNCHANGED vars \/ Cancel \/ GatewayStep \/ ConnectOK \/ ConnectFail
         \/ AutoSendBegin \/ AutoSendOK \/ AutoSendError \/ AutoSendPanic
         \/ ReadOther \/ ReadError \/ CloseConn \/ RunDecides
  PROVE  Background
<1> USE DEF Background, rpcVars, runVars, serveVars, callVars, netVars
<1>0. requestID \in Nat
  BY DEF TypeOK
<1>1. CASE UNCHANGED vars
  BY <1>0, <1>1 DEF vars
<1>2. CASE Cancel
  BY <1>0, <1>2 DEF Cancel
<1>3. CASE GatewayStep
  BY <1>0, <1>3 DEF GatewayStep, PeerGone, Execute
<1>4. CASE ConnectOK
  BY <1>0, <1>4 DEF ConnectOK
<1>5. CASE ConnectFail
  BY <1>0, <1>5 DEF ConnectFail
<1>6. CASE AutoSendBegin
  BY <1>0, <1>6 DEF AutoSendBegin, nextID
<1>7. CASE AutoSendOK
  BY <1>0, <1>7 DEF AutoSendOK
<1>8. CASE AutoSendError
  BY <1>0, <1>8 DEF AutoSendError
<1>9. CASE AutoSendPanic
  BY <1>0, <1>9 DEF AutoSendPanic
<1>10. CASE ReadOther
  BY <1>0, <1>10 DEF ReadOther
<1>11. CASE ReadError
  BY <1>0, <1>11 DEF ReadError
<1>12. CASE CloseConn
  BY <1>0, <1>12 DEF CloseConn
<1>13. CASE RunDecides
  BY <1>0, <1>13 DEF RunDecides
<1> QED
  BY <1>1, <1>2, <1>3, <1>4, <1>5, <1>6, <1>7, <1>8, <1>9, <1>10, <1>11, <1>12, <1>13

(* Every step is of one of these kinds.                                    *)
LEMMA StepKinds ==
  ASSUME TypeOK, [Next]_vars
  PROVE  \/ \E c \in Callers : \/ Begin(c) \/ GetActiveConn(c) \/ Register(c)
                              \/ Advance(c) \/ Return(c)
         \/ \E f \in Frames : ReadReply(f)
         \/ \E x \in Chans : Wake(x)
         \/ Deliver \/ ClearActiveConn \/ Background
<1>1. ASSUME NEW c \in Callers, CallStep(c) \/ Timeout(c)
      PROVE  Begin(c) \/ GetActiveConn(c) \/ Register(c) \/ Advance(c) \/ Return(c)
  BY <1>1, AdvanceKinds DEF CallStep
<1>2. ASSUME ServeStep
      PROVE  \/ \E f \in Frames : ReadReply(f)
             \/ \E x \in Chans : Wake(x)
             \/ Deliver \/ ClearActiveConn \/ Background
  BY <1>2, BackgroundKinds DEF ServeStep, Incoming, TypeOK
<1> QED
  BY <1>1, <1>2, BackgroundKinds DEF Next

(* The entries of the map are keyed by id, and by channel as well.         *)
LEMMA OneEntryPerKey ==
  ASSUME TypeOK, NumbersUnique, NoPendingLeak, NEW d \in pending, NEW e \in pending,
         d.id = e.id \/ d.chan = e.chan
  PROVE  d = e
<1>1. PICK a \in Callers : pc[a] \in Registered /\ d = Entry(a)
  BY DEF NoPendingLeak
<1>2. PICK b \in Callers : pc[b] \in Registered /\ e = Entry(b)
  BY DEF NoPendingLeak
<1>3. num[a] # 0
  BY <1>1 DEF NumbersUnique, Registered
<1>4. a = b
  BY <1>1, <1>2, <1>3 DEF NumbersUnique, Entry, Id, Ch
<1> QED
  BY <1>1, <1>2, <1>4

(* resolvePending takes one entry out of the map.                          *)
LEMMA ReplyTakesOne ==
  ASSUME TypeOK, NumbersUnique, NoPendingLeak, NEW f, ReadReply(f)
  PROVE  \E e \in pending : /\ e.id = f.id
                            /\ held' = {[chan |-> e.chan, frame |-> f]}
                            /\ pending' = pending \ {e}
<1>1. PICK e \in pending : e.id = f.id
  BY DEF ReadReply, EntriesFor
<1>2. EntriesFor(f) = {e}
  BY <1>1, OneEntryPerKey DEF EntriesFor
<1>3. {[chan |-> d.chan, frame |-> f] : d \in {e}} = {[chan |-> e.chan, frame |-> f]}
  OBVIOUS
<1> QED
  BY <1>1, <1>2, <1>3 DEF ReadReply, Resolved

(* Both sends find an empty channel.                                       *)
LEMMA DeliverFills ==
  ASSUME TypeOK, HandsEmpty, OnePlace, Deliver
  PROVE  \E h \in held : held = {h} /\ chan' = [chan EXCEPT ![h.chan] = {h.frame}]
<1>1. PICK h \in held : Send(h.chan, h.frame)
  BY DEF Deliver
<1>2. h.chan \in Chans
  BY <1>1 DEF TypeOK, Held
<1>3. chan[h.chan] = {}
  BY <1>1, <1>2 DEF OnePlace, InHand
<1> QED
  BY <1>1, <1>3 DEF Send, HandsEmpty, AtMostOne

(* clearActiveConn fills the channel it wakes.                             *)
LEMMA WakeFills ==
  ASSUME TypeOK, OnePlace, NEW x \in Chans, Wake(x)
  PROVE  chan' = [chan EXCEPT ![x] = {Closed}]
BY DEF Wake, Send, OnePlace, InHand, TypeOK

(* Only Begin hands out a number, a new one.                               *)
LEMMA NumbersUniqueStep ==
  ASSUME TypeOK, NumbersUnique, [Next]_vars
  PROVE  NumbersUnique'
<1> USE DEF TypeOK, rpcVars, runVars, serveVars, callVars, netVars
<1>1. ASSUME NEW c \in Callers, Begin(c) PROVE NumbersUnique'
  BY <1>1 DEF Begin, NumbersUnique, nextID
<1>2. ASSUME NEW c \in Callers, GetActiveConn(c) PROVE NumbersUnique'
  BY <1>2 DEF GetActiveConn, NumbersUnique, nextID
<1>3. ASSUME NEW c \in Callers, Register(c) PROVE NumbersUnique'
  BY <1>3 DEF Register, NumbersUnique, nextID
<1>4. ASSUME NEW c \in Callers, Advance(c) PROVE NumbersUnique'
  BY <1>4 DEF Advance, NumbersUnique, nextID, Registered
<1>5. ASSUME NEW c \in Callers, Return(c) PROVE NumbersUnique'
  BY <1>5 DEF Return, NumbersUnique, nextID
<1>6. ASSUME NEW f \in Frames, ReadReply(f) PROVE NumbersUnique'
  BY <1>6 DEF ReadReply, NumbersUnique, nextID
<1>7. ASSUME NEW x \in Chans, Wake(x) PROVE NumbersUnique'
  BY <1>7 DEF Wake, NumbersUnique, nextID
<1>8. CASE Deliver
  BY <1>8 DEF Deliver, NumbersUnique, nextID
<1>9. CASE ClearActiveConn
  BY <1>9 DEF ClearActiveConn, NumbersUnique, nextID
<1>10. CASE Background
  BY <1>10 DEF Background, NumbersUnique, nextID
<1> QED
  BY <1>1, <1>2, <1>3, <1>4, <1>5, <1>6, <1>7, <1>8, <1>9, <1>10, StepKinds

(* attempt and got change only while their call runs.                      *)
LEMMA LocalsFreshStep ==
  ASSUME TypeOK, LocalsFresh, [Next]_vars
  PROVE  LocalsFresh'
<1> USE DEF TypeOK, rpcVars, runVars, serveVars, callVars, netVars
<1>1. ASSUME NEW c \in Callers, Begin(c) PROVE LocalsFresh'
  BY <1>1 DEF Begin, LocalsFresh, Registered
<1>2. ASSUME NEW c \in Callers, GetActiveConn(c) PROVE LocalsFresh'
  BY <1>2 DEF GetActiveConn, LocalsFresh, Registered
<1>3. ASSUME NEW c \in Callers, Register(c) PROVE LocalsFresh'
  BY <1>3 DEF Register, LocalsFresh, Registered
<1>4. ASSUME NEW c \in Callers, Advance(c) PROVE LocalsFresh'
  BY <1>4 DEF Advance, LocalsFresh, Registered
<1>5. ASSUME NEW c \in Callers, Return(c) PROVE LocalsFresh'
  <2>1. /\ pc'[c] \in {"call", "done"} /\ got'[c] = {}
        /\ \A d \in Callers \ {c} : /\ pc'[d] = pc[d] /\ attempt'[d] = attempt[d]
                                   /\ got'[d] = got[d] /\ lconn'[d] = lconn[d]
    BY <1>5 DEF Return
  <2> QED
    BY <2>1 DEF LocalsFresh, Registered
<1>6. ASSUME NEW f \in Frames, ReadReply(f) PROVE LocalsFresh'
  BY <1>6 DEF ReadReply, LocalsFresh
<1>7. ASSUME NEW x \in Chans, Wake(x) PROVE LocalsFresh'
  BY <1>7 DEF Wake, LocalsFresh
<1>8. CASE Deliver
  BY <1>8 DEF Deliver, LocalsFresh
<1>9. CASE ClearActiveConn
  BY <1>9 DEF ClearActiveConn, LocalsFresh
<1>10. CASE Background
  BY <1>10 DEF Background, LocalsFresh
<1> QED
  BY <1>1, <1>2, <1>3, <1>4, <1>5, <1>6, <1>7, <1>8, <1>9, <1>10, StepKinds

(* resolvePending and clearActiveConn finish before the next frame.        *)
LEMMA HandsEmptyStep ==
  ASSUME TypeOK, HandsEmpty, NumbersUnique, NoPendingLeak, [Next]_vars
  PROVE  HandsEmpty'
<1> USE DEF TypeOK, rpcVars, runVars, serveVars, callVars, netVars
<1>1. ASSUME NEW c \in Callers, Begin(c) PROVE HandsEmpty'
  BY <1>1 DEF Begin, HandsEmpty, AtMostOne, EntriesFor, NoPendingLeak, Entry, Id, NumbersUnique
<1>2. ASSUME NEW c \in Callers, GetActiveConn(c) PROVE HandsEmpty'
  BY <1>2 DEF GetActiveConn, HandsEmpty, AtMostOne, EntriesFor, NoPendingLeak, Entry, Id, NumbersUnique
<1>3. ASSUME NEW c \in Callers, Register(c) PROVE HandsEmpty'
  BY <1>3 DEF Register, HandsEmpty, AtMostOne, EntriesFor, NoPendingLeak, Entry, Id, NumbersUnique
<1>4. ASSUME NEW c \in Callers, Advance(c) PROVE HandsEmpty'
  BY <1>4 DEF Advance, HandsEmpty, AtMostOne, EntriesFor, NoPendingLeak, Entry, Id, NumbersUnique
<1>5. ASSUME NEW c \in Callers, Return(c) PROVE HandsEmpty'
  BY <1>5 DEF Return, HandsEmpty, AtMostOne, EntriesFor, NoPendingLeak, Entry, Id, NumbersUnique
<1>6. ASSUME NEW f \in Frames, ReadReply(f) PROVE HandsEmpty'
  BY <1>6, ReplyTakesOne DEF ReadReply, HandsEmpty, AtMostOne
<1>7. ASSUME NEW x \in Chans, Wake(x) PROVE HandsEmpty'
  BY <1>7 DEF Wake, HandsEmpty, AtMostOne, EntriesFor, NoPendingLeak, Entry, Id, NumbersUnique
<1>8. CASE Deliver
  BY <1>8 DEF Deliver, HandsEmpty, AtMostOne, EntriesFor, NoPendingLeak, Entry, Id, NumbersUnique
<1>9. CASE ClearActiveConn
  BY <1>9 DEF ClearActiveConn, HandsEmpty, AtMostOne, EntriesFor, NoPendingLeak, Entry, Id, NumbersUnique
<1>10. CASE Background
  BY <1>10 DEF Background, HandsEmpty, AtMostOne, EntriesFor, NoPendingLeak, Entry, Id, NumbersUnique
<1> QED
  BY <1>1, <1>2, <1>3, <1>4, <1>5, <1>6, <1>7, <1>8, <1>9, <1>10, StepKinds

(* An entry is made by Register and outlives no Return of its caller.      *)
LEMMA NoPendingLeakStep ==
  ASSUME TypeOK, NoPendingLeak, [Next]_vars
  PROVE  NoPendingLeak'
<1> USE DEF TypeOK, rpcVars, runVars, serveVars, callVars, netVars
<1>1. ASSUME NEW c \in Callers, Begin(c) PROVE NoPendingLeak'
  BY <1>1 DEF Begin, NoPendingLeak, Entry, Id, Ch, Registered, Unregistered, Resolved
<1>2. ASSUME NEW c \in Callers, GetActiveConn(c) PROVE NoPendingLeak'
  BY <1>2 DEF GetActiveConn, NoPendingLeak, Entry, Id, Ch, Registered, Unregistered, Resolved
<1>3. ASSUME NEW c \in Callers, Register(c) PROVE NoPendingLeak'
  BY <1>3 DEF Register, NoPendingLeak, Entry, Id, Ch, Registered, Unregistered, Resolved
<1>4. ASSUME NEW c \in Callers, Advance(c) PROVE NoPendingLeak'
  BY <1>4 DEF Advance, NoPendingLeak, Entry, Id, Ch, Registered, Unregistered, Resolved
<1>5. ASSUME NEW c \in Callers, Return(c) PROVE NoPendingLeak'
  BY <1>5 DEF Return, NoPendingLeak, Entry, Id, Ch, Registered, Unregistered, Resolved
<1>6. ASSUME NEW f \in Frames, ReadReply(f) PROVE NoPendingLeak'
  BY <1>6 DEF ReadReply, NoPendingLeak, Entry, Id, Ch, Registered, Unregistered, Resolved
<1>7. ASSUME NEW x \in Chans, Wake(x) PROVE NoPendingLeak'
  BY <1>7 DEF Wake, NoPendingLeak, Entry, Id, Ch, Registered, Unregistered, Resolved
<1>8. CASE Deliver
  BY <1>8 DEF Deliver, NoPendingLeak, Entry, Id, Ch, Registered, Unregistered, Resolved
<1>9. CASE ClearActiveConn
  BY <1>9 DEF ClearActiveConn, NoPendingLeak, Entry, Id, Ch, Registered, Unregistered, Resolved
<1>10. CASE Background
  BY <1>10 DEF Background, NoPendingLeak, Entry, Id, Ch, Registered, Unregistered, Resolved
<1> QED
  BY <1>1, <1>2, <1>3, <1>4, <1>5, <1>6, <1>7, <1>8, <1>9, <1>10, StepKinds

(* A channel moves from the map to a hand, and from a hand to being full.  *)
LEMMA OnePlaceStep ==
  ASSUME TypeOK, OnePlace, NumbersUnique, HandsEmpty,
         NoPendingLeak, ChansFresh, [Next]_vars
  PROVE  OnePlace'
<1> USE DEF TypeOK, rpcVars, runVars, serveVars, callVars, netVars
<1>1. ASSUME NEW c \in Callers, Begin(c) PROVE OnePlace'
  BY <1>1 DEF Begin, OnePlace, InMap, InHand
<1>2. ASSUME NEW c \in Callers, GetActiveConn(c) PROVE OnePlace'
  BY <1>2 DEF GetActiveConn, OnePlace, InMap, InHand
<1>3. ASSUME NEW c \in Callers, Register(c) PROVE OnePlace'
  <2>1. Unused(Ch(c)) /\ Ch(c) \in Chans
    BY <1>3 DEF Register, ChansFresh, Ch, Chans
  <2>2. \A x : InMap(x)' => InMap(x) \/ x = Ch(c)
    BY <1>3 DEF Register, InMap, Unregistered, Entry
  <2>3. \A x : InHand(x)' <=> InHand(x)
    BY <1>3 DEF Register, InHand
  <2> QED
    BY <1>3, <2>1, <2>2, <2>3 DEF Register, OnePlace, Unused
<1>4. ASSUME NEW c \in Callers, Advance(c) PROVE OnePlace'
  BY <1>4 DEF Advance, OnePlace, InMap, InHand
<1>5. ASSUME NEW c \in Callers, Return(c) PROVE OnePlace'
  BY <1>5 DEF Return, OnePlace, InMap, InHand, Unregistered
<1>6. ASSUME NEW f \in Frames, ReadReply(f) PROVE OnePlace'
  <2>1. PICK e \in pending : /\ held' = {[chan |-> e.chan, frame |-> f]}
                             /\ pending' = pending \ {e}
    BY <1>6, ReplyTakesOne
  <2>2. e.chan \in Chans /\ InMap(e.chan)
    BY DEF Entries, InMap
  <2>3. \A x \in Chans : InMap(x)' => InMap(x) /\ x # e.chan
    BY <2>1, OneEntryPerKey DEF InMap
  <2>4. \A x \in Chans : InHand(x)' <=> x = e.chan
    <3>1. waking' = {}
      BY <1>6 DEF ReadReply, HandsEmpty
    <3> QED
      BY <2>1, <3>1 DEF InHand
  <2> QED
    BY <1>6, <2>2, <2>3, <2>4 DEF ReadReply, OnePlace
<1>7. ASSUME NEW x \in Chans, Wake(x) PROVE OnePlace'
  BY <1>7 DEF Wake, OnePlace, InMap, InHand, HandsEmpty, Send
<1>8. CASE Deliver
  BY <1>8 DEF Deliver, OnePlace, InMap, InHand, HandsEmpty, Send, AtMostOne
<1>9. CASE ClearActiveConn
  BY <1>9 DEF ClearActiveConn, OnePlace, InMap, InHand, PendingChans, HandsEmpty
<1>10. CASE Background
  BY <1>10 DEF Background, OnePlace, InMap, InHand
<1> QED
  BY <1>1, <1>2, <1>3, <1>4, <1>5, <1>6, <1>7, <1>8, <1>9, <1>10, StepKinds

(* The channel of a request is untouched before its registration.          *)
LEMMA ChansFreshStep ==
  ASSUME TypeOK, ChansFresh, NumbersUnique, HandsEmpty,
         NoPendingLeak, OnePlace, [Next]_vars
  PROVE  ChansFresh'
<1> USE DEF TypeOK, rpcVars, runVars, serveVars, callVars, netVars
<1>1. ASSUME NEW c \in Callers, Begin(c) PROVE ChansFresh'
  BY <1>1 DEF Begin, ChansFresh, Unused, InMap, InHand, Ch
<1>2. ASSUME NEW c \in Callers, GetActiveConn(c) PROVE ChansFresh'
  BY <1>2 DEF GetActiveConn, ChansFresh, Unused, InMap, InHand, Ch
<1>3. ASSUME NEW c \in Callers, Register(c) PROVE ChansFresh'
  <2>1. \A x : InMap(x)' => InMap(x) \/ x = Ch(c)
    BY <1>3 DEF Register, InMap, Unregistered, Entry
  <2>2. \A x : x # Ch(c) /\ Unused(x) => Unused(x)'
    BY <1>3, <2>1 DEF Register, Unused, InHand
  <2>3. ASSUME NEW d \in Callers, pc'[d] \in {"idle", "call", "register"} PROVE Ch(d)' # Ch(c) /\ Unused(Ch(d))'
    BY <1>3, <2>2, <2>3 DEF Register, ChansFresh, Ch
  <2>4. ASSUME NEW d \in Callers, attempt'[d] = "first" PROVE Unused(<<d, "fallback">>)'
    BY <1>3, <2>2, <2>4 DEF Register, ChansFresh, Ch
  <2> QED
    BY <2>3, <2>4 DEF ChansFresh
<1>4. ASSUME NEW c \in Callers, Advance(c) PROVE ChansFresh'
  BY <1>4 DEF Advance, ChansFresh, Unused, InMap, InHand, Ch, Registered
<1>5. ASSUME NEW c \in Callers, Return(c) PROVE ChansFresh'
  <2>1. \A x : Unused(x) => Unused(x)'
    BY <1>5 DEF Return, Unregistered, Unused, InMap, InHand
  <2>2. ASSUME NEW d \in Callers PROVE /\ pc'[d] \in {"idle", "call", "register"}
                                              => Unused(<<d, attempt'[d]>>)
                                       /\ attempt'[d] = "first" => Unused(<<d, "fallback">>)
    <3>1. CASE d = c
      BY <1>5, <3>1 DEF Return, FallsBack, ChansFresh
    <3>2. CASE d # c
      BY <1>5, <3>2 DEF Return, ChansFresh, Ch
    <3> QED
      BY <3>1, <3>2
  <2>3. \A d \in Callers : Ch(d)' = <<d, attempt'[d]>>
    BY DEF Ch
  <2> QED
    BY <2>1, <2>2, <2>3 DEF ChansFresh
<1>6. ASSUME NEW f \in Frames, ReadReply(f) PROVE ChansFresh'
  <2>1. PICK e \in pending : /\ held' = {[chan |-> e.chan, frame |-> f]}
                             /\ pending' = pending \ {e}
    BY <1>6, ReplyTakesOne
  <2>2. \A x : Unused(x) => Unused(x)'
    BY <1>6, <2>1 DEF ReadReply, Unused, InMap, InHand
  <2> QED
    BY <1>6, <2>2 DEF ReadReply, ChansFresh, Ch
<1>7. ASSUME NEW x \in Chans, Wake(x) PROVE ChansFresh'
  <2>1. chan' = [chan EXCEPT ![x] = {Closed}] /\ InHand(x)
    BY <1>7, WakeFills DEF Wake, InHand
  <2>2. \A y \in Chans : Unused(y) => Unused(y)'
    BY <1>7, <2>1 DEF Wake, Unused, InMap, InHand
  <2>3. \A d \in Callers : Ch(d) \in Chans /\ <<d, "fallback">> \in Chans
    BY DEF Ch, Chans, Attempts
  <2> QED
    BY <1>7, <2>2, <2>3 DEF Wake, ChansFresh, Ch
<1>8. CASE Deliver
  <2>1. PICK h \in held : held = {h} /\ chan' = [chan EXCEPT ![h.chan] = {h.frame}]
    BY <1>8, DeliverFills
  <2>2. \A x : Unused(x) => Unused(x)'
    BY <1>8, <2>1 DEF Deliver, Unused, InMap, InHand
  <2> QED
    BY <1>8, <2>2 DEF Deliver, ChansFresh, Ch
<1>9. CASE ClearActiveConn
  BY <1>9 DEF ClearActiveConn, ChansFresh, Unused, InMap, InHand, Ch, PendingChans
<1>10. CASE Background
  BY <1>10 DEF Background, ChansFresh, Unused, InMap, InHand, Ch
<1> QED
  BY <1>1, <1>2, <1>3, <1>4, <1>5, <1>6, <1>7, <1>8, <1>9, <1>10, StepKinds

(* A frame in a hand or in a channel answers the request of that channel.  *)
LEMMA AnswersOwnStep ==
  ASSUME TypeOK, AnswersOwn, NumbersUnique, LocalsFresh,
         ChansFresh, NoPendingLeak, OnePlace, HandsEmpty, [Next]_vars
  PROVE  AnswersOwn'
<1> USE DEF TypeOK, rpcVars, runVars, serveVars, callVars, netVars
<1>1. ASSUME NEW c \in Callers, Begin(c) PROVE AnswersOwn'
  <2>1. \A a \in Attempts : chan[<<c, a>>] = {} /\ ~InHand(<<c, a>>)
    BY <1>1 DEF Begin, LocalsFresh, ChansFresh, Unused, Ch, Attempts
  <2>2. \A x \in Chans : x[1] # c => IdOf(x)' = IdOf(x)
    BY <1>1 DEF Begin, IdOf, Chans
  <2>3. \A x \in Chans : x[1] = c => x = <<c, x[2]>> /\ x[2] \in Attempts
    BY DEF Chans
  <2>4. ASSUME NEW h \in held PROVE IdOf(h.chan)' = IdOf(h.chan)
    BY <2>1, <2>2, <2>3 DEF Held, InHand
  <2> QED
    BY <1>1, <2>1, <2>2, <2>3, <2>4 DEF Begin, AnswersOwn
<1>2. ASSUME NEW c \in Callers, GetActiveConn(c) PROVE AnswersOwn'
  BY <1>2 DEF GetActiveConn, AnswersOwn, IdOf
<1>3. ASSUME NEW c \in Callers, Register(c) PROVE AnswersOwn'
  BY <1>3 DEF Register, AnswersOwn, IdOf
<1>4. ASSUME NEW c \in Callers, Advance(c) PROVE AnswersOwn'
  BY <1>4 DEF Advance, AnswersOwn, IdOf
<1>5. ASSUME NEW c \in Callers, Return(c) PROVE AnswersOwn'
  BY <1>5 DEF Return, AnswersOwn, IdOf
<1>6. ASSUME NEW f \in Frames, ReadReply(f) PROVE AnswersOwn'
  <2>1. PICK e \in pending : e.id = f.id /\ held' = {[chan |-> e.chan, frame |-> f]}
    BY <1>6, ReplyTakesOne
  <2>2. e.id = IdOf(e.chan)
    BY DEF NoPendingLeak, Entry, Id, Ch, IdOf
  <2>3. f \in answers /\ \A x : IdOf(x)' = IdOf(x)
    BY <1>6 DEF ReadReply, Incoming, IdOf
  <2>4. \A h \in held' : h.frame = f /\ h.chan = e.chan
    BY <2>1
  <2>5. \A h \in held' : h.frame \in answers' /\ h.frame.id = IdOf(h.chan)'
    BY <1>6, <2>1, <2>2, <2>3, <2>4 DEF ReadReply
  <2> QED
    BY <1>6, <2>3, <2>5 DEF ReadReply, AnswersOwn
<1>7. ASSUME NEW x \in Chans, Wake(x) PROVE AnswersOwn'
  BY <1>7 DEF Wake, AnswersOwn, IdOf, Send
<1>8. CASE Deliver
  BY <1>8 DEF Deliver, AnswersOwn, IdOf, Send
<1>9. CASE ClearActiveConn
  BY <1>9 DEF ClearActiveConn, AnswersOwn, IdOf
<1>10. CASE Background
  BY <1>10 DEF Background, AnswersOwn, IdOf
<1> QED
  BY <1>1, <1>2, <1>3, <1>4, <1>5, <1>6, <1>7, <1>8, <1>9, <1>10, StepKinds

(* Hence what a caller takes out of its channel answers its request.       *)
LEMMA ReplyMatchesRequestStep ==
  ASSUME TypeOK, ReplyMatchesRequest, LocalsFresh, AnswersOwn, [Next]_vars
  PROVE  ReplyMatchesRequest'
<1> USE DEF TypeOK, rpcVars, runVars, serveVars, callVars, netVars
<1>1. ASSUME NEW c \in Callers, Begin(c) PROVE ReplyMatchesRequest'
  BY <1>1 DEF Begin, ReplyMatchesRequest, Id, LocalsFresh
<1>2. ASSUME NEW c \in Callers, GetActiveConn(c) PROVE ReplyMatchesRequest'
  BY <1>2 DEF GetActiveConn, ReplyMatchesRequest, Id
<1>3. ASSUME NEW c \in Callers, Register(c) PROVE ReplyMatchesRequest'
  BY <1>3 DEF Register, ReplyMatchesRequest, Id
<1>4. ASSUME NEW c \in Callers, Advance(c) PROVE ReplyMatchesRequest'
  BY <1>4 DEF Advance, ReplyMatchesRequest, Id, LocalsFresh, AnswersOwn, IdOf, Ch, Chans
<1>5. ASSUME NEW c \in Callers, Return(c) PROVE ReplyMatchesRequest'
  BY <1>5 DEF Return, ReplyMatchesRequest, Id
<1>6. ASSUME NEW f \in Frames, ReadReply(f) PROVE ReplyMatchesRequest'
  BY <1>6 DEF ReadReply, ReplyMatchesRequest, Id
<1>7. ASSUME NEW x \in Chans, Wake(x) PROVE ReplyMatchesRequest'
  BY <1>7 DEF Wake, ReplyMatchesRequest, Id
<1>8. CASE Deliver
  BY <1>8 DEF Deliver, ReplyMatchesRequest, Id
<1>9. CASE ClearActiveConn
  BY <1>9 DEF ClearActiveConn, ReplyMatchesRequest, Id
<1>10. CASE Background
  BY <1>10 DEF Background, ReplyMatchesRequest, Id
<1> QED
  BY <1>1, <1>2, <1>3, <1>4, <1>5, <1>6, <1>7, <1>8, <1>9, <1>10, StepKinds

(* At the start nothing is connected.                                      *)
LEMMA OneConnectionInit == Init => OneConnection
BY DEF Init, OneConnection, Serving

(* Connections are opened, served and closed one after another.            *)
LEMMA OneConnectionStep == TypeOK /\ OneConnection /\ [Next]_vars => OneConnection'
<1> SUFFICES ASSUME TypeOK, OneConnection, [Next]_vars PROVE OneConnection'
  OBVIOUS
<1> USE DEF OneConnection, Serving
<1>1. CASE UNCHANGED <<conn, dials, serve, link>>
  BY <1>1
<1>2. ASSUME NEW c \in Callers, CallStep(c) \/ Timeout(c) PROVE UNCHANGED <<conn, dials, serve, link>>
  BY <1>2 DEF CallStep, Timeout, Begin, GetActiveConn, Register, LockWrite, WriteOK, WriteError,
              WritePanic, Receive, Return, rpcVars, runVars, serveVars, netVars
<1>3. CASE ConnectOK \/ ConnectFail
  <2>1. /\ serve = "connect" /\ dials < MaxDials /\ dials' = dials + 1
        /\ \E l \in {"open", "closed"} : /\ link' = [link EXCEPT ![dials + 1] = l]
                                         /\ l = "open" => serve' \in Serving /\ conn' = dials + 1
                                         /\ l = "closed" => serve' = "retry" /\ conn' = conn
    BY <1>3 DEF ConnectOK, ConnectFail, LoopHead, rpcVars
  <2>2. dials + 1 \in Conns /\ dials \in Nat
    BY <2>1, WSClientAssumption DEF TypeOK, Conns, WSClientAssumption
  <2>3. conn = NoConn /\ \A k \in Conns : link[k] \notin {"open", "broken"}
    BY <2>1
  <2> QED
    BY <2>1, <2>2, <2>3 DEF TypeOK
<1>4. CASE /\ UNCHANGED <<conn, dials, link>>
           /\ \/ serve \in Serving /\ serve' \in Serving
              \/ serve = "retry" /\ serve' \in {"stopped", "failed", "connect"}
  BY <1>4
<1>5. CASE AutoSendBegin \/ AutoSendOK \/ AutoSendError \/ AutoSendPanic \/ ReadOther \/ ReadError
  BY <1>4, <1>5 DEF AutoSendBegin, AutoSendOK, AutoSendError, AutoSendPanic, ReadOther, ReadError,
                    LoopHead, rpcVars, runVars, netVars
<1>6. CASE Deliver \/ RunDecides \/ \E f \in Incoming : ReadReply(f)
  BY <1>4, <1>6 DEF Deliver, RunDecides, ReadReply, LoopHead, rpcVars, runVars, netVars
<1>7. CASE ClearActiveConn
  BY <1>7 DEF ClearActiveConn, netVars
<1>8. CASE CloseConn
  BY <1>8 DEF CloseConn, rpcVars, runVars, TypeOK
<1>9. CASE Cancel \/ \E x \in waking : Wake(x)
  BY <1>1, <1>9 DEF Cancel, Wake, rpcVars, netVars
<1>10. ASSUME NEW k \in Conns, PeerGone(k) PROVE OneConnection'
  <2>1. /\ link[k] = "open" /\ link' = [link EXCEPT ![k] = "broken"]
        /\ UNCHANGED <<conn, dials, serve>>
    BY <1>10 DEF PeerGone, rpcVars, serveVars, runVars
  <2> QED
    BY <2>1 DEF TypeOK
<1>11. ASSUME NEW k \in Conns, NEW i \in arrived[k], Execute(k, i) PROVE OneConnection'
  BY <1>1, <1>11 DEF Execute, rpcVars, serveVars, runVars
<1> QED
  BY <1>1, <1>2, <1>3, <1>5, <1>6, <1>7, <1>8, <1>9, <1>10, <1>11
     DEF Next, ServeStep, GatewayStep, vars, rpcVars, serveVars, runVars, netVars

(* The step that removes an entry from the map takes it in hand, and the   *)
(* step that drops it from the hand fills the channel.                     *)
LEMMA NoLostWakeupStep ==
  ASSUME TypeOK, NoLostWakeup, NumbersUnique, LocalsFresh, HandsEmpty, OnePlace,
         NoPendingLeak, OneConnection, [Next]_vars
  PROVE  NoLostWakeup'
<1> USE DEF TypeOK, rpcVars, runVars, serveVars, callVars, netVars
<1>1. ASSUME NEW c \in Callers, Begin(c) PROVE NoLostWakeup'
  BY <1>1 DEF Begin, NoLostWakeup, Entry, Id, Ch, Registered
<1>2. ASSUME NEW c \in Callers, GetActiveConn(c) PROVE NoLostWakeup'
  BY <1>2 DEF GetActiveConn, NoLostWakeup, Entry, Id, Ch, Registered
<1>3. ASSUME NEW c \in Callers, Register(c) PROVE NoLostWakeup'
  BY <1>3 DEF Register, NoLostWakeup, Entry, Id, Ch, Registered, Unregistered, NumbersUnique
<1>4. ASSUME NEW c \in Callers, Advance(c) PROVE NoLostWakeup'
  BY <1>4 DEF Advance, NoLostWakeup, Entry, Id, Ch, Registered
<1>5. ASSUME NEW c \in Callers, Return(c) PROVE NoLostWakeup'
  <2>1. \A d \in Callers : d # c /\ pc[d] # "idle" => Id(d) # Id(c)
    BY DEF NumbersUnique, Id
  <2>2. \A d \in Callers : d # c => Id(d)' = Id(d) /\ Ch(d)' = Ch(d) /\ Entry(d)' = Entry(d)
    BY <1>5 DEF Return, Id, Ch, Entry
  <2>3. \A d \in Callers : d # c /\ pc[d] # "idle" /\ Entry(d) \in pending => Entry(d) \in pending'
    BY <1>5, <2>1 DEF Return, Unregistered, Entry
  <2>4. \A d \in Callers : pc'[d] \in {"lock", "write", "wait"} => d # c /\ pc'[d] = pc[d]
    BY <1>5 DEF Return
  <2> QED
    BY <1>5, <2>2, <2>3, <2>4 DEF Return, NoLostWakeup
<1>6. ASSUME NEW f \in Frames, ReadReply(f) PROVE NoLostWakeup'
  <2>1. PICK e \in pending : e.id = f.id /\ held' = {[chan |-> e.chan, frame |-> f]}
                             /\ pending' = pending \ {e}
    BY <1>6, ReplyTakesOne
  <2>2. held = {} /\ waking = {}
    BY <1>6 DEF ReadReply, HandsEmpty
  <2>3. \A d \in Callers : Ch(d)' = Ch(d) /\ Entry(d)' = Entry(d) /\ Entry(d).chan = Ch(d)
    BY <1>6 DEF ReadReply, Id, Ch, Entry
  <2>4. \E h \in held' : h.chan = e.chan
    BY <2>1
  <2> QED
    BY <1>6, <2>1, <2>2, <2>3, <2>4 DEF ReadReply, NoLostWakeup
<1>7. ASSUME NEW x \in Chans, Wake(x) PROVE NoLostWakeup'
  <2>1. chan' = [chan EXCEPT ![x] = {Closed}] /\ waking' = waking \ {x}
    BY <1>7, WakeFills DEF Wake
  <2>2. \A d \in Callers : Ch(d)' = Ch(d) /\ Entry(d)' = Entry(d) /\ Ch(d) \in Chans
    BY <1>7 DEF Wake, Id, Ch, Entry, Chans
  <2> QED
    BY <1>7, <2>1, <2>2 DEF Wake, NoLostWakeup
<1>8. CASE Deliver
  <2>1. PICK h \in held : held = {h} /\ chan' = [chan EXCEPT ![h.chan] = {h.frame}]
    BY <1>8, DeliverFills
  <2>2. \A d \in Callers : Ch(d)' = Ch(d) /\ Entry(d)' = Entry(d) /\ Ch(d) \in Chans
    BY <1>8 DEF Deliver, Id, Ch, Entry, Chans
  <2> QED
    BY <1>8, <2>1, <2>2 DEF Deliver, NoLostWakeup
<1>9. CASE ClearActiveConn
  <2>1. held = {} /\ waking = {} /\ waking' = {e.chan : e \in pending}
    BY <1>9 DEF ClearActiveConn, PendingChans, HandsEmpty
  <2>2. \A d \in Callers : Ch(d)' = Ch(d) /\ Entry(d)' = Entry(d) /\ Entry(d).chan = Ch(d)
    BY <1>9 DEF ClearActiveConn, Id, Ch, Entry
  <2>3. \A d \in Callers : Entry(d) \in pending => Ch(d) \in waking'
    BY <2>1, <2>2
  <2> QED
    BY <1>9, <2>1, <2>2, <2>3 DEF ClearActiveConn, NoLostWakeup
<1>10. CASE Background
  <2>1. conn' = conn \/ conn = NoConn
    BY <1>10 DEF Background, OneConnection, Serving
  <2>2. \A d \in Callers : pc[d] \in Registered => lconn[d] # NoConn
    BY DEF LocalsFresh
  <2>3. \A d \in Callers : Ch(d)' = Ch(d) /\ Entry(d)' = Entry(d)
    BY <1>10 DEF Background, Id, Ch, Entry
  <2> QED
    BY <1>10, <2>1, <2>2, <2>3 DEF Background, NoLostWakeup, Registered
<1> QED
  BY <1>1, <1>2, <1>3, <1>4, <1>5, <1>6, <1>7, <1>8, <1>9, <1>10, StepKinds

(* writeMu is taken and released by the callers alone, and released on     *)
(* every path but that of a panic, which needs an automatic message.       *)
LEMMA WritersLockedStep ==
  ASSUME TypeOK, WritersLocked, [Next]_vars
  PROVE  WritersLocked'
<1> USE DEF TypeOK, WritersLocked, rpcVars, runVars, serveVars, callVars, netVars
<1>1. ASSUME NEW c \in Callers, Begin(c) PROVE WritersLocked'
  BY <1>1 DEF Begin
<1>2. ASSUME NEW c \in Callers, GetActiveConn(c) PROVE WritersLocked'
  BY <1>2 DEF GetActiveConn
<1>3. ASSUME NEW c \in Callers, Register(c) PROVE WritersLocked'
  BY <1>3 DEF Register
<1>4. ASSUME NEW c \in Callers, LockWrite(c) PROVE WritersLocked'
  BY <1>4 DEF LockWrite, Unlocked
<1>5. ASSUME NEW c \in Callers, WriteOK(c) PROVE WritersLocked'
  BY <1>5 DEF WriteOK, Unlock, AtMostOne
<1>6. ASSUME NEW c \in Callers, WriteError(c) PROVE WritersLocked'
  BY <1>6 DEF WriteError, Unlock, AtMostOne
<1>7. ASSUME NEW c \in Callers, WritePanic(c) PROVE WritersLocked'
  BY <1>7 DEF WritePanic, Overlap, AutoSending
<1>8. ASSUME NEW c \in Callers, Receive(c) PROVE WritersLocked'
  BY <1>8 DEF Receive
<1>9. ASSUME NEW c \in Callers, Return(c) PROVE WritersLocked'
  BY <1>9 DEF Return
<1>10. ASSUME NEW c \in Callers, Timeout(c) PROVE WritersLocked'
  BY <1>10 DEF Timeout
<1>11. CASE ServeStep
  <2>1. UNCHANGED <<pc, writeMu>> /\ (AutoSend \/ serve' \notin {"autosend", "autosending"})
    BY <1>11 DEF ServeStep, ConnectOK, ConnectFail, AutoSendBegin, AutoSendOK, AutoSendError, AutoSendPanic, ReadOther, ReadError, Deliver, ClearActiveConn, CloseConn, RunDecides, ReadReply, Wake, LoopHead
  <2> QED
    BY <2>1
<1>12. CASE Cancel \/ GatewayStep \/ UNCHANGED vars
  BY <1>12 DEF Cancel, GatewayStep, PeerGone, Execute, vars
<1> QED
  BY <1>1, <1>2, <1>3, <1>4, <1>5, <1>6, <1>7, <1>8, <1>9, <1>10, <1>11, <1>12 DEF Next, CallStep

-----------------------------------------------------------------------------
(* The requests at the gateway and its answers.                            *)

(* Most steps touch neither, nor begin or end a call.                      *)
Unseen ==
  /\ UNCHANGED <<requestID, num, attempt, op, result, arrived, answers>>
  /\ \A c \in Callers :
       /\ pc'[c] = "idle" <=> pc[c] = "idle"
       /\ pc'[c] = "done" <=> pc[c] = "done"
       /\ pc[c] \in {"wait", "return"} => pc'[c] \in {"wait", "return"}
  /\ serve' = "autosending" => serve = "autosending" /\ autoNum' = autoNum

(* The steps of the callers among them.                                    *)
LEMMA UnseenCalls ==
  ASSUME TypeOK, NEW c \in Callers,
         Register(c) \/ LockWrite(c) \/ Receive(c) \/ Timeout(c)
  PROVE  Unseen
<1> USE DEF Unseen, rpcVars, runVars, serveVars, callVars, netVars, TypeOK
<1>1. CASE Register(c)
  BY <1>1 DEF Register
<1>2. CASE LockWrite(c)
  BY <1>2 DEF LockWrite
<1>3. CASE Receive(c)
  BY <1>3 DEF Receive
<1>4. CASE Timeout(c)
  BY <1>4 DEF Timeout
<1> QED
  BY <1>1, <1>2, <1>3, <1>4

(* The steps of App.Run and of the environment among them.                 *)
LEMMA UnseenServe ==
  ASSUME TypeOK,
         \/ ServeStep /\ ~AutoSendBegin /\ ~AutoSendOK /\ ~AutoSendError
         \/ Cancel \/ UNCHANGED vars
         \/ \E k \in Conns : PeerGone(k)
  PROVE  Unseen
<1> USE DEF Unseen, rpcVars, runVars, serveVars, callVars, netVars, LoopHead
<1>1. CASE ConnectOK
  BY <1>1 DEF ConnectOK
<1>2. CASE ConnectFail
  BY <1>2 DEF ConnectFail
<1>3. CASE AutoSendPanic
  BY <1>3 DEF AutoSendPanic
<1>4. ASSUME NEW f, ReadReply(f) PROVE Unseen
  BY <1>4 DEF ReadReply
<1>5. CASE ReadOther \/ ReadError
  BY <1>5 DEF ReadOther, ReadError
<1>6. CASE Deliver
  BY <1>6 DEF Deliver
<1>7. ASSUME NEW x, Wake(x) PROVE Unseen
  BY <1>7 DEF Wake
<1>8. CASE ClearActiveConn
  BY <1>8 DEF ClearActiveConn
<1>9. CASE CloseConn \/ RunDecides
  BY <1>9 DEF CloseConn, RunDecides
<1>10. CASE Cancel
  BY <1>10 DEF Cancel
<1>11. ASSUME NEW k \in Conns, PeerGone(k) PROVE Unseen
  BY <1>11 DEF PeerGone
<1>12. CASE UNCHANGED vars
  BY <1>12 DEF vars
<1> QED
  BY <1>1, <1>2, <1>3, <1>4, <1>5, <1>6, <1>7, <1>8, <1>9, <1>10, <1>11, <1>12 DEF ServeStep

(* A write may add an id to what has arrived.                              *)
Arrives(i) ==
  /\ \A k \in Conns : arrived[k] \subseteq arrived'[k] /\ arrived'[k] \subseteq arrived[k] \cup {i}
  /\ UNCHANGED <<requestID, num, attempt, op, result, answers>>

Writes(c) ==
  /\ Arrives(Id(c))
  /\ pc[c] = "write" /\ \E p \in {"wait", "return"} : pc' = [pc EXCEPT ![c] = p]
  /\ UNCHANGED <<serve, autoNum>>

AutoWrites == Arrives(AutoId) /\ serve = "autosending" /\ serve' # "autosending" /\ UNCHANGED pc

LEMMA WriteKinds ==
  ASSUME TypeOK
  PROVE  /\ \A c \in Callers : WriteOK(c) \/ WriteError(c) \/ WritePanic(c) => Writes(c)
         /\ AutoSendOK \/ AutoSendError => AutoWrites
<1> USE DEF rpcVars, runVars, serveVars, callVars, netVars
<1>1. ASSUME NEW c \in Callers, WriteOK(c) \/ WriteError(c) \/ WritePanic(c) PROVE Writes(c)
  <2>1. arrived' \in {arrived, Reached(lconn[c], Id(c))}
    BY <1>1 DEF WriteOK, WriteError, WritePanic
  <2>2. \A k \in Conns : arrived[k] \subseteq arrived'[k] /\ arrived'[k] \subseteq arrived[k] \cup {Id(c)}
    BY <2>1, ReachedType, IdTypes
  <2> QED
    BY <1>1, <2>2 DEF Writes, Arrives, WriteOK, WriteError, WritePanic
<1>2. ASSUME AutoSendOK \/ AutoSendError PROVE AutoWrites
  <2>1. arrived' \in {arrived, Reached(dials, AutoId)}
    BY <1>2 DEF AutoSendOK, AutoSendError
  <2>2. \A k \in Conns : arrived[k] \subseteq arrived'[k] /\ arrived'[k] \subseteq arrived[k] \cup {AutoId}
    BY <2>1, ReachedType, IdTypes
  <2> QED
    BY <1>2, <2>2 DEF AutoWrites, Arrives, AutoSendOK, AutoSendError, LoopHead
<1> QED
  BY <1>1, <1>2

(* The others change one thing each.                                       *)
LEMMA SeenKinds ==
  ASSUME TypeOK, [Next]_vars
  PROVE  \/ \E c \in Callers : Begin(c) \/ GetActiveConn(c) \/ Writes(c) \/ Return(c)
         \/ \E k \in Conns : \E i \in arrived[k] : Execute(k, i)
         \/ AutoSendBegin \/ AutoWrites \/ Unseen
BY UnseenCalls, UnseenServe, WriteKinds DEF Next, CallStep, GatewayStep

(* What an outcome can be.                                                 *)
LEMMA OutcomeIsNoBreak ==
  ASSUME NEW c \in Callers, NEW r, Outcome(c, r)
  PROVE  r # "ws_not_connected"
BY DEF Outcome, Verdict

(* A request reaches the gateway once, under a number of its own, and the  *)
(* fallback only after the rejection of the first.                         *)
LEMMA RequestsTellStep ==
  ASSUME TypeOK, NumbersUnique, LocalsFresh, ReplyMatchesRequest, RequestsTell, [Next]_vars
  PROVE  RequestsTell'
<1> USE DEF TypeOK, rpcVars, runVars, serveVars, callVars, netVars
<1>1. ASSUME NEW c \in Callers, Begin(c) PROVE RequestsTell'
  <2>1. \A i \in Ids : Asked(i) => Asked(i)'
    BY <1>1 DEF Begin, nextID, Asked, Ids
  <2>2. \A d \in Callers : attempt[d] = "fallback" => d # c /\ (ParamsRejected(d) => ParamsRejected(d)')
    BY <1>1 DEF Begin, LocalsFresh, ParamsRejected
  <2> QED
    BY <1>1, <2>1, <2>2 DEF Begin, nextID, RequestsTell
<1>2. ASSUME NEW c \in Callers, GetActiveConn(c) PROVE RequestsTell'
  <2>1. \A i \in Ids : Asked(i) => Asked(i)'
    BY <1>2 DEF GetActiveConn, Asked
  <2>2. \A d \in Callers : ParamsRejected(d)' = ParamsRejected(d)
    BY <1>2 DEF GetActiveConn, ParamsRejected
  <2> QED
    BY <1>2, <2>1, <2>2 DEF GetActiveConn, RequestsTell
<1>3. ASSUME NEW c \in Callers, Writes(c) PROVE RequestsTell'
  <2>1. \A i \in Ids : Asked(i) => Asked(i)'
    BY <1>3 DEF Writes, Arrives, Asked
  <2>2. \A i \in {Id(c)} : Asked(i)'
    BY <1>3 DEF Writes, Arrives, Asked, Id, NumbersUnique, RequestsTell
  <2>3. \A d \in Callers : ParamsRejected(d)' = ParamsRejected(d)
    BY <1>3 DEF Writes, Arrives, ParamsRejected
  <2> QED
    BY <1>3, <2>1, <2>2, <2>3 DEF Writes, Arrives, RequestsTell
<1>4. ASSUME NEW c \in Callers, Return(c) PROVE RequestsTell'
  <2>1. \A i \in Ids : Asked(i) => Asked(i)'
    BY <1>4, OutcomeIsNoBreak DEF Return, FallsBack, Asked, Ids, Attempts
  <2>2. FallsBack(c) => ParamsRejected(c)
    BY DEF FallsBack, ParamsRejected, ReplyMatchesRequest, Id
  <2>3. \A d \in Callers : ParamsRejected(d)' = ParamsRejected(d)
    BY <1>4 DEF Return, ParamsRejected
  <2> QED
    BY <1>4, <2>1, <2>2, <2>3 DEF Return, RequestsTell
<1>5. ASSUME NEW k \in Conns, NEW i \in arrived[k], Execute(k, i) PROVE RequestsTell'
  <2>1. \A j \in Ids : Asked(j)' = Asked(j)
    BY <1>5 DEF Execute, Asked
  <2>2. \A d \in Callers : ParamsRejected(d) => ParamsRejected(d)'
    BY <1>5 DEF Execute, ParamsRejected
  <2> QED
    BY <1>5, <2>1, <2>2 DEF Execute, RequestsTell
<1>6. CASE AutoSendBegin
  <2>1. \A i \in Ids : Asked(i) => Asked(i)'
    BY <1>6 DEF AutoSendBegin, nextID, Asked, Ids
  <2>2. \A d \in Callers : ParamsRejected(d)' = ParamsRejected(d)
    BY <1>6 DEF AutoSendBegin, ParamsRejected
  <2> QED
    BY <1>6, <2>1, <2>2 DEF AutoSendBegin, nextID, RequestsTell, NumbersUnique
<1>7. CASE AutoWrites
  <2>1. \A i \in Ids : Asked(i)' = Asked(i)
    BY <1>7 DEF AutoWrites, Arrives, Asked
  <2>2. AutoId \in Ids /\ Asked(AutoId)
    BY <1>7 DEF AutoWrites, AutoId, Asked, RequestsTell, Ids, Attempts
  <2>3. \A d \in Callers : ParamsRejected(d)' = ParamsRejected(d)
    BY <1>7 DEF AutoWrites, Arrives, ParamsRejected
  <2> QED
    BY <1>7, <2>1, <2>2, <2>3 DEF AutoWrites, Arrives, RequestsTell
<1>8. CASE Unseen
  <2>1. \A i \in Ids : Asked(i) => Asked(i)'
    BY <1>8 DEF Unseen, Asked
  <2>2. \A d \in Callers : ParamsRejected(d)' = ParamsRejected(d)
    BY <1>8 DEF Unseen, ParamsRejected
  <2> QED
    BY <1>8, <2>1, <2>2 DEF Unseen, RequestsTell
<1> QED
  BY <1>1, <1>2, <1>3, <1>4, <1>5, <1>6, <1>7, <1>8, SeenKinds

(* Initial states satisfy the invariant.                                   *)
LEMMA InitIInv == Init => IInv
<1> SUFFICES ASSUME Init PROVE IInv
  OBVIOUS
<1> USE DEF Init
<1>1. TypeOK
  BY InitTypeOK
<1>2. NumbersUnique /\ LocalsFresh
  BY DEF NumbersUnique, LocalsFresh, Registered
<1>3. HandsEmpty /\ NoPendingLeak
  BY DEF HandsEmpty, NoPendingLeak, AtMostOne
<1>4. OnePlace /\ AnswersOwn
  BY DEF OnePlace, AnswersOwn, InMap, InHand
<1>5. ChansFresh
  BY DEF ChansFresh, Unused, InMap, InHand, Ch, Chans, Attempts
<1>6. ReplyMatchesRequest /\ NoLostWakeup /\ WritersLocked
  BY DEF ReplyMatchesRequest, NoLostWakeup, WritersLocked
<1>7. RequestsTell /\ OneConnection
  BY OneConnectionInit DEF RequestsTell
<1> QED
  BY <1>1, <1>2, <1>3, <1>4, <1>5, <1>6, <1>7 DEF IInv

(* The parts together are inductive.                                       *)
LEMMA IInvStep == IInv /\ [Next]_vars => IInv'
<1> SUFFICES ASSUME IInv, [Next]_vars PROVE IInv'
  OBVIOUS
<1> USE DEF IInv
<1>1. TypeOK' /\ NumbersUnique' /\ LocalsFresh' /\ HandsEmpty' /\ NoPendingLeak'
  BY TypeOKStep, NumbersUniqueStep, LocalsFreshStep, HandsEmptyStep, NoPendingLeakStep
<1>2. OnePlace' /\ ChansFresh' /\ AnswersOwn'
  BY OnePlaceStep, ChansFreshStep, AnswersOwnStep
<1>3. ReplyMatchesRequest' /\ WritersLocked' /\ NoLostWakeup'
  BY ReplyMatchesRequestStep, WritersLockedStep, NoLostWakeupStep
<1>4. RequestsTell' /\ OneConnection'
  BY RequestsTellStep, OneConnectionStep
<1> QED
  BY <1>1, <1>2, <1>3, <1>4

(* The strengthened invariant holds of every reachable state.              *)
THEOREM Inductive == Spec => []IInv
<1>1. Init => IInv
  BY InitIInv
<1>2. IInv /\ [Next]_vars => IInv'
  BY IInvStep
<1> QED
  BY <1>1, <1>2, PTL DEF Spec

-----------------------------------------------------------------------------
(* What it implies.                                                        *)

(* No caller that registered while its connection was Client.conn is       *)
(* forgotten by resolvePending or by clearActiveConn (client.go:519-576).  *)
THEOREM NoWakeupIsLost == Spec => []NoLostWakeup
<1>1. IInv => NoLostWakeup
  BY DEF IInv
<1> QED
  BY <1>1, Inductive, PTL

(* The default branches of the two selects that send on a pending call's   *)
(* channel (client.go:538-541, 571-574) are never taken.                   *)
THEOREM NoSendIsDropped == Spec => []NoSendDropped
<1>1. IInv => NoSendDropped
  <2> SUFFICES ASSUME IInv PROVE NoSendDropped
    OBVIOUS
  <2>1. \A h \in held : h.chan \in Chans
    BY DEF IInv, TypeOK, Held
  <2>2. \A x \in waking : x \in Chans
    BY DEF IInv, TypeOK
  <2> QED
    BY <2>1, <2>2 DEF IInv, OnePlace, InHand, NoSendDropped
<1> QED
  BY <1>1, Inductive, PTL

(* Client.pending holds nothing but the requests of calls in progress      *)
(* (client.go:470-474, 545-549).                                           *)
THEOREM NoEntryLeaks == Spec => []NoPendingLeak
<1>1. IInv => NoPendingLeak
  BY DEF IInv
<1> QED
  BY <1>1, Inductive, PTL

(* A call returns the gateway's answer to its own request, however many    *)
(* calls share the connection (client.go:497-516).                         *)
THEOREM RepliesMatch == Spec => []ReplyMatchesRequest
<1>1. IInv => ReplyMatchesRequest
  BY DEF IInv
<1> QED
  BY <1>1, Inductive, PTL

(* writeMu keeps the writes of the callers apart, and is never left locked *)
(* (client.go:483-485), provided no automatic message is configured.       *)
THEOREM WritesExclusive ==
  ASSUME ~AutoSend
  PROVE  Spec => []OneWriter
<1>1. IInv => OneWriter
  BY DEF IInv, TypeOK, WritersLocked, OneWriter, AtMostOne, Overlap, AutoSending, CallersWriting
<1> QED
  BY <1>1, Inductive, PTL

-----------------------------------------------------------------------------
(* Connections and progress.                                               *)

(* A caller gets the connection that is served, and no other is left open  *)
(* (client.go:90-166, 524-576).                                            *)
THEOREM ConnectionsAreServed == Spec => []OneConnection
<1>1. IInv => OneConnection
  BY DEF IInv
<1> QED
  BY <1>1, Inductive, PTL

(* Every step of a call brings it closer to its return.                    *)
THEOREM CallsOnlyAdvance == Spec => CallsAdvance
<1> DEFINE Advances(c) == UNCHANGED <<pc[c], attempt[c]>> \/ StepsLeft(c)' < StepsLeft(c)
<1>1. TypeOK /\ [Next]_vars => [\A c \in Callers : Advances(c)]_vars
  <2> SUFFICES ASSUME TypeOK, Next, NEW d \in Callers PROVE Advances(d)
    OBVIOUS
  <2>1. CASE UNCHANGED <<pc, attempt>>
    BY <2>1
  <2>2. ASSUME NEW c \in Callers, NEW p \in CallPCs, pc' = [pc EXCEPT ![c] = p], UNCHANGED attempt,
               \/ pc[c] = "idle" /\ p = "call"
               \/ pc[c] = "call" /\ p \in {"register", "done"}
               \/ pc[c] = "register" /\ p = "lock"
               \/ pc[c] = "lock" /\ p = "write"
               \/ pc[c] = "write" /\ p \in {"wait", "return"}
               \/ pc[c] = "wait" /\ p = "return"
               \/ pc[c] = "return" /\ p = "done"
        PROVE  Advances(d)
    BY <2>2 DEF StepsLeft, TypeOK
  <2>3. ASSUME NEW c \in Callers, Begin(c) \/ GetActiveConn(c) \/ Register(c) \/ LockWrite(c)
        PROVE  Advances(d)
    BY <2>2, <2>3 DEF Begin, GetActiveConn, Register, LockWrite, CallPCs
  <2>4. ASSUME NEW c \in Callers, WriteOK(c) \/ WriteError(c) \/ WritePanic(c) \/ Receive(c) \/ Timeout(c)
        PROVE  Advances(d)
    BY <2>2, <2>4 DEF WriteOK, WriteError, WritePanic, Receive, Timeout, CallPCs
  <2>5. ASSUME NEW c \in Callers, Return(c), ~FallsBack(c) PROVE Advances(d)
    BY <2>2, <2>5 DEF Return, CallPCs
  <2>6. ASSUME NEW c \in Callers, Return(c), FallsBack(c) PROVE Advances(d)
    <3>1. /\ pc[c] = "return" /\ pc' = [pc EXCEPT ![c] = "call"]
          /\ attempt[c] = "first" /\ attempt' = [attempt EXCEPT ![c] = "fallback"]
      BY <2>6 DEF Return, FallsBack
    <3> QED
      BY <3>1 DEF StepsLeft, TypeOK
  <2>7. CASE ServeStep \/ Cancel \/ GatewayStep
    BY <2>1, <2>7 DEF ServeStep, Cancel, GatewayStep, ConnectOK, ConnectFail, AutoSendBegin,
         AutoSendOK, AutoSendError, AutoSendPanic, ReadReply, ReadOther, ReadError, Deliver,
         ClearActiveConn, CloseConn, RunDecides, Wake, PeerGone, Execute, callVars
  <2> QED
    BY <2>3, <2>4, <2>5, <2>6, <2>7 DEF Next, CallStep
<1> QED
  BY <1>1, TypeCorrect, PTL DEF Spec, CallsAdvance

-----------------------------------------------------------------------------
(* The client keeps the contract of an isolated call (RpcContract).        *)

(* The answers to the requests of a call, and when they can be there.      *)
LEMMA ToldBy ==
  ASSUME IInv, NEW c \in Callers, NEW v \in ToldOf(c)
  PROVE  \E f \in answers :
           /\ f \in Frames /\ f.id \in Ids /\ f.id.num = num[c] /\ Asked(f.id) /\ pc[c] # "idle"
           /\ v = [attempt |-> f.id.attempt, body |-> f.body]
<1>1. PICK f \in answers : /\ f.id.num = num[c]
                          /\ v = [attempt |-> f.id.attempt, body |-> f.body]
  BY DEF ToldOf
<1>2. f \in Frames /\ f.id \in Ids
  BY DEF IInv, TypeOK, Frames
<1>3. Asked(f.id)
  BY DEF IInv, RequestsTell
<1>4. f.id.num # 0
  BY <1>3 DEF Asked, IInv, TypeOK
<1> QED
  BY <1>1, <1>2, <1>3, <1>4 DEF IInv, NumbersUnique

(* What no caller and no gateway decides is not seen in the contract.      *)
LEMMA UnseenStutters ==
  ASSUME UNCHANGED <<num, op, result, answers>>,
         \A c \in Callers : /\ pc'[c] = "idle" <=> pc[c] = "idle"
                            /\ pc'[c] = "done" <=> pc[c] = "done"
  PROVE  UNCHANGED Abstract!vars
<1>1. Phase' = Phase
  BY DEF Phase
<1>2. Told' = Told
  BY DEF Told, ToldOf
<1> QED
  BY <1>1, <1>2 DEF Abstract!vars

(* A call that is over closes.                                             *)
LEMMA OverCloses ==
  ASSUME TypeOK, NEW c \in Callers, NEW r, pc[c] \notin {"idle", "done"},
         pc' = [pc EXCEPT ![c] = "done"], result' = [result EXCEPT ![c] = r],
         UNCHANGED <<num, op, answers>>
  PROVE  Abstract!Close(c, r)
<1>1. Phase[c] = "open" /\ Phase' = [Phase EXCEPT ![c] = "closed"]
  BY DEF Phase, TypeOK
<1>2. Told' = Told
  BY DEF Told, ToldOf
<1> QED
  BY <1>1, <1>2 DEF Abstract!Close

(* A new number has no answers yet.                                        *)
LEMMA BeginRefines ==
  ASSUME IInv, NEW c \in Callers, Begin(c)
  PROVE  Abstract!Issue(c)
<1> USE DEF IInv, TypeOK
<1>1. Phase[c] = "idle" /\ Phase' = [Phase EXCEPT ![c] = "open"]
  BY DEF Begin, Phase
<1>2. \A f \in answers : f.id.num \in 1 .. requestID
  BY DEF RequestsTell, Asked
<1>3. answers' = answers /\ num' = [num EXCEPT ![c] = requestID + 1] /\ num[c] = 0
  BY DEF Begin, nextID, netVars, NumbersUnique
<1>4. ToldOf(c) = {} /\ ToldOf(c)' = {}
  BY <1>2, <1>3 DEF ToldOf
<1>5. \A d \in Callers : ToldOf(d)' = ToldOf(d)
  BY <1>3, <1>4 DEF ToldOf
<1>6. Told' = Told
  BY <1>5 DEF Told
<1> QED
  BY <1>1, <1>6 DEF Begin, Abstract!Issue

(* A call that finds no connection has nothing left at the gateway: no     *)
(* request, or a first one that was rejected for its parameters.           *)
LEMMA NotConnectedRefines ==
  ASSUME IInv, NEW c \in Callers, GetActiveConn(c)
  PROVE  Abstract!GiveUp(c) \/ UNCHANGED Abstract!vars
<1>0. pc[c] = "call"
  BY DEF GetActiveConn
<1>1. CASE conn # NoConn
  BY <1>1, UnseenStutters DEF GetActiveConn, netVars, IInv, TypeOK
<1>2. CASE conn = NoConn
  <2>1. ASSUME NEW v \in ToldOf(c) PROVE v = Abstract!RejectedParams
    <3>1. PICK f \in answers :
            /\ f.id \in Ids /\ f.id.num = num[c] /\ Asked(f.id)
            /\ v = [attempt |-> f.id.attempt, body |-> f.body]
      BY ToldBy
    <3>2. f.id.attempt = "first" /\ attempt[c] = "fallback"
      BY <1>0, <3>1 DEF Asked, Ids, Attempts, IInv, TypeOK
    <3>3. PICK g \in answers : g.id = [num |-> num[c], attempt |-> "first"] /\ g.body = "badParam"
      BY <3>2 DEF IInv, RequestsTell, ParamsRejected
    <3>4. f = g
      BY <3>1, <3>2, <3>3 DEF Ids, IInv, RequestsTell
    <3> QED
      BY <3>1, <3>2, <3>3, <3>4 DEF Abstract!RejectedParams
  <2>2. Told[c] \subseteq {Abstract!RejectedParams}
    BY <2>1 DEF Told
  <2>3. Abstract!Close(c, "ws_not_connected")
    BY <1>0, <1>2, OverCloses DEF GetActiveConn, netVars, IInv
  <2> QED
    BY <2>2, <2>3 DEF Abstract!GiveUp
<1> QED
  BY <1>1, <1>2

(* callRPC has returned: an outcome is one that the contract allows.       *)
LEMMA ReturnRefines ==
  ASSUME IInv, NEW c \in Callers, Return(c)
  PROVE  Abstract!Conclude(c) \/ Abstract!GiveUp(c) \/ UNCHANGED Abstract!vars
<1>0. pc[c] = "return" /\ UNCHANGED <<num, op, answers>>
  BY DEF Return, netVars
<1>1. CASE FallsBack(c)
  BY <1>0, <1>1, UnseenStutters DEF Return, IInv, TypeOK
<1>2. CASE ~FallsBack(c)
  <2>1. PICK r \in Results : Outcome(c, r) /\ result' = [result EXCEPT ![c] = r]
    BY <1>2 DEF Return
  <2>2. Abstract!Close(c, r)
    BY <1>0, <1>2, <2>1, OverCloses DEF Return, IInv
  <2>3. CASE r \in {"gateway_connectivity_error", "aborted"}
    BY <2>2, <2>3 DEF Abstract!GiveUp
  <2>4. CASE \E f \in got[c] \ {Closed} : r = Verdict(op[c], f.body)
    <3>1. PICK f \in got[c] \ {Closed} : r = Verdict(op[c], f.body)
      BY <2>4
    <3>2. f \in answers /\ f.id = Id(c)
      BY <3>1 DEF IInv, ReplyMatchesRequest
    <3> DEFINE v == [attempt |-> attempt[c], body |-> f.body]
    <3>3. v \in Told[c]
      BY <3>2 DEF Told, ToldOf, Id
    <3>4. ~(op[c] \in Abstract!WithOptions /\ v = Abstract!RejectedParams)
      BY <1>2, <3>1 DEF FallsBack, Abstract!RejectedParams, WithOptions, Abstract!WithOptions
    <3>5. f.body \in AllBodies /\ op[c] \in AllOps
      BY <3>2, WSClientAssumption DEF IInv, TypeOK, Frames
    <3>6. IF Abstract!Accepted(op[c], v) THEN r = "ok" ELSE r = Abstract!Rejection(op[c])
      BY <3>1, <3>5 DEF Abstract!Accepted, Abstract!Rejection, Verdict, AllBodies, AllOps, Anonymous, WithOptions,
             Abstract!Anonymous, Abstract!WithOptions
    <3> HIDE DEF v
    <3> QED
      BY <2>2, <3>3, <3>4, <3>6 DEF Abstract!Conclude
  <2> QED
    BY <2>1, <2>3, <2>4 DEF Outcome
<1> QED
  BY <1>1, <1>2

(* The gateway executes a request of a call that may still be executed, or *)
(* an automatic message.                                                   *)
LEMMA ExecuteRefines ==
  ASSUME IInv, NEW k \in Conns, NEW i \in arrived[k], Execute(k, i)
  PROVE  \/ \E c \in Callers : \E v \in Abstract!Verdicts : Abstract!GatewayExecutes(c, v)
         \/ UNCHANGED Abstract!vars
<1> USE DEF IInv
<1>1. PICK b \in Bodies : answers' = answers \cup {[kind |-> "res", id |-> i, body |-> b]}
  BY DEF Execute
<1>2. UNCHANGED <<pc, num, op, result>> /\ Phase' = Phase
  BY DEF Execute, callVars, Phase
<1>3. i \in Ids /\ Asked(i)
  BY DEF TypeOK, RequestsTell
<1>4. \A f \in answers : f.id # i
  BY DEF Execute
<1>5. CASE \A c \in Callers : num[c] # i.num
  <2>1. \A c \in Callers : ToldOf(c)' = ToldOf(c)
    BY <1>1, <1>2, <1>5 DEF ToldOf
  <2>2. Told' = Told
    BY <2>1 DEF Told
  <2> QED
    BY <1>2, <2>2 DEF Abstract!vars
<1>6. ASSUME NEW c \in Callers, num[c] = i.num
      PROVE  \E v \in Abstract!Verdicts : Abstract!GatewayExecutes(c, v)
  <2> DEFINE v == [attempt |-> i.attempt, body |-> b]
  <2>1. v \in Abstract!Verdicts
    BY <1>3 DEF Ids, Attempts, Abstract!Verdicts
  <2>2. num[c] # 0 /\ pc[c] # "idle"
    BY <1>3, <1>6 DEF Asked, NumbersUnique, TypeOK
  <2>3. ParamsRejected(c) => Abstract!RejectedParams \in ToldOf(c)
    BY DEF ParamsRejected, ToldOf, Abstract!RejectedParams
  <2>4. attempt[c] = "fallback" => ParamsRejected(c)
    BY DEF RequestsTell
  <2>5. result[c] # "ws_not_connected"
    <3>1. CASE i.attempt = attempt[c]
      BY <1>3, <1>6, <3>1 DEF Asked
    <3>2. CASE i.attempt # attempt[c]
      <4>1. i.attempt = "first" /\ attempt[c] = "fallback"
        BY <1>3, <1>6, <3>2 DEF Asked, Ids, Attempts, TypeOK
      <4>2. i = [num |-> num[c], attempt |-> "first"]
        BY <1>3, <1>6, <4>1 DEF Ids
      <4> QED
        BY <1>4, <2>4, <4>1, <4>2 DEF ParamsRejected
    <3> QED
      BY <3>1, <3>2
  <2>6. ASSUME NEW w \in ToldOf(c) PROVE w.attempt # v.attempt
    <3>1. PICK f \in answers : f.id \in Ids /\ f.id.num = num[c]
                              /\ w = [attempt |-> f.id.attempt, body |-> f.body]
      BY ToldBy
    <3> QED
      BY <1>3, <1>4, <1>6, <3>1 DEF Ids
  <2>7. ToldOf(c)' = ToldOf(c) \cup {v}
    <3> DEFINE x == [kind |-> "res", id |-> i, body |-> b]
               S == {g \in answers : g.id.num = num[c]}
               T == {g \in answers' : g.id.num = num'[c]}
    <3>1. x.id = i /\ x.body = b
      OBVIOUS
    <3>2. T = S \cup {x}
      BY <1>1, <1>2, <1>6, <3>1
    <3>3. ToldOf(c) = {[attempt |-> f.id.attempt, body |-> f.body] : f \in S}
      BY DEF ToldOf
    <3>4. ToldOf(c)' = {[attempt |-> f.id.attempt, body |-> f.body] : f \in T}
      BY DEF ToldOf
    <3>5. v = [attempt |-> x.id.attempt, body |-> x.body]
      BY <3>1
    <3> HIDE DEF v, x, S, T
    <3> QED
      BY <3>2, <3>3, <3>4, <3>5
  <2>8. \A d \in Callers \ {c} : num[d] # i.num
    BY <1>6, <2>2 DEF NumbersUnique
  <2>9. \A d \in Callers \ {c} : ToldOf(d)' = ToldOf(d)
    BY <1>1, <1>2, <2>8 DEF ToldOf
  <2>10. Told' = [Told EXCEPT ![c] = @ \cup {v}]
    BY <2>7, <2>9 DEF Told
  <2>11. Phase[c] # "idle"
    BY <2>2 DEF Phase
  <2>12. v.attempt = "fallback" => op[c] \in Abstract!WithOptions /\ Abstract!RejectedParams \in Told[c]
    BY <1>3, <1>6, <2>3, <2>4 DEF Asked, ParamsRejected, Told, WithOptions, Abstract!WithOptions
  <2>13. \A w \in Told[c] : w.attempt # v.attempt
    BY <2>6 DEF Told
  <2> HIDE DEF v
  <2> QED
    BY <1>2, <2>1, <2>5, <2>10, <2>11, <2>12, <2>13 DEF Abstract!GatewayExecutes
<1> QED
  BY <1>5, <1>6

(* A step of the client is one of the contract or is not seen in it.       *)
LEMMA StepsRefine ==
  ASSUME IInv, [Next]_vars
  PROVE  [Abstract!Next]_(Abstract!vars)
<1> USE DEF IInv
<1>1. ASSUME NEW c \in Callers, Begin(c) \/ GetActiveConn(c) \/ Return(c)
      PROVE  Abstract!Next \/ UNCHANGED Abstract!vars
  BY <1>1, BeginRefines, NotConnectedRefines, ReturnRefines DEF Abstract!Next
<1>2. ASSUME NEW c \in Callers, Writes(c) PROVE UNCHANGED Abstract!vars
  BY <1>2, UnseenStutters DEF Writes, Arrives, TypeOK
<1>3. ASSUME NEW k \in Conns, NEW i \in arrived[k], Execute(k, i)
      PROVE  Abstract!Next \/ UNCHANGED Abstract!vars
  BY <1>3, ExecuteRefines DEF Abstract!Next
<1>4. CASE AutoSendBegin \/ AutoWrites
  BY <1>4, UnseenStutters DEF AutoSendBegin, AutoWrites, Arrives, callVars, netVars
<1>5. CASE Unseen
  BY <1>5, UnseenStutters DEF Unseen
<1> QED
  BY <1>1, <1>2, <1>3, <1>4, <1>5, SeenKinds

(* However many calls share the connection, each of them is the isolated   *)
(* call that the handlers reckon with (client.go:168-274, 460-517).        *)
THEOREM ClientKeepsContract == Spec => Contract
<1>1. Init => Abstract!Init
  <2> SUFFICES ASSUME Init PROVE Abstract!Init
    OBVIOUS
  <2>1. Phase = [c \in Callers |-> "idle"]
    BY DEF Init, Phase
  <2>2. Told = [c \in Callers |-> {}]
    BY DEF Init, Told, ToldOf
  <2> QED
    BY <2>1, <2>2 DEF Init, Abstract!Init
<1>2. IInv /\ [Next]_vars => [Abstract!Next]_(Abstract!vars)
  BY StepsRefine
<1> QED
  BY <1>1, <1>2, Inductive, PTL DEF Spec, Contract, Abstract!Spec

(* In the contract a call with a final verdict, one that is not the        *)
(* rejection of optional parameters, gets no other.                        *)
Final(c, v) == ~(op[c] \in Abstract!WithOptions /\ v = Abstract!RejectedParams)

Settled ==
  \A c \in Callers :
    /\ Told[c] \subseteq Abstract!Verdicts
    /\ \A v, w \in Told[c] : v.attempt = w.attempt => v = w
    /\ \A v \in Told[c] : v.attempt = "fallback" =>
         op[c] \in Abstract!WithOptions /\ Abstract!RejectedParams \in Told[c]
    /\ Phase[c] # "closed" => result[c] = "none"
    /\ result[c] = "ok" => \E v \in Told[c] : Abstract!Accepted(op[c], v)
    /\ result[c] = Abstract!Rejection(op[c]) =>
         \E v \in Told[c] : ~Abstract!Accepted(op[c], v) /\ Final(c, v)
    /\ result[c] = "ws_not_connected" => Told[c] \subseteq {Abstract!RejectedParams}

(* A verdict that comes later is not on a call that has a final one.       *)
LEMMA FinalIsLast ==
  ASSUME Settled, NEW c \in Callers, NEW v \in Abstract!Verdicts, Abstract!GatewayExecutes(c, v)
  PROVE  \A w \in Told[c] : ~Final(c, w)
<1> SUFFICES ASSUME NEW w \in Told[c], Final(c, w) PROVE FALSE
  OBVIOUS
<1>1. w.attempt # v.attempt /\ v.attempt \in {"first", "fallback"} /\ w.attempt \in {"first", "fallback"}
  BY DEF Abstract!GatewayExecutes, Abstract!Verdicts, Settled
<1>2. CASE v.attempt = "fallback"
  <2>1. op[c] \in Abstract!WithOptions /\ Abstract!RejectedParams \in Told[c]
    BY <1>2 DEF Abstract!GatewayExecutes
  <2>2. w = Abstract!RejectedParams
    BY <1>1, <1>2, <2>1 DEF Settled, Abstract!RejectedParams
  <2> QED
    BY <2>1, <2>2 DEF Final
<1>3. CASE v.attempt = "first"
  <2>1. Abstract!RejectedParams \in Told[c]
    BY <1>1, <1>3 DEF Settled
  <2> QED
    BY <1>3, <2>1 DEF Abstract!GatewayExecutes, Abstract!RejectedParams
<1> QED
  BY <1>1, <1>2, <1>3

(* Verdicts on one call, two of which are not both final.                  *)
LEMMA OneFinal ==
  ASSUME Settled, NEW c \in Callers, NEW v \in Told[c], NEW w \in Told[c], Final(c, v), Final(c, w)
  PROVE  v = w
<1>1. v.attempt \in {"first", "fallback"} /\ w.attempt \in {"first", "fallback"}
  BY DEF Settled, Abstract!Verdicts
<1>2. v.attempt = w.attempt => v = w
  BY DEF Settled
<1>3. ASSUME NEW x \in Told[c], NEW y \in Told[c], x.attempt = "fallback", y.attempt = "first"
      PROVE  ~Final(c, y)
  <2>1. op[c] \in Abstract!WithOptions /\ Abstract!RejectedParams \in Told[c]
    BY <1>3 DEF Settled
  <2>2. y = Abstract!RejectedParams
    BY <1>3, <2>1 DEF Settled, Abstract!RejectedParams
  <2> QED
    BY <2>1, <2>2 DEF Final
<1> QED
  BY <1>1, <1>2, <1>3

(* Only a final verdict is an acceptance.                                  *)
LEMMA AcceptedIsFinal ==
  ASSUME NEW c, NEW v, Abstract!Accepted(op[c], v)
  PROVE  Final(c, v)
BY DEF Abstract!Accepted, Final, Abstract!RejectedParams

(* Every step that the contract allows keeps the account of verdicts.      *)
LEMMA SettledStep == Settled /\ [Abstract!Next]_(Abstract!vars) => Settled'
<1> SUFFICES ASSUME Settled, [Abstract!Next]_(Abstract!vars), NEW c \in Callers
             PROVE  /\ Told'[c] \subseteq Abstract!Verdicts
                    /\ \A v, w \in Told'[c] : v.attempt = w.attempt => v = w
                    /\ \A v \in Told'[c] : v.attempt = "fallback" =>
                         op'[c] \in Abstract!WithOptions /\ Abstract!RejectedParams \in Told'[c]
                    /\ Phase'[c] # "closed" => result'[c] = "none"
                    /\ result'[c] = "ok" => \E v \in Told'[c] : Abstract!Accepted(op'[c], v)
                    /\ result'[c] = Abstract!Rejection(op'[c]) =>
                         \E v \in Told'[c] : ~Abstract!Accepted(op'[c], v) /\ Final(c, v)'
                    /\ result'[c] = "ws_not_connected" => Told'[c] \subseteq {Abstract!RejectedParams}
  BY DEF Settled
<1>0. Told \in [Callers -> {Told[d] : d \in Callers}] /\ Phase \in [Callers -> {Phase[d] : d \in Callers}]
  BY DEF Told, Phase
<1>1. CASE UNCHANGED Abstract!vars
  BY <1>1 DEF Abstract!vars, Settled, Final
<1>2. ASSUME NEW d \in Callers, Abstract!Issue(d) PROVE Settled'
  <2>1. UNCHANGED <<op, Told, result>> /\ Phase[d] = "idle" /\ Phase' = [Phase EXCEPT ![d] = "open"]
    BY <1>2 DEF Abstract!Issue
  <2> QED
    BY <1>0, <2>1 DEF Settled, Final
<1>3. ASSUME NEW d \in Callers, NEW v \in Abstract!Verdicts, Abstract!GatewayExecutes(d, v)
      PROVE  Settled'
  <2>1. /\ UNCHANGED <<op, Phase, result>> /\ result[d] # "ws_not_connected"
        /\ Told' = [Told EXCEPT ![d] = @ \cup {v}]
        /\ \A w \in Told[d] : w.attempt # v.attempt
        /\ v.attempt = "fallback" => op[d] \in Abstract!WithOptions /\ Abstract!RejectedParams \in Told[d]
    BY <1>3 DEF Abstract!GatewayExecutes
  <2>2. Told'[d] = Told[d] \cup {v} /\ \A e \in Callers \ {d} : Told'[e] = Told[e]
    BY <1>0, <2>1
  <2> QED
    BY <2>1, <2>2 DEF Settled, Final
<1>4. ASSUME NEW d \in Callers, Abstract!Conclude(d) \/ Abstract!GiveUp(d) PROVE Settled'
  <2>1. PICK r : /\ Phase[d] = "open" /\ Phase' = [Phase EXCEPT ![d] = "closed"]
                 /\ result' = [result EXCEPT ![d] = r] /\ UNCHANGED <<op, Told>>
                 /\ \/ r = "ok" /\ \E v \in Told[d] : Abstract!Accepted(op[d], v)
                    \/ /\ r = Abstract!Rejection(op[d])
                       /\ \E v \in Told[d] : ~Abstract!Accepted(op[d], v) /\ Final(d, v)
                    \/ r = "ws_not_connected" /\ Told[d] \subseteq {Abstract!RejectedParams}
                    \/ r \in {"gateway_connectivity_error", "aborted"}
    BY <1>4 DEF Abstract!Conclude, Abstract!GiveUp, Abstract!Close, Final
  <2>2. /\ Abstract!Rejection(op[d]) \in {"send_rejected", "session_create_rejected"}
        /\ Phase'[d] = "closed" /\ \A e \in Callers \ {d} : Phase'[e] = Phase[e] /\ result'[e] = result[e]
        /\ result'[d] \in {r, result[d]}
    BY <1>0, <2>1 DEF Abstract!Rejection
  <2>3. result[d] = "none"
    BY <2>1 DEF Settled
  <2> QED
    BY <2>1, <2>2, <2>3 DEF Settled, Final
<1> QED
  BY <1>1, <1>2, <1>3, <1>4 DEF Abstract!Next, Settled

(* What the outcome says of the gateway is true and stays true, whatever   *)
(* is executed late (client.go:168-274): what module SendApi reckons with. *)
THEOREM OutcomesTell == Spec => []OutcomesBind
<1>1. Abstract!Init => Settled
  BY DEF Abstract!Init, Settled, Abstract!Rejection
<1>2. Settled => Abstract!Promise
  <2> SUFFICES ASSUME Settled, NEW c \in Callers
               PROVE  /\ \A v, w \in Abstract!AcceptedVerdicts(c) : v = w
                      /\ result[c] = "ok" => Abstract!AcceptedVerdicts(c) # {}
                      /\ result[c] \in {Abstract!Rejection(op[c]), "ws_not_connected"} =>
                           Abstract!AcceptedVerdicts(c) = {}
    BY DEF Abstract!Promise
  <2>1. \A v \in Abstract!AcceptedVerdicts(c) : v \in Told[c] /\ Final(c, v) /\ Abstract!Accepted(op[c], v)
    BY AcceptedIsFinal DEF Abstract!AcceptedVerdicts
  <2>2. \A v, w \in Abstract!AcceptedVerdicts(c) : v = w
    BY <2>1, OneFinal
  <2>3. result[c] = "ok" => Abstract!AcceptedVerdicts(c) # {}
    BY DEF Settled, Abstract!AcceptedVerdicts
  <2>4. result[c] = Abstract!Rejection(op[c]) => Abstract!AcceptedVerdicts(c) = {}
    BY <2>1, OneFinal DEF Settled
  <2>5. result[c] = "ws_not_connected" => Abstract!AcceptedVerdicts(c) = {}
    BY <2>1 DEF Settled, Abstract!Accepted, Abstract!RejectedParams
  <2> QED
    BY <2>2, <2>3, <2>4, <2>5
<1> QED
  BY <1>1, <1>2, SettledStep, ClientKeepsContract, PTL DEF Contract, Abstract!Spec, OutcomesBind
=============================================================================
