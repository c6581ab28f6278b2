--------------------------- MODULE HandshakeProofs ---------------------------
(* Proofs about Handshake, for any number of frames in flight.             *)
EXTENDS Handshake, TLAPS

(* The types of the frames on their way: a read takes the first one.       *)
LEMMA TailOK ==
  ASSUME NEW q \in Seq(Frames), q # <<>>
  PROVE  /\ Tail(q) \in Seq(Frames)
         /\ Len(Tail(q)) = Len(q) - 1
         /\ \A i \in 1 .. Len(Tail(q)) : i + 1 \in 1 .. Len(q) /\ Tail(q)[i] = q[i + 1]
OBVIOUS

(* And an emission adds a last one.                                        *)
LEMMA AppendOK ==
  ASSUME NEW q \in Seq(Frames), NEW f \in Frames
  PROVE  /\ Append(q, f) \in Seq(Frames)
         /\ Len(Append(q, f)) = Len(q) + 1
         /\ \A i \in 1 .. Len(q) : Append(q, f)[i] = q[i]
         /\ Append(q, f)[Len(q) + 1] = f
OBVIOUS

(* Each step keeps the invariant.                                          *)
LEMMA HandshakeStep ==
  ASSUME HandshakeInv, [Next]_vars
  PROVE  HandshakeInv'
<1> USE HandshakeAssumption DEF HandshakeAssumption, HandshakeInv, TypeOK, ServedIsUsable, Frames, RunPCs, Waiting, Errors, Greeting
<1>t. inbox # <<>> => /\ Tail(inbox) \in Seq(Frames)
                      /\ Len(Tail(inbox)) <= MaxInbox
                      /\ \A i \in 1 .. Len(Tail(inbox)) : Tail(inbox)[i] = "accept" => gateway = "accepted"
  BY TailOK
<1>e. <<>> \in Seq(Frames) /\ Len(<<>>) = 0
  OBVIOUS
<1>1. CASE DialOK
  BY <1>1, <1>t, <1>e DEF DialOK, SetDeadline
<1>2. CASE DialFail
  BY <1>2, <1>t, <1>e DEF DialFail, End
<1>3. CASE ReadChallenge
  BY <1>3, <1>t, <1>e DEF ReadChallenge, Readable, SetDeadline
<1>4. CASE ChallengeTimeout
  BY <1>4, <1>t, <1>e DEF ChallengeTimeout, SetDeadline
<1>5. CASE ChallengeError
  BY <1>5, <1>t, <1>e DEF ChallengeError, End
<1>6. CASE Skip
  BY <1>6, <1>t, <1>e DEF Skip, Readable, KeepWaiting
<1>7. CASE SendConnect
  <2>1. \A i \in 1 .. Len(inbox) : inbox[i] # "accept"
    BY <1>7 DEF SendConnect
  <2>2. CASE End("send_connect")
    BY <1>7, <1>e, <2>2 DEF SendConnect, End
  <2>3. CASE ~End("send_connect")
    BY <1>7, <2>1, <2>3 DEF SendConnect
  <2> QED
    BY <2>2, <2>3
<1>8. CASE ReadAccept
  <2>1. inbox # <<>> /\ inbox[1] = "accept" /\ ~readErr
    BY <1>8 DEF ReadAccept, Readable, Accepts
  <2>2. 1 \in 1 .. Len(inbox)
    BY <2>1
  <2>3. gateway = "accepted"
    BY <2>1, <2>2
  <2> QED
    BY <1>8, <1>t, <2>1, <2>3 DEF ReadAccept, ClearDeadline, SetDeadline
<1>9. CASE ResponseError
  BY <1>9, <1>t, <1>e DEF ResponseError
<1>10. CASE ServeFrame
  BY <1>10, <1>t, <1>e DEF ServeFrame, Readable
<1>11. CASE ServeError
  BY <1>11, <1>t, <1>e DEF ServeError, End
<1>12. CASE RunDecides
  BY <1>12, <1>t, <1>e DEF RunDecides
<1>13. CASE Cancel
  BY <1>13, <1>t, <1>e DEF Cancel
<1>14. CASE Expire
  BY <1>14, <1>t, <1>e DEF Expire
<1>15. CASE LinkBreaks
  BY <1>15, <1>t, <1>e DEF LinkBreaks, clientVars
<1>16. CASE Greet
  BY <1>16, AppendOK DEF Greet, Emit, clientVars
<1>17. CASE Noise
  <2> DEFINE q == Append(inbox, "noise")
  <2>1. inbox' = q /\ Len(inbox) < MaxInbox
    BY <1>17 DEF Noise, Emit
  <2>2. q \in Seq(Frames) /\ Len(q) = Len(inbox) + 1
    BY AppendOK
  <2>3. \A i \in 1 .. Len(q) : q[i] = "accept" => i \in 1 .. Len(inbox) /\ q[i] = inbox[i]
    BY AppendOK
  <2> HIDE DEF q
  <2>4. UNCHANGED <<run, cancelled, deadline, expired, readErr, challenged, error, link,
                    gateway, calm>> /\ run # "dial"
    BY <1>17 DEF Noise, Emit, clientVars
  <2>5. inbox' \in Seq(Frames) /\ Len(inbox') <= MaxInbox
    BY <2>1, <2>2
  <2>6. \A i \in 1 .. Len(inbox') : inbox'[i] = "accept" => gateway = "accepted"
    BY <2>1, <2>3
  <2> QED
    BY <2>4, <2>5, <2>6
<1>18. CASE Respond
  BY <1>18, AppendOK DEF Respond, Emit, clientVars
<1>19. CASE CalmDown
  BY <1>19, <1>t, <1>e DEF CalmDown, clientVars
<1>20. CASE UNCHANGED vars
  BY <1>20 DEF vars, clientVars
<1> QED
  BY <1>1, <1>2, <1>3, <1>4, <1>5, <1>6, <1>7, <1>8, <1>9, <1>10, <1>11, <1>12, <1>13, <1>14, <1>15, <1>16, <1>17, <1>18, <1>19, <1>20 DEF Next, ClientStep

(* The invariant the next theorem rests on.                                *)
THEOREM HandshakeInductive == Spec => []HandshakeInv
<1>1. Init => HandshakeInv
  <2>1. <<>> \in Seq(Frames) /\ Len(<<>>) = 0
    OBVIOUS
  <2>2. Init => inbox = <<>> /\ (\A i \in 1 .. Len(inbox) : inbox[i] = "accept" => gateway = "accepted")
    BY <2>1 DEF Init
  <2>3. Init => inbox \in Seq(Frames) /\ Len(inbox) <= MaxInbox
    BY <2>1, HandshakeAssumption DEF Init, HandshakeAssumption
  <2> QED
    BY <2>2, <2>3 DEF Init, HandshakeInv, TypeOK,
       ServedIsUsable, RunPCs, Errors, Waiting, Greeting
<1>2. HandshakeInv /\ [Next]_vars => HandshakeInv'
  BY HandshakeStep
<1> QED
  BY <1>1, <1>2, PTL DEF Spec

(* internal/wsclient/client.go:276-336: Serve only ever works on a         *)
(* connection whose connect request the gateway has accepted, with a       *)
(* reader that is neither broken nor about to time out.                    *)
THEOREM ServesUsable == Spec => []ServedIsUsable
<1>1. HandshakeInv => ServedIsUsable
  BY DEF HandshakeInv
<1> QED
  BY <1>1, HandshakeInductive, PTL

(* internal/wsclient/client.go:355-438: whatever frames the gateway sends, *)
(* an attempt waits for two deadlines at the most, and never starts one of *)
(* its waits anew.                                                         *)
THEOREM AttemptsOnlyAdvance == Spec => AttemptAdvances
<1> DEFINE Advances == UNCHANGED <<run, deadline, expired>> \/ AttemptLeft' < AttemptLeft
<1>1. HandshakeInv /\ [Next]_vars => [Attempting => Advances]_vars
  <2> SUFFICES ASSUME HandshakeInv, Next, Attempting PROVE Advances
    OBVIOUS
  <2>1. expired \in BOOLEAN /\ run \in {"challenge", "request", "response"}
    BY DEF HandshakeInv, TypeOK, Waiting, Attempting
  <2>2. CASE Skip \/ Cancel \/ LinkBreaks \/ Greet \/ Noise \/ Respond \/ CalmDown
    BY <2>2 DEF Skip, KeepWaiting, Cancel, LinkBreaks, Greet, Noise, Respond, CalmDown, clientVars
  <2>3. CASE Expire
    <3>1. ~expired /\ expired' /\ run' = run /\ run \in Waiting
      BY <2>1, <2>3 DEF Expire, Waiting
    <3>2. CASE run = "challenge"
      <4>1. AttemptLeft = 5 /\ AttemptLeft' = 4
        BY <3>1, <3>2 DEF AttemptLeft
      <4> QED
        BY <4>1
    <3>3. CASE run = "response"
      <4>1. AttemptLeft = 2 /\ AttemptLeft' = 1
        BY <3>1, <3>3 DEF AttemptLeft
      <4> QED
        BY <4>1
    <3> QED
      BY <3>1, <3>2, <3>3 DEF Waiting
  <2>4. CASE ReadChallenge \/ ChallengeTimeout \/ ChallengeError
    BY <2>1, <2>4 DEF ReadChallenge, ChallengeTimeout, ChallengeError, SetDeadline, End,
         AttemptLeft, Waiting
  <2>5. CASE SendConnect \/ ReadAccept \/ ResponseError
    BY <2>1, <2>5 DEF SendConnect, ReadAccept, ResponseError, ClearDeadline, SetDeadline, End,
         AttemptLeft, Waiting
  <2>6. CASE DialOK \/ DialFail \/ ServeFrame \/ ServeError \/ RunDecides
    BY <2>1, <2>6 DEF DialOK, DialFail, ServeFrame, ServeError, RunDecides
  <2> QED
    BY <2>2, <2>3, <2>4, <2>5, <2>6 DEF Next, ClientStep
<1> QED
  BY <1>1, HandshakeInductive, PTL DEF Spec, AttemptAdvances
=============================================================================
