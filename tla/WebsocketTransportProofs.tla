---------------------- MODULE WebsocketTransportProofs ----------------------
(***************************************************************************)
(* Proofs about WebsocketTransport, for every set of messages and every    *)
(* value of the bounds.                                                    *)
(***************************************************************************)
EXTENDS WebsocketTransport, TLAPS

(***************************************************************************)
(* The inductive invariant of the send path.  Buffers move from posted to  *)
(* send_msg_queue_ to wire, and their numbers 1..Len(accepted) stay in     *)
(* order across the three: the wire holds the first ones, the queue the    *)
(* next ones without a gap, the posted tasks the rest.                     *)
(***************************************************************************)
Settled == Len(wire) + Len(send_msg_queue_)

QueueFollowsWire ==
  \A i \in 1..Len(send_msg_queue_) : send_msg_queue_[i] = Len(wire) + i

PostedInOrder ==
  \A i, j \in 1..Len(posted) :
    i < j /\ posted[i] # CloseTask /\ posted[j] # CloseTask
      => posted[i] < posted[j]

PostedAreNew ==
  \A i \in 1..Len(posted) :
    posted[i] # CloseTask => posted[i] \in (Settled + 1)..Len(accepted)

NewArePosted ==
  \A k \in (Settled + 1)..Len(accepted) :
    \E i \in 1..Len(posted) : posted[i] = k

(* A failed write is never followed by another.                            *)
NoWriteAfterFailure == writeFailed => inflight = <<>> /\ send_msg_queue_ # <<>>

WriteInv == TypeOK /\ OneWriteInFlight

OrderInv ==
  /\ Settled <= Len(accepted)
  /\ WireInOrder
  /\ QueueFollowsWire
  /\ PostedInOrder
  /\ PostedAreNew
  /\ NewArePosted

IdleInv == NoIdleQueue /\ NoWriteAfterFailure

SendInv == WriteInv /\ OrderInv /\ IdleInv

(* The inductive invariant of connecting and reading.                      *)
ReadInv ==
  /\ reading <= 1
  /\ connected_ => reading = 1
  /\ chain # "idle" => ~connected_
  /\ status = "open" => connected_ \/ chain = "handshake"
  /\ ~StrandFree => reading = 0

-----------------------------------------------------------------------------
(* What the provers need about the sequence operators.                     *)

(* Append adds one element at the end.                                     *)
LEMMA AppendFacts ==
  ASSUME NEW S, NEW s \in Seq(S), NEW e \in S
  PROVE  /\ Append(s, e) \in Seq(S)
         /\ Len(s) \in Nat
         /\ Len(Append(s, e)) = Len(s) + 1
         /\ \A i \in 1..Len(s) : Append(s, e)[i] = s[i]
         /\ Append(s, e)[Len(s) + 1] = e
OBVIOUS

(* Head and Tail take a sequence that is not empty apart.                  *)
LEMMA TailFacts ==
  ASSUME NEW S, NEW s \in Seq(S), s # <<>>
  PROVE  /\ Head(s) \in S
         /\ Head(s) = s[1]
         /\ Len(s) \in Nat \ {0}
         /\ Tail(s) \in Seq(S)
         /\ Len(Tail(s)) = Len(s) - 1
         /\ \A i \in 1..Len(Tail(s)) : Tail(s)[i] = s[i + 1]
OBVIOUS

(* A function on 1..n is a sequence of length n.                           *)
LEMMA FunctionIsSeq ==
  ASSUME NEW S, NEW n \in Nat, NEW f \in [1..n -> S]
  PROVE  f \in Seq(S) /\ Len(f) = n
OBVIOUS

(* Concatenation.                                                          *)
LEMMA ConcatFacts ==
  ASSUME NEW S, NEW s \in Seq(S), NEW t \in Seq(S)
  PROVE  /\ s \o t \in Seq(S)
         /\ Len(s \o t) = Len(s) + Len(t)
         /\ \A i \in 1..Len(t) : (s \o t)[Len(s) + i] = t[i]
OBVIOUS

(* What OnWrite hands to async_write: the front of what is left, if any.   *)
LEMMA NextWriteFacts ==
  ASSUME NEW s \in Seq(Nat), NEW q \in Seq(Nat)
  PROVE  /\ s \o NextWrite(q) \in Seq(Nat)
         /\ q = <<>> => Len(s \o NextWrite(q)) = Len(s)
         /\ q # <<>> => /\ Len(s \o NextWrite(q)) = Len(s) + 1
                        /\ (s \o NextWrite(q))[Len(s) + 1] = Head(q)
<1>1. NextWrite(q) \in Seq(Nat)
  BY DEF NextWrite
<1>2. q = <<>> => Len(NextWrite(q)) = 0
  BY DEF NextWrite
<1>3. q # <<>> => Len(NextWrite(q)) = 1 /\ NextWrite(q)[1] = Head(q)
  BY DEF NextWrite
<1>4. /\ s \o NextWrite(q) \in Seq(Nat)
      /\ Len(s \o NextWrite(q)) = Len(s) + Len(NextWrite(q))
      /\ \A i \in 1..Len(NextWrite(q)) :
           (s \o NextWrite(q))[Len(s) + i] = NextWrite(q)[i]
  BY <1>1, ConcatFacts, Zenon
<1>5. Len(s) \in Nat
  OBVIOUS
<1>6. ASSUME q = <<>> PROVE Len(s \o NextWrite(q)) = Len(s)
  BY <1>2, <1>4, <1>5, <1>6
<1>7. ASSUME q # <<>>
      PROVE  /\ Len(s \o NextWrite(q)) = Len(s) + 1
             /\ (s \o NextWrite(q))[Len(s) + 1] = Head(q)
  <2>0. Len(NextWrite(q)) = 1
    BY <1>3, <1>7, Zenon
  <2>1. 1 \in 1..Len(NextWrite(q))
    BY <2>0
  <2>2. (s \o NextWrite(q))[Len(s) + 1] = NextWrite(q)[1]
    BY <1>4, <2>1, Zenon
  <2>3. Len(s \o NextWrite(q)) = Len(s) + 1
    BY <1>3, <1>4, <1>7, Zenon
  <2> QED
    BY <1>3, <1>7, <2>2, <2>3, Zenon
<1> QED
  BY <1>4, <1>6, <1>7, Zenon
-----------------------------------------------------------------------------
(* The steps, by what they do to the send path.                            *)

queueVars == <<send_msg_queue_, inflight, wire, writeFailed>>

Accepts(m) ==
  /\ accepted' = Append(accepted, m)
  /\ posted' = Append(posted, Len(accepted) + 1)
  /\ UNCHANGED queueVars

PostsClose ==
  /\ posted' = Append(posted, CloseTask)
  /\ UNCHANGED <<accepted, queueVars>>

DropsClose ==
  /\ posted # <<>> /\ Head(posted) = CloseTask
  /\ posted' = Tail(posted)
  /\ UNCHANGED <<accepted, queueVars>>

Quiet == UNCHANGED <<accepted, posted, queueVars>>

(* Called from any handler, SendMsg accepts a message or does nothing.     *)
LEMMA SendMsgKind ==
  ASSUME NEW c, NEW m \in Msg \cup {NoMsg}, SendMsg(c, m), UNCHANGED queueVars
  PROVE  Quiet \/ \E x \in Msg : Accepts(x)
<1>1. CASE c /\ m # NoMsg
  BY <1>1, Zenon DEF SendMsg, Accepts
<1>2. CASE ~(c /\ m # NoMsg)
  BY <1>2, Zenon DEF SendMsg, Quiet
<1> QED
  BY <1>1, <1>2

(* Seven kinds of steps are all there are.                                 *)
LEMMA StepKinds ==
  ASSUME [Next]_vars
  PROVE  \/ Quiet
         \/ \E m \in Msg : Accepts(m)
         \/ PostsClose
         \/ DropsClose
         \/ SendDataInner
         \/ OnWrite(TRUE)
         \/ OnWrite(FALSE)
<1> USE DEF queueVars
<1>1. ASSUME NEW m \in Msg, Send(m) PROVE Quiet \/ \E x \in Msg : Accepts(x)
  BY <1>1, SendMsgKind DEF Send, streamVars
<1>2. CASE Connect
  BY <1>2 DEF Connect, Quiet
<1>3. CASE Disconnect
  BY <1>3 DEF Disconnect, streamVars, Quiet, PostsClose
<1>4. ASSUME NEW ec \in BOOLEAN, OnResolve(ec) \/ OnConnect(ec) \/ OnClose(ec)
      PROVE  Quiet
  BY <1>4 DEF OnResolve, OnConnect, OnClose, Quiet
<1>5. ASSUME NEW ec \in BOOLEAN, OnWrite(ec)
      PROVE  OnWrite(TRUE) \/ OnWrite(FALSE)
  BY <1>5
<1>6. CASE HandshakeDone
  BY <1>6 DEF HandshakeDone, Quiet
<1>7. ASSUME NEW ec \in BOOLEAN, NEW m \in Msg \cup {NoMsg}, OnHandshake(ec, m)
      PROVE  Quiet \/ \E x \in Msg : Accepts(x)
  BY <1>7, SendMsgKind DEF OnHandshake, Quiet
<1>8. ASSUME NEW ec \in BOOLEAN, NEW m \in Msg \cup {NoMsg}, OnRead(ec, m)
      PROVE  Quiet \/ \E x \in Msg : Accepts(x)
  BY <1>8, SendMsgKind DEF OnRead, Quiet
<1>9. CASE DisconnectTask
  BY <1>9 DEF DisconnectTask, DropsClose
<1>10. CASE UNCHANGED vars
  BY <1>10 DEF vars, streamVars, Quiet
<1>11. Out \subseteq Msg \cup {NoMsg}
  BY DEF Out
<1>12. CASE Owner
  BY <1>1, <1>2, <1>3, <1>12, Zenon DEF Owner
<1>13. CASE Handler
  BY <1>4, <1>5, <1>6, <1>7, <1>8, <1>9, <1>11, <1>13, Zenon DEF Handler
<1> QED
  BY <1>10, <1>12, <1>13, Zenon DEF Next
-----------------------------------------------------------------------------
(* Type correctness.  OnWrite erases the front of the queue, so the types   *)
(* depend on OneWriteInFlight: a write in flight has its buffer there.     *)

(* A completed write in the handler OnWrite, as equations.                 *)
LEMMA WriteSucceeded ==
  ASSUME WriteInv, OnWrite(FALSE)
  PROVE  /\ wire' = Append(wire, Head(send_msg_queue_))
         /\ send_msg_queue_ # <<>>
         /\ send_msg_queue_' = Tail(send_msg_queue_)
         /\ UNCHANGED <<posted, accepted, writeFailed>>
         /\ inflight # <<>>
         /\ inflight' \in Seq(Nat)
         /\ send_msg_queue_' = <<>> => inflight' = <<>>
         /\ send_msg_queue_' # <<>> => /\ Len(inflight') = 1
                                      /\ Head(inflight') = Head(send_msg_queue_')
<1>1. /\ wire' = Append(wire, Head(inflight))
      /\ send_msg_queue_' = Tail(send_msg_queue_)
      /\ inflight # <<>>
      /\ inflight' = Tail(inflight) \o NextWrite(send_msg_queue_')
      /\ UNCHANGED <<posted, accepted, writeFailed>>
  BY Zenon DEF OnWrite
<1>2. /\ send_msg_queue_ # <<>>
      /\ Head(send_msg_queue_) = Head(inflight)
      /\ Len(inflight) <= 1
  BY <1>1, Zenon DEF WriteInv, OneWriteInFlight
<1>3. /\ send_msg_queue_' \in Seq(Nat)
      /\ Tail(inflight) \in Seq(Nat)
      /\ Len(Tail(inflight)) = 0
  <2>1. send_msg_queue_ \in Seq(Nat) /\ inflight \in Seq(Nat)
    BY DEF WriteInv, TypeOK
  <2>2. /\ Tail(send_msg_queue_) \in Seq(Nat)
        /\ Tail(inflight) \in Seq(Nat)
        /\ Len(inflight) \in Nat \ {0}
        /\ Len(Tail(inflight)) = Len(inflight) - 1
    BY <1>1, <1>2, <2>1, TailFacts, Zenon
  <2>3. Len(Tail(inflight)) = 0
    BY <1>2, <2>2
  <2> QED
    BY <1>1, <2>2, <2>3, Zenon
<1>4. /\ inflight' \in Seq(Nat)
      /\ send_msg_queue_' = <<>> => Len(inflight') = 0
      /\ send_msg_queue_' # <<>> => /\ Len(inflight') = 0 + 1
                                   /\ inflight'[0 + 1] = Head(send_msg_queue_')
  BY <1>1, <1>3, NextWriteFacts, Zenon
<1> QED
  BY <1>1, <1>2, <1>4

(* A failed write in the handler OnWrite, as equations.                    *)
LEMMA WriteFailed ==
  ASSUME WriteInv, OnWrite(TRUE)
  PROVE  /\ send_msg_queue_ # <<>>
         /\ inflight # <<>>
         /\ inflight' = <<>>
         /\ writeFailed'
         /\ UNCHANGED <<send_msg_queue_, wire, posted, accepted>>
<1>1. /\ inflight # <<>>
      /\ inflight' = Tail(inflight)
      /\ writeFailed'
      /\ UNCHANGED <<send_msg_queue_, wire, posted, accepted>>
  BY Zenon DEF OnWrite, QueueAfterError
<1>2. send_msg_queue_ # <<>> /\ Len(inflight) <= 1
  BY <1>1, Zenon DEF WriteInv, OneWriteInFlight
<1>3. inflight \in Seq(Nat)
  BY DEF WriteInv, TypeOK
<1>4. Tail(inflight) = <<>>
  BY <1>1, <1>2, <1>3
<1> QED
  BY <1>1, <1>2, <1>4, Zenon

(* A push in the posted task of SendMsg, as equations.                     *)
LEMMA DataPushed ==
  ASSUME WriteInv, SendDataInner
  PROVE  /\ posted # <<>>
         /\ Head(posted) # CloseTask
         /\ posted' = Tail(posted)
         /\ send_msg_queue_' = Append(send_msg_queue_, Head(posted))
         /\ UNCHANGED <<accepted, wire, writeFailed>>
         /\ send_msg_queue_ = <<>> => inflight' = <<Head(send_msg_queue_')>>
         /\ send_msg_queue_ # <<>> => inflight' = inflight
<1>1. /\ posted # <<>>
      /\ Head(posted) # CloseTask
      /\ posted' = Tail(posted)
      /\ send_msg_queue_' = Append(send_msg_queue_, Head(posted))
      /\ inflight' = IF Len(send_msg_queue_') <= 1
                     THEN Append(inflight, Head(send_msg_queue_')) ELSE inflight
      /\ UNCHANGED <<accepted, wire, writeFailed>>
  BY Zenon DEF SendDataInner, Push, WriteOnPush
<1>2. send_msg_queue_ \in Seq(Nat) /\ inflight \in Seq(Nat)
      /\ posted \in Seq(Nat)
  BY DEF WriteInv, TypeOK
<1>3. Len(send_msg_queue_') = Len(send_msg_queue_) + 1
  BY <1>1, <1>2
<1>4. ASSUME send_msg_queue_ = <<>>
      PROVE  inflight' = <<Head(send_msg_queue_')>>
  <2>1. inflight = <<>>
    BY <1>4, Zenon DEF WriteInv, OneWriteInFlight
  <2>2. Len(send_msg_queue_') <= 1
    BY <1>2, <1>3, <1>4
  <2>3. inflight' = Append(inflight, Head(send_msg_queue_'))
    BY <1>1, <2>2, Zenon
  <2> QED
    BY <2>1, <2>3
<1>5. ASSUME send_msg_queue_ # <<>> PROVE inflight' = inflight
  <2>1. ~(Len(send_msg_queue_') <= 1)
    BY <1>2, <1>3, <1>5
  <2> QED
    BY <1>1, <2>1, Zenon
<1> QED
  BY <1>1, <1>4, <1>5, Zenon

(* The variables outside the send path.                                    *)
ControlType ==
  /\ connected_ \in BOOLEAN
  /\ status \in Statuses
  /\ chain \in Chains
  /\ reading \in Nat
  /\ closing \in BOOLEAN
  /\ connects \in Nat
  /\ writeFailed \in BOOLEAN

(* Every call and every handler keeps them typed.                          *)
LEMMA ControlTypeNext ==
  ASSUME ControlType, [Next]_vars
  PROVE  ControlType'
<1>1. ASSUME NEW m \in Msg, Send(m) PROVE ControlType'
  BY <1>1 DEF ControlType, Statuses, Chains, Send, streamVars
<1>2. CASE Connect
  BY <1>2 DEF ControlType, Statuses, Chains, Connect
<1>3. CASE Disconnect
  BY <1>3 DEF ControlType, Statuses, Chains, Disconnect, streamVars
<1>4. ASSUME NEW ec \in BOOLEAN, OnResolve(ec) PROVE ControlType'
  BY <1>4 DEF ControlType, Statuses, Chains, OnResolve
<1>5. ASSUME NEW ec \in BOOLEAN, OnConnect(ec) PROVE ControlType'
  BY <1>5 DEF ControlType, Statuses, Chains, OnConnect
<1>6. CASE HandshakeDone
  BY <1>6 DEF ControlType, Statuses, Chains, HandshakeDone
<1>7. ASSUME NEW ec \in BOOLEAN, NEW m \in Msg \cup {NoMsg}, OnHandshake(ec, m)
      PROVE  ControlType'
  <2>1. connected_' \in BOOLEAN /\ closing' \in BOOLEAN /\ writeFailed' \in BOOLEAN
    BY <1>7, Zenon DEF ControlType, OnHandshake
  <2>2. reading' \in Nat
    <3>1. reading' = reading \/ reading' = reading + 1
      BY <1>7 DEF OnHandshake
    <3> QED
      BY <3>1 DEF ControlType
  <2>3. /\ status' = status \/ status' = "closed"
        /\ chain' = chain \/ chain' = "idle"
        /\ connects' = connects
    BY <1>7, Zenon DEF OnHandshake
  <2> QED
    BY <2>1, <2>2, <2>3 DEF ControlType, Statuses, Chains
<1>8. ASSUME NEW ec \in BOOLEAN, NEW m \in Msg \cup {NoMsg}, OnRead(ec, m)
      PROVE  ControlType'
  <2>1. connected_' \in BOOLEAN /\ closing' \in BOOLEAN /\ writeFailed' \in BOOLEAN
    BY <1>8, Zenon DEF ControlType, OnRead
  <2>2. reading' \in Nat
    <3>1. reading' = reading \/ (reading' = reading - 1 /\ reading > 0)
      BY <1>8, Zenon DEF OnRead
    <3> QED
      BY <3>1 DEF ControlType
  <2>3. /\ status' = status \/ status' = "closed"
        /\ chain' = chain \/ chain' = "idle"
        /\ connects' = connects
    BY <1>8, Zenon DEF OnRead
  <2> QED
    BY <2>1, <2>2, <2>3 DEF ControlType, Statuses, Chains
<1>9. CASE SendDataInner
  BY <1>9 DEF ControlType, Statuses, Chains, SendDataInner
<1>10. ASSUME NEW ec \in BOOLEAN, OnWrite(ec) PROVE ControlType'
  BY <1>10 DEF ControlType, Statuses, Chains, OnWrite
<1>11. CASE DisconnectTask
  BY <1>11 DEF ControlType, Statuses, Chains, DisconnectTask
<1>12. ASSUME NEW ec \in BOOLEAN, OnClose(ec) PROVE ControlType'
  BY <1>12 DEF ControlType, Statuses, Chains, OnClose
<1>13. CASE UNCHANGED vars
  BY <1>13 DEF ControlType, vars, streamVars
<1>14. Out \subseteq Msg \cup {NoMsg}
  BY DEF Out
<1>15. CASE Owner
  BY <1>1, <1>2, <1>3, <1>15 DEF Owner
<1>16. CASE Handler
  BY <1>4, <1>5, <1>6, <1>7, <1>8, <1>9, <1>10, <1>11, <1>12, <1>14, <1>16
     DEF Handler
<1> QED
  BY <1>13, <1>15, <1>16, Zenon DEF Next

(* Every kind of step keeps the send path typed and its one write in       *)
(* flight the front of the queue.                                          *)
LEMMA WriteInvNext ==
  ASSUME WriteInv, [Next]_vars
  PROVE  WriteInv'
<1> DEFINE SendType == /\ send_msg_queue_ \in Seq(Nat)
                       /\ inflight \in Seq(Nat)
                       /\ posted \in Seq(Nat)
                       /\ accepted \in Seq(Msg)
                       /\ wire \in Seq(Nat)
<1>1. ControlType /\ SendType /\ OneWriteInFlight
  BY Zenon DEF WriteInv, TypeOK, ControlType
<1>2. ControlType'
  BY <1>1, ControlTypeNext
<1>3. SendType' /\ OneWriteInFlight'
  <2>1. CASE Quiet
    BY <1>1, <2>1 DEF Quiet, queueVars, OneWriteInFlight
  <2>2. ASSUME NEW m \in Msg, Accepts(m) PROVE SendType' /\ OneWriteInFlight'
    BY <1>1, <2>2 DEF Accepts, queueVars, OneWriteInFlight
  <2>3. CASE PostsClose
    BY <1>1, <2>3 DEF PostsClose, CloseTask, queueVars, OneWriteInFlight
  <2>4. CASE DropsClose
    BY <1>1, <2>4 DEF DropsClose, queueVars, OneWriteInFlight
  <2>5. CASE SendDataInner
    <3>0. /\ posted # <<>>
          /\ posted' = Tail(posted)
          /\ send_msg_queue_' = Append(send_msg_queue_, Head(posted))
          /\ accepted' = accepted /\ wire' = wire
          /\ send_msg_queue_ = <<>> => inflight' = <<Head(send_msg_queue_')>>
          /\ send_msg_queue_ # <<>> => inflight' = inflight
      BY <2>5, DataPushed, Zenon
    <3>1. /\ Head(posted) \in Nat
          /\ posted' \in Seq(Nat)
          /\ send_msg_queue_' \in Seq(Nat)
          /\ send_msg_queue_' # <<>>
          /\ Head(send_msg_queue_') \in Nat
      <4>1. /\ Head(posted) \in Nat
            /\ Tail(posted) \in Seq(Nat)
        BY <1>1, <3>0, TailFacts, Zenon
      <4>2. /\ Append(send_msg_queue_, Head(posted)) \in Seq(Nat)
            /\ Len(Append(send_msg_queue_, Head(posted))) = Len(send_msg_queue_) + 1
        BY <1>1, <4>1, AppendFacts, Zenon
      <4> QED
        BY <3>0, <4>1, <4>2
    <3>2. CASE send_msg_queue_ = <<>>
      <4>1. inflight' = <<Head(send_msg_queue_')>>
        BY <3>0, <3>2, Zenon
      <4> QED
        BY <1>1, <3>0, <3>1, <4>1 DEF OneWriteInFlight
    <3>3. CASE send_msg_queue_ # <<>>
      <4>1. Head(send_msg_queue_') = Head(send_msg_queue_)
        BY <1>1, <3>0, <3>1, <3>3
      <4> QED
        BY <1>1, <3>0, <3>1, <3>3, <4>1 DEF OneWriteInFlight
    <3> QED
      BY <3>2, <3>3
  <2>6. CASE OnWrite(TRUE)
    BY <1>1, <2>6, WriteFailed DEF OneWriteInFlight
  <2>7. CASE OnWrite(FALSE)
    <3>1. UNCHANGED <<posted, accepted>>
      BY <2>7 DEF OnWrite
    <3>2. /\ wire' = Append(wire, Head(send_msg_queue_))
          /\ send_msg_queue_ # <<>>
          /\ send_msg_queue_' = Tail(send_msg_queue_)
          /\ inflight' \in Seq(Nat)
          /\ send_msg_queue_' = <<>> => inflight' = <<>>
          /\ send_msg_queue_' # <<>> =>
               Len(inflight') = 1 /\ Head(inflight') = Head(send_msg_queue_')
      BY <2>7, WriteSucceeded, Zenon
    <3>3. SendType'
      BY <1>1, <3>1, <3>2
    <3>4. OneWriteInFlight'
      <4>1. CASE send_msg_queue_' = <<>>
        BY <3>2, <4>1 DEF OneWriteInFlight
      <4>2. CASE send_msg_queue_' # <<>>
        <5>1. Len(inflight') = 1 /\ Head(inflight') = Head(send_msg_queue_')
          BY <3>2, <4>2, Zenon
        <5> QED
          BY <4>2, <5>1 DEF OneWriteInFlight
      <4> QED
        BY <4>1, <4>2
    <3> QED
      BY <3>3, <3>4
  <2> QED
    BY <2>1, <2>2, <2>3, <2>4, <2>5, <2>6, <2>7, StepKinds
<1> QED
  BY <1>2, <1>3, Zenon DEF WriteInv, TypeOK, ControlType

(* The empty transport is typed and writes nothing.                        *)
LEMMA WriteInvInit ==
  ASSUME Init
  PROVE  WriteInv
<1>1. /\ connected_ \in BOOLEAN /\ closing \in BOOLEAN
      /\ writeFailed \in BOOLEAN
  BY Zenon DEF Init
<1>2. TypeOK
  BY <1>1 DEF Init, TypeOK, Statuses, Chains
<1>3. OneWriteInFlight
  BY DEF Init, OneWriteInFlight
<1> QED
  BY <1>2, <1>3 DEF WriteInv

(* The members, the outstanding operations and the histories have their    *)
(* types in every reachable state, and OnWrite and SendDataInner keep at   *)
(* most one async_write outstanding, of the front of send_msg_queue_.      *)
THEOREM WriteDiscipline == SafetySpec => [](TypeOK /\ OneWriteInFlight)
BY WriteInvInit, WriteInvNext, PTL DEF SafetySpec, WriteInv

-----------------------------------------------------------------------------
(* The order of the buffers.                                               *)

(* The lengths are numbers, for the arithmetic that follows.               *)
LEMMA SendTypes ==
  ASSUME WriteInv
  PROVE  /\ send_msg_queue_ \in Seq(Nat) /\ Len(send_msg_queue_) \in Nat
         /\ posted \in Seq(Nat) /\ Len(posted) \in Nat
         /\ accepted \in Seq(Msg) /\ Len(accepted) \in Nat
         /\ wire \in Seq(Nat) /\ Len(wire) \in Nat
<1>1. /\ send_msg_queue_ \in Seq(Nat) /\ posted \in Seq(Nat)
      /\ accepted \in Seq(Msg) /\ wire \in Seq(Nat)
  BY Zenon DEF WriteInv, TypeOK
<1> QED
  BY <1>1

(* The task SendDataInner runs next carries the first buffer that is       *)
(* neither written nor queued.                                             *)
LEMMA HeadIsNext ==
  ASSUME WriteInv, OrderInv, posted # <<>>, Head(posted) # CloseTask
  PROVE  Head(posted) = Settled + 1
<1>1. /\ Settled \in Nat
      /\ Len(posted) \in Nat \ {0}
      /\ Head(posted) = posted[1]
      /\ \A i \in 1..Len(posted) : posted[i] \in Nat
  BY SendTypes DEF Settled
<1>2. posted[1] \in (Settled + 1)..Len(accepted)
  BY <1>1 DEF OrderInv, PostedAreNew
<1>3. Settled + 1 \in (Settled + 1)..Len(accepted)
  BY <1>1, <1>2, SendTypes
<1>4. PICK i \in 1..Len(posted) : posted[i] = Settled + 1
  BY <1>3, Zenon DEF OrderInv, NewArePosted
<1>5. i = 1 \/ posted[1] < posted[i]
  BY <1>1, <1>4 DEF OrderInv, PostedInOrder, CloseTask
<1> QED
  BY <1>1, <1>2, <1>4, <1>5

(* A message is accepted: its buffer is the last one posted.               *)
LEMMA AcceptKeepsOrder ==
  ASSUME WriteInv, OrderInv, NEW m \in Msg, Accepts(m)
  PROVE  OrderInv'
<1>1. /\ Len(accepted') = Len(accepted) + 1
      /\ Len(posted') = Len(posted) + 1
      /\ \A i \in 1..Len(posted) : posted'[i] = posted[i]
      /\ posted'[Len(posted) + 1] = Len(accepted) + 1
      /\ \A i \in 1..Len(posted) : posted[i] \in Nat
      /\ send_msg_queue_' = send_msg_queue_ /\ wire' = wire
  BY SendTypes DEF Accepts, queueVars
<1>2. Settled \in Nat /\ Settled' = Settled
  BY <1>1, SendTypes DEF Settled
<1>3. Settled' <= Len(accepted') /\ WireInOrder' /\ QueueFollowsWire'
  BY <1>1, <1>2, SendTypes
     DEF OrderInv, WireInOrder, QueueFollowsWire
<1>4. ASSUME NEW i \in 1..Len(posted')
      PROVE  \/ i \in 1..Len(posted) /\ posted'[i] = posted[i]
             \/ i = Len(posted) + 1 /\ posted'[i] = Len(accepted) + 1
  <2>1. i \in 1..Len(posted) \/ i = Len(posted) + 1
    BY <1>1, SendTypes
  <2> QED
    BY <1>1, <2>1, Zenon
<1>5. PostedAreNew'
  <2> SUFFICES ASSUME NEW i \in 1..Len(posted'), posted'[i] # CloseTask
               PROVE  posted'[i] \in (Settled + 1)..(Len(accepted) + 1)
    BY <1>1, <1>2, Zenon DEF PostedAreNew, CloseTask
  <2>1. CASE i \in 1..Len(posted) /\ posted'[i] = posted[i]
    <3>1. posted[i] \in (Settled + 1)..Len(accepted)
      BY <2>1, Zenon DEF OrderInv, PostedAreNew
    <3> QED
      BY <1>2, <2>1, <3>1, SendTypes
  <2>2. CASE posted'[i] = Len(accepted) + 1
    BY <1>2, <2>2, SendTypes DEF OrderInv
  <2> QED
    BY <1>4, <2>1, <2>2, Zenon
<1>6. PostedInOrder'
  <2> SUFFICES ASSUME NEW i \in 1..Len(posted'), NEW j \in 1..Len(posted'),
                      i < j, posted'[i] # CloseTask, posted'[j] # CloseTask
               PROVE  posted'[i] < posted'[j]
    BY Zenon DEF PostedInOrder, CloseTask
  <2>1. i \in 1..Len(posted) /\ posted'[i] = posted[i]
    BY <1>1, <1>4, SendTypes
  <2>2. CASE j \in 1..Len(posted) /\ posted'[j] = posted[j]
    BY <2>1, <2>2, Zenon DEF OrderInv, PostedInOrder
  <2>3. CASE posted'[j] = Len(accepted) + 1
    <3>1. posted[i] \in (Settled + 1)..Len(accepted)
      BY <2>1, Zenon DEF OrderInv, PostedAreNew
    <3> QED
      BY <1>2, <2>1, <2>3, <3>1, SendTypes
  <2> QED
    BY <1>4, <2>2, <2>3, Zenon
<1>7. NewArePosted'
  <2> SUFFICES ASSUME NEW k \in (Settled + 1)..(Len(accepted) + 1)
               PROVE  \E i \in 1..Len(posted') : posted'[i] = k
    BY <1>1, <1>2, Zenon DEF NewArePosted
  <2>1. CASE k = Len(accepted) + 1
    <3>1. Len(posted) + 1 \in 1..Len(posted')
      BY <1>1, SendTypes
    <3> QED
      BY <1>1, <2>1, <3>1, Zenon
  <2>2. CASE k # Len(accepted) + 1
    <3>1. k \in (Settled + 1)..Len(accepted)
      BY <1>2, <2>2, SendTypes
    <3>2. PICK i \in 1..Len(posted) : posted[i] = k
      BY <3>1, Zenon DEF OrderInv, NewArePosted
    <3>3. i \in 1..Len(posted')
      BY <1>1, SendTypes
    <3> QED
      BY <1>1, <3>2, <3>3, Zenon
  <2> QED
    BY <2>1, <2>2
<1> QED
  BY <1>3, <1>5, <1>6, <1>7 DEF OrderInv

(* Disconnect posts its task behind the others.                            *)
LEMMA PostCloseKeepsOrder ==
  ASSUME WriteInv, OrderInv, PostsClose
  PROVE  OrderInv'
<1>1. /\ Len(posted') = Len(posted) + 1
      /\ \A i \in 1..Len(posted) : posted'[i] = posted[i]
      /\ posted'[Len(posted) + 1] = CloseTask
      /\ send_msg_queue_' = send_msg_queue_ /\ wire' = wire
      /\ accepted' = accepted
  BY SendTypes DEF PostsClose, queueVars, CloseTask
<1>2. Settled' = Settled
  BY <1>1 DEF Settled
<1>3. Settled' <= Len(accepted') /\ WireInOrder' /\ QueueFollowsWire'
  BY <1>1, <1>2 DEF OrderInv, WireInOrder, QueueFollowsWire
<1>4. ASSUME NEW i \in 1..Len(posted'), posted'[i] # CloseTask
      PROVE  i \in 1..Len(posted) /\ posted'[i] = posted[i]
  <2>1. i \in 1..Len(posted) \/ i = Len(posted) + 1
    BY <1>1, SendTypes
  <2> QED
    BY <1>1, <1>4, <2>1, Zenon
<1>5. PostedAreNew'
  BY <1>1, <1>2, <1>4, Zenon DEF OrderInv, PostedAreNew, CloseTask
<1>6. PostedInOrder'
  <2> SUFFICES ASSUME NEW i \in 1..Len(posted'), NEW j \in 1..Len(posted'),
                      i < j, posted'[i] # CloseTask, posted'[j] # CloseTask
               PROVE  posted'[i] < posted'[j]
    BY Zenon DEF PostedInOrder, CloseTask
  <2>1. /\ i \in 1..Len(posted) /\ posted'[i] = posted[i]
        /\ j \in 1..Len(posted) /\ posted'[j] = posted[j]
    BY <1>4, Zenon
  <2> QED
    BY <2>1, Zenon DEF OrderInv, PostedInOrder
<1>7. NewArePosted'
  <2> SUFFICES ASSUME NEW k \in (Settled + 1)..Len(accepted)
               PROVE  \E i \in 1..Len(posted') : posted'[i] = k
    BY <1>1, <1>2, Zenon DEF NewArePosted
  <2>1. PICK i \in 1..Len(posted) : posted[i] = k
    BY Zenon DEF OrderInv, NewArePosted
  <2>2. i \in 1..Len(posted')
    BY <1>1, SendTypes
  <2> QED
    BY <1>1, <2>1, <2>2, Zenon
<1> QED
  BY <1>3, <1>5, <1>6, <1>7 DEF OrderInv

(* The strand takes the first task: the others move up by one.             *)
LEMMA PostedShift ==
  ASSUME WriteInv, PostedInOrder, posted # <<>>, posted' = Tail(posted)
  PROVE  /\ \A i \in 1..Len(posted') :
                i + 1 \in 1..Len(posted) /\ posted'[i] = posted[i + 1]
         /\ \A j \in 1..Len(posted) :
                j = 1 \/ (j - 1 \in 1..Len(posted') /\ posted'[j - 1] = posted[j])
         /\ PostedInOrder'
<1>1. /\ Len(posted) \in Nat \ {0}
      /\ Len(posted') = Len(posted) - 1
      /\ \A i \in 1..Len(posted') : posted'[i] = posted[i + 1]
  BY SendTypes, TailFacts, Zenon
<1>2. \A i \in 1..Len(posted') :
        i + 1 \in 1..Len(posted) /\ posted'[i] = posted[i + 1]
  BY <1>1
<1>3. ASSUME NEW j \in 1..Len(posted), j # 1
      PROVE  j - 1 \in 1..Len(posted') /\ posted'[j - 1] = posted[j]
  <2>1. j - 1 \in 1..Len(posted') /\ (j - 1) + 1 = j
    BY <1>1, <1>3
  <2> QED
    BY <1>1, <2>1, Zenon
<1>4. PostedInOrder'
  <2> SUFFICES ASSUME NEW i \in 1..Len(posted'), NEW j \in 1..Len(posted'),
                      i < j, posted'[i] # CloseTask, posted'[j] # CloseTask
               PROVE  posted'[i] < posted'[j]
    BY Zenon DEF PostedInOrder, CloseTask
  <2>1. i + 1 < j + 1
    OBVIOUS
  <2> QED
    BY <1>2, <2>1, Zenon DEF PostedInOrder
<1> QED
  BY <1>2, <1>3, <1>4, Zenon

(* The posted task of Disconnect is taken.                                 *)
LEMMA DropCloseKeepsOrder ==
  ASSUME WriteInv, OrderInv, DropsClose
  PROVE  OrderInv'
<1>1. /\ posted # <<>> /\ Head(posted) = CloseTask /\ posted' = Tail(posted)
      /\ send_msg_queue_' = send_msg_queue_ /\ wire' = wire
      /\ accepted' = accepted
  BY DEF DropsClose, queueVars
<1>2. Settled' = Settled /\ Settled \in Nat /\ posted[1] = 0
  BY <1>1, SendTypes DEF Settled, CloseTask
<1>3. /\ \A i \in 1..Len(posted') :
            i + 1 \in 1..Len(posted) /\ posted'[i] = posted[i + 1]
      /\ \A j \in 1..Len(posted) :
            j = 1 \/ (j - 1 \in 1..Len(posted') /\ posted'[j - 1] = posted[j])
      /\ PostedInOrder'
  BY <1>1, PostedShift, Zenon DEF OrderInv
<1>4. Settled' <= Len(accepted') /\ WireInOrder' /\ QueueFollowsWire'
  BY <1>1, <1>2 DEF OrderInv, WireInOrder, QueueFollowsWire
<1>5. PostedAreNew'
  BY <1>1, <1>2, <1>3, Zenon DEF OrderInv, PostedAreNew, CloseTask
<1>6. NewArePosted'
  <2> SUFFICES ASSUME NEW k \in (Settled + 1)..Len(accepted)
               PROVE  \E i \in 1..Len(posted') : posted'[i] = k
    BY <1>1, <1>2, Zenon DEF NewArePosted
  <2>1. PICK j \in 1..Len(posted) : posted[j] = k
    BY Zenon DEF OrderInv, NewArePosted
  <2>2. j # 1
    BY <1>2, <2>1, SendTypes
  <2> QED
    BY <1>3, <2>1, <2>2, Zenon
<1> QED
  BY <1>3, <1>4, <1>5, <1>6, Zenon DEF OrderInv

(* SendDataInner queues the next buffer.                                   *)
LEMMA PushKeepsOrder ==
  ASSUME WriteInv, OrderInv, SendDataInner
  PROVE  OrderInv'
<1>1. /\ posted # <<>> /\ Head(posted) # CloseTask /\ posted' = Tail(posted)
      /\ send_msg_queue_' = Append(send_msg_queue_, Head(posted))
      /\ wire' = wire /\ accepted' = accepted
  BY DataPushed, Zenon
<1>2. Head(posted) = Settled + 1
  BY <1>1, HeadIsNext, Zenon
<1>3. /\ Settled \in Nat /\ Settled + 1 \in Nat
      /\ Len(posted) \in Nat \ {0} /\ 1 \in 1..Len(posted)
      /\ posted[1] = Settled + 1
  BY <1>1, <1>2, SendTypes DEF Settled
<1>4. /\ Len(send_msg_queue_') = Len(send_msg_queue_) + 1
      /\ \A i \in 1..Len(send_msg_queue_) :
            send_msg_queue_'[i] = send_msg_queue_[i]
      /\ send_msg_queue_'[Len(send_msg_queue_) + 1] = Settled + 1
  <2>1. send_msg_queue_' = Append(send_msg_queue_, Settled + 1)
    BY <1>1, <1>2, Zenon
  <2> QED
    BY <1>3, <2>1, SendTypes
<1>5. Settled' = Settled + 1
  BY <1>1, <1>4, SendTypes DEF Settled
<1>6. /\ \A i \in 1..Len(posted') :
            i + 1 \in 1..Len(posted) /\ posted'[i] = posted[i + 1]
      /\ \A j \in 1..Len(posted) :
            j = 1 \/ (j - 1 \in 1..Len(posted') /\ posted'[j - 1] = posted[j])
      /\ PostedInOrder'
  BY <1>1, PostedShift, Zenon DEF OrderInv
<1>7. posted[1] \in (Settled + 1)..Len(accepted)
  BY <1>2, <1>3, <1>1, Zenon DEF OrderInv, PostedAreNew, CloseTask
<1>8. Settled' <= Len(accepted') /\ WireInOrder'
  BY <1>1, <1>3, <1>5, <1>7, SendTypes DEF OrderInv, WireInOrder
<1>9. QueueFollowsWire'
  <2> SUFFICES ASSUME NEW i \in 1..Len(send_msg_queue_')
               PROVE  send_msg_queue_'[i] = Len(wire) + i
    BY <1>1 DEF QueueFollowsWire
  <2>1. CASE i = Len(send_msg_queue_) + 1
    BY <1>4, <2>1, SendTypes DEF Settled
  <2>2. CASE i # Len(send_msg_queue_) + 1
    <3>1. i \in 1..Len(send_msg_queue_)
      BY <1>4, <2>2, SendTypes
    <3> QED
      BY <1>4, <3>1, Zenon DEF OrderInv, QueueFollowsWire
  <2> QED
    BY <2>1, <2>2
<1>10. PostedAreNew'
  <2> SUFFICES ASSUME NEW i \in 1..Len(posted'), posted'[i] # CloseTask
               PROVE  posted'[i] \in (Settled + 1 + 1)..Len(accepted)
    BY <1>1, <1>5, Zenon DEF PostedAreNew, CloseTask
  <2>1. i + 1 \in 1..Len(posted) /\ posted'[i] = posted[i + 1]
    BY <1>6, Zenon
  <2>2. posted[i + 1] \in (Settled + 1)..Len(accepted)
    BY <2>1, Zenon DEF OrderInv, PostedAreNew
  <2>3. 1 < i + 1
    BY SendTypes
  <2>4. posted[1] # CloseTask /\ posted[i + 1] # CloseTask
    BY <1>3, <2>1 DEF CloseTask
  <2>5. posted[1] < posted[i + 1]
    BY <1>3, <2>1, <2>3, <2>4, Zenon DEF OrderInv, PostedInOrder
  <2> QED
    BY <1>3, <2>1, <2>2, <2>5, SendTypes
<1>11. NewArePosted'
  <2> SUFFICES ASSUME NEW k \in (Settled + 1 + 1)..Len(accepted)
               PROVE  \E i \in 1..Len(posted') : posted'[i] = k
    BY <1>1, <1>5, Zenon DEF NewArePosted
  <2>1. k \in (Settled + 1)..Len(accepted) /\ k # Settled + 1
    BY <1>3, SendTypes
  <2>2. PICK j \in 1..Len(posted) : posted[j] = k
    BY <2>1, Zenon DEF OrderInv, NewArePosted
  <2>3. j # 1
    BY <1>3, <2>1, <2>2, Zenon
  <2> QED
    BY <1>6, <2>2, <2>3, Zenon
<1> QED
  BY <1>6, <1>8, <1>9, <1>10, <1>11, Zenon DEF OrderInv

(* OnWrite moves the front of the queue to the wire.                       *)
LEMMA WriteKeepsOrder ==
  ASSUME WriteInv, OrderInv, OnWrite(FALSE)
  PROVE  OrderInv'
<1>1. /\ wire' = Append(wire, Head(send_msg_queue_))
      /\ send_msg_queue_ # <<>>
      /\ send_msg_queue_' = Tail(send_msg_queue_)
      /\ posted' = posted /\ accepted' = accepted
  BY WriteSucceeded, Zenon
<1>2. /\ Len(send_msg_queue_) \in Nat \ {0}
      /\ Head(send_msg_queue_) = send_msg_queue_[1]
      /\ Head(send_msg_queue_) \in Nat
      /\ Len(send_msg_queue_') = Len(send_msg_queue_) - 1
      /\ \A i \in 1..Len(send_msg_queue_') :
            send_msg_queue_'[i] = send_msg_queue_[i + 1]
  BY <1>1, SendTypes, TailFacts, Zenon
<1>3. Head(send_msg_queue_) = Len(wire) + 1
  <2>1. 1 \in 1..Len(send_msg_queue_)
    BY <1>2
  <2> QED
    BY <1>2, <2>1, Zenon DEF OrderInv, QueueFollowsWire
<1>4. /\ wire' \in Seq(Nat)
      /\ Len(wire') = Len(wire) + 1
      /\ \A i \in 1..Len(wire) : wire'[i] = wire[i]
      /\ wire'[Len(wire) + 1] = Len(wire) + 1
  <2>1. wire' = Append(wire, Len(wire) + 1) /\ Len(wire) + 1 \in Nat
    BY <1>1, <1>2, <1>3, Zenon
  <2> QED
    BY <2>1, SendTypes
<1>5. Settled' = Settled
  BY <1>2, <1>4, SendTypes DEF Settled
<1>6. WireInOrder'
  <2> SUFFICES ASSUME NEW i \in 1..Len(wire') PROVE wire'[i] = i
    BY <1>4 DEF WireInOrder
  <2>1. CASE i = Len(wire) + 1
    BY <1>4, <2>1, Zenon
  <2>2. CASE i # Len(wire) + 1
    <3>1. i \in 1..Len(wire)
      BY <1>4, <2>2, SendTypes
    <3>2. wire[i] = i
      BY <3>1, SendTypes DEF OrderInv, WireInOrder
    <3> QED
      BY <1>4, <3>1, <3>2, Zenon
  <2> QED
    BY <2>1, <2>2
<1>7. QueueFollowsWire'
  <2> SUFFICES ASSUME NEW i \in 1..Len(send_msg_queue_')
               PROVE  send_msg_queue_'[i] = Len(wire') + i
    BY Zenon DEF QueueFollowsWire
  <2>1. i + 1 \in 1..Len(send_msg_queue_)
    BY <1>2
  <2>2. send_msg_queue_'[i] = Len(wire) + (i + 1)
    BY <1>2, <2>1, Zenon DEF OrderInv, QueueFollowsWire
  <2> QED
    BY <1>4, <2>2, SendTypes
<1>8. /\ Settled' <= Len(accepted')
      /\ PostedInOrder' /\ PostedAreNew' /\ NewArePosted'
  BY <1>1, <1>5, Zenon
     DEF OrderInv, PostedInOrder, PostedAreNew, NewArePosted, CloseTask
<1> QED
  BY <1>6, <1>7, <1>8, Zenon DEF OrderInv

(* Every kind of step keeps the buffers in order.                          *)
LEMMA OrderInvNext ==
  ASSUME WriteInv, OrderInv, [Next]_vars
  PROVE  OrderInv'
<1>1. CASE UNCHANGED <<send_msg_queue_, wire, posted, accepted>>
  <2>1. Settled' = Settled
    BY <1>1 DEF Settled
  <2> QED
    BY <1>1, <2>1 DEF OrderInv, WireInOrder, QueueFollowsWire, PostedInOrder,
                      PostedAreNew, NewArePosted
<1>2. CASE Quiet
  BY <1>1, <1>2, Zenon DEF Quiet, queueVars
<1>3. CASE OnWrite(TRUE)
  BY <1>1, <1>3, WriteFailed, Zenon
<1> QED
  BY <1>2, <1>3, StepKinds, AcceptKeepsOrder, PostCloseKeepsOrder,
     DropCloseKeepsOrder, PushKeepsOrder, WriteKeepsOrder, Zenon

(* The queue waits without a write only after a failure, which is final.   *)
LEMMA IdleInvNext ==
  ASSUME WriteInv, IdleInv, [Next]_vars
  PROVE  IdleInv'
<1> USE DEF IdleInv, NoIdleQueue, NoWriteAfterFailure
<1>1. CASE UNCHANGED queueVars
  BY <1>1, Zenon DEF queueVars
<1>2. CASE SendDataInner
  <2>1. /\ posted # <<>>
        /\ send_msg_queue_' = Append(send_msg_queue_, Head(posted))
        /\ writeFailed' = writeFailed
        /\ send_msg_queue_ = <<>> => inflight' = <<Head(send_msg_queue_')>>
        /\ send_msg_queue_ # <<>> => inflight' = inflight
    BY <1>2, DataPushed, Zenon
  <2>2. send_msg_queue_' # <<>>
    <3>1. Head(posted) \in Nat
      BY <2>1, SendTypes, TailFacts, Zenon
    <3> QED
      BY <2>1, <3>1, SendTypes
  <2>3. <<Head(send_msg_queue_')>> # <<>>
    OBVIOUS
  <2> QED
    BY <2>1, <2>2, <2>3, Zenon
<1>3. CASE OnWrite(TRUE)
  BY <1>3, WriteFailed, Zenon
<1>4. CASE OnWrite(FALSE)
  <2>1. /\ inflight # <<>>
        /\ writeFailed' = writeFailed
        /\ send_msg_queue_' # <<>> => Len(inflight') = 1
    BY <1>4, WriteSucceeded, Zenon
  <2>2. send_msg_queue_' # <<>> => inflight' # <<>>
    BY <2>1
  <2> QED
    BY <2>1, <2>2, Zenon
<1> QED
  BY <1>1, <1>2, <1>3, <1>4, StepKinds, Zenon
     DEF Quiet, Accepts, PostsClose, DropsClose

(* The empty transport.                                                    *)
LEMMA SendInvInit ==
  ASSUME Init
  PROVE  SendInv
<1>1. IdleInv
  BY Zenon DEF Init, IdleInv, NoIdleQueue, NoWriteAfterFailure
<1>2. OrderInv
  BY DEF Init, OrderInv, Settled, WireInOrder, QueueFollowsWire,
         PostedInOrder, PostedAreNew, NewArePosted
<1> QED
  BY <1>1, <1>2, WriteInvInit DEF SendInv

(* SendInv is inductive.                                                   *)
LEMMA SendInvNext ==
  ASSUME SendInv, [Next]_vars
  PROVE  SendInv'
BY WriteInvNext, OrderInvNext, IdleInvNext, Zenon DEF SendInv

(* SendInv holds of every reachable state.                                 *)
LEMMA SendInvHolds == SafetySpec => []SendInv
BY SendInvInit, SendInvNext, PTL DEF SafetySpec

(* SendInv leaves no accepted message out.                                 *)
LEMMA SendInvComplete ==
  ASSUME SendInv
  PROVE  NothingForgotten
<1> SUFFICES ASSUME NEW k \in 1..Len(accepted)
             PROVE  k \in Range(wire) \cup Range(send_msg_queue_) \cup Range(posted)
  BY SendTypes DEF SendInv, NothingForgotten
<1>1. WriteInv /\ OrderInv
  BY DEF SendInv
<1>2. CASE k \in 1..Len(wire)
  <2>1. k \in DOMAIN wire
    BY <1>1, <1>2, SendTypes
  <2> QED
    BY <1>1, <2>1, Zenon DEF OrderInv, WireInOrder, Range
<1>3. CASE k \in (Len(wire) + 1)..Settled
  <2>1. /\ k - Len(wire) \in 1..Len(send_msg_queue_)
        /\ Len(wire) + (k - Len(wire)) = k
    BY <1>1, <1>3, SendTypes DEF Settled
  <2>2. send_msg_queue_[k - Len(wire)] = k
    BY <1>1, <2>1, Zenon DEF OrderInv, QueueFollowsWire
  <2>3. k - Len(wire) \in DOMAIN send_msg_queue_
    BY <1>1, <2>1, SendTypes
  <2> QED
    BY <2>2, <2>3, Zenon DEF Range
<1>4. CASE k \in (Settled + 1)..Len(accepted)
  <2>1. PICK i \in 1..Len(posted) : posted[i] = k
    BY <1>1, <1>4, Zenon DEF OrderInv, NewArePosted
  <2>2. i \in DOMAIN posted
    BY <1>1, SendTypes
  <2> QED
    BY <2>1, <2>2, Zenon DEF Range
<1> QED
  BY <1>1, <1>2, <1>3, <1>4, SendTypes DEF Settled

(* Messages reach the wire in the order SendMsg accepted them, none        *)
(* skipped and none twice, whatever completes, fails or reconnects.        *)
THEOREM SendOrder == SafetySpec => []WireInOrder
<1>1. SendInv => WireInOrder
  BY DEF SendInv, OrderInv
<1> QED
  BY <1>1, SendInvHolds, PTL

(* No accepted message is dropped between SendMsg and the wire.            *)
THEOREM SendComplete == SafetySpec => []NothingForgotten
BY SendInvComplete, SendInvHolds, PTL

(* Until a write fails, a queue that is not empty has a write under way.   *)
THEOREM NoLostWakeup == SafetySpec => []NoIdleQueue
<1>1. SendInv => NoIdleQueue
  BY DEF SendInv, IdleInv
<1> QED
  BY <1>1, SendInvHolds, PTL

(* After OnWrite has seen an error nothing is written any more, not even   *)
(* on a stream connected anew.                                             *)
THEOREM FailureIsFinal == SafetySpec => FailedWriteIsFinal
<1>1. SendInv /\ [Next]_vars => [writeFailed => wire' = wire]_vars
  <2> SUFFICES ASSUME SendInv, [Next]_vars, writeFailed PROVE wire' = wire
    OBVIOUS
  <2>1. inflight = <<>> /\ WriteInv
    BY Zenon DEF SendInv, IdleInv, NoWriteAfterFailure
  <2>2. ~OnWrite(FALSE) /\ ~OnWrite(TRUE)
    BY <2>1, Zenon DEF OnWrite
  <2>3. CASE SendDataInner
    BY <2>1, <2>3, DataPushed, Zenon
  <2> QED
    BY <2>2, <2>3, StepKinds, Zenon
       DEF Quiet, Accepts, PostsClose, DropsClose, queueVars
<1> QED
  BY <1>1, SendInvHolds, PTL DEF SafetySpec, FailedWriteIsFinal

-----------------------------------------------------------------------------
(* The transport implements the abstract channel.                          *)

(* A step that leaves the wire and the failure alone, and keeps or extends *)
(* the history of accepted messages, keeps what was transmitted.           *)
LEMMA TransmittedKept ==
  ASSUME SendInv, wire' = wire,
         \/ accepted' = accepted
         \/ \E m \in Msg : accepted' = Append(accepted, m)
  PROVE  Transmitted' = Transmitted
<1>1. WriteInv /\ OrderInv
  BY DEF SendInv
<1>2. CASE accepted' = accepted
  BY <1>2, Zenon DEF Transmitted
<1>3. ASSUME NEW m \in Msg, accepted' = Append(accepted, m)
      PROVE  Transmitted' = Transmitted
  <2>1. \A i \in DOMAIN wire : accepted'[wire[i]] = accepted[wire[i]]
    <3> SUFFICES ASSUME NEW i \in DOMAIN wire
                 PROVE  accepted'[wire[i]] = accepted[wire[i]]
      OBVIOUS
    <3>1. wire[i] = i /\ i \in 1..Len(accepted)
      BY <1>1, SendTypes DEF OrderInv, WireInOrder, Settled
    <3> QED
      BY <1>1, <1>3, <3>1, SendTypes
  <2> QED
    BY <2>1 DEF Transmitted
<1> QED
  BY <1>2, <1>3, Zenon

(* A completed write transmits the next message that was accepted.         *)
LEMMA WriteTransmits ==
  ASSUME SendInv, OnWrite(FALSE)
  PROVE  Channel!Transmit
<1>1. WriteInv /\ OrderInv /\ IdleInv
  BY DEF SendInv
<1>2. /\ wire' = Append(wire, Head(send_msg_queue_))
      /\ send_msg_queue_ # <<>>
      /\ accepted' = accepted /\ writeFailed' = writeFailed
      /\ inflight # <<>>
  BY <1>1, WriteSucceeded, Zenon
<1>3. ~writeFailed
  BY <1>1, <1>2, Zenon DEF IdleInv, NoWriteAfterFailure
<1>4. /\ Head(send_msg_queue_) = Len(wire) + 1
      /\ Len(wire) + 1 <= Len(accepted)
  <2>1. 1 \in 1..Len(send_msg_queue_) /\ Head(send_msg_queue_) = send_msg_queue_[1]
    BY <1>1, <1>2, SendTypes
  <2>2. Head(send_msg_queue_) = Len(wire) + 1
    BY <1>1, <2>1, Zenon DEF OrderInv, QueueFollowsWire
  <2> QED
    BY <1>1, <2>1, <2>2, SendTypes DEF OrderInv, Settled
<1>5. /\ Transmitted \in Seq(Msg)
      /\ Len(Transmitted) = Len(wire)
      /\ \A i \in 1..Len(wire) : Transmitted[i] = accepted[i]
  <2>1. \A i \in DOMAIN wire : wire[i] = i /\ accepted[i] \in Msg
    BY <1>1, SendTypes DEF OrderInv, WireInOrder, Settled
  <2>2. DOMAIN wire = 1..Len(wire)
    BY <1>1, SendTypes
  <2>3. /\ Transmitted \in [1..Len(wire) -> Msg]
        /\ \A i \in 1..Len(wire) : Transmitted[i] = accepted[i]
    BY <2>1, <2>2 DEF Transmitted
  <2>4. Len(wire) \in Nat
    BY <1>1, SendTypes
  <2> QED
    BY <2>3, <2>4, FunctionIsSeq, Zenon
<1>6. wire' = Append(wire, Len(wire) + 1)
  BY <1>2, <1>4, Zenon
<1>7. Transmitted' = Append(Transmitted, accepted[Len(Transmitted) + 1])
  <2>1. /\ DOMAIN wire' = 1..(Len(wire) + 1)
        /\ \A i \in 1..Len(wire) : wire'[i] = i
        /\ wire'[Len(wire) + 1] = Len(wire) + 1
    BY <1>1, <1>6, SendTypes DEF OrderInv, WireInOrder
  <2>2. Transmitted' = [i \in 1..(Len(wire) + 1) |-> accepted[i]]
    BY <1>1, <1>2, <2>1, SendTypes DEF Transmitted
  <2>3. accepted[Len(wire) + 1] \in Msg
    BY <1>1, <1>4, SendTypes
  <2>4. /\ Append(Transmitted, accepted[Len(wire) + 1]) \in Seq(Msg)
        /\ DOMAIN Append(Transmitted, accepted[Len(wire) + 1])
             = 1..(Len(wire) + 1)
        /\ \A i \in 1..(Len(wire) + 1) :
              Append(Transmitted, accepted[Len(wire) + 1])[i] = accepted[i]
    <3>1. /\ Append(Transmitted, accepted[Len(wire) + 1]) \in Seq(Msg)
          /\ Len(Append(Transmitted, accepted[Len(wire) + 1])) = Len(wire) + 1
          /\ \A i \in 1..Len(wire) :
                Append(Transmitted, accepted[Len(wire) + 1])[i] = Transmitted[i]
          /\ Append(Transmitted, accepted[Len(wire) + 1])[Len(wire) + 1]
               = accepted[Len(wire) + 1]
      <4> DEFINE tr == Transmitted
                 x  == accepted[Len(wire) + 1]
      <4>1. tr \in Seq(Msg) /\ x \in Msg /\ Len(tr) = Len(wire)
        BY <1>5, <2>3
      <4> HIDE DEF tr, x
      <4>2. /\ Append(tr, x) \in Seq(Msg)
            /\ Len(Append(tr, x)) = Len(wire) + 1
            /\ \A i \in 1..Len(wire) : Append(tr, x)[i] = tr[i]
            /\ Append(tr, x)[Len(wire) + 1] = x
        BY <4>1
      <4> QED
        BY <4>2, Zenon DEF tr, x
    <3>2. \A i \in 1..(Len(wire) + 1) : i \in 1..Len(wire) \/ i = Len(wire) + 1
      BY <1>1, SendTypes
    <3>3. \A i \in 1..(Len(wire) + 1) :
            Append(Transmitted, accepted[Len(wire) + 1])[i] = accepted[i]
      BY <1>5, <3>1, <3>2, Zenon
    <3>4. DOMAIN Append(Transmitted, accepted[Len(wire) + 1]) = 1..(Len(wire) + 1)
      BY <3>1
    <3> QED
      BY <3>1, <3>3, <3>4
  <2> QED
    BY <1>5, <2>2, <2>4
<1> QED
  BY <1>1, <1>2, <1>3, <1>4, <1>5, <1>7, SendTypes DEF Channel!Transmit

(* Every step of the transport is a step of the channel or leaves it alone. *)
LEMMA ChannelStep ==
  ASSUME SendInv, [Next]_vars
  PROVE  [Channel!Next]_(Channel!chanVars)
<1>1. WriteInv
  BY DEF SendInv
<1>2. CASE UNCHANGED <<accepted, wire, writeFailed>>
  <2>1. Transmitted' = Transmitted
    BY <1>2, TransmittedKept, Zenon
  <2> QED
    BY <1>2, <2>1 DEF Channel!chanVars
<1>3. CASE Quiet \/ PostsClose \/ DropsClose
  BY <1>2, <1>3, Zenon DEF Quiet, PostsClose, DropsClose, queueVars
<1>4. CASE SendDataInner
  BY <1>1, <1>2, <1>4, DataPushed, Zenon
<1>5. ASSUME NEW m \in Msg, Accepts(m) PROVE Channel!Accept
  <2>1. /\ accepted' = Append(accepted, m)
        /\ wire' = wire /\ writeFailed' = writeFailed
    BY <1>5, Zenon DEF Accepts, queueVars
  <2>2. Transmitted' = Transmitted
    BY <2>1, TransmittedKept, Zenon
  <2> QED
    BY <2>1, <2>2, Zenon DEF Channel!Accept
<1>6. CASE OnWrite(TRUE)
  <2>1. writeFailed' /\ accepted' = accepted /\ wire' = wire
    BY <1>1, <1>6, WriteFailed, Zenon
  <2>2. writeFailed' = TRUE
    BY <1>6, Zenon DEF OnWrite
  <2>3. Transmitted' = Transmitted
    BY <2>1, TransmittedKept, Zenon
  <2> QED
    BY <2>1, <2>2, <2>3, Zenon DEF Channel!Next, Channel!Break
<1>7. CASE OnWrite(FALSE)
  BY <1>7, WriteTransmits, Zenon DEF Channel!Next
<1> QED
  BY <1>3, <1>4, <1>5, <1>6, <1>7, StepKinds, Zenon DEF Channel!Next

(* The posted tasks, the queue and the handlers implement OrderedChannel.  *)
THEOREM TransportRefinesChannel == SafetySpec => ImplementsChannel
<1>1. Init => Channel!Init
  BY DEF Init, Channel!Init, Transmitted
<1> QED
  BY <1>1, ChannelStep, SendInvHolds, PTL
     DEF SafetySpec, ImplementsChannel, Channel!Spec

-----------------------------------------------------------------------------
(* Connecting and reading.                                                 *)

(* ReadInv is inductive: an attempt starts only while the flag is down,    *)
(* and HandshakeDone finds no read outstanding.                            *)
LEMMA ReadInvNext ==
  ASSUME TypeOK, ReadInv, [Next]_vars
  PROVE  ReadInv'
<1> USE DEF ReadInv, StrandFree
<1>1. connected_ \in BOOLEAN /\ reading \in Nat
  BY DEF TypeOK
<1>2. CASE UNCHANGED <<connected_, status, chain, reading>>
  BY <1>2
<1>3. ASSUME NEW m \in Msg, Send(m) PROVE ReadInv'
  BY <1>2, <1>3 DEF Send, streamVars
<1>4. CASE Connect
  BY <1>4 DEF Connect
<1>5. CASE Disconnect
  BY <1>2, <1>5 DEF Disconnect, streamVars
<1>6. ASSUME NEW ec \in BOOLEAN, OnResolve(ec) PROVE ReadInv'
  BY <1>6 DEF OnResolve
<1>7. ASSUME NEW ec \in BOOLEAN, OnConnect(ec) PROVE ReadInv'
  BY <1>7 DEF OnConnect
<1>8. CASE HandshakeDone
  BY <1>8 DEF HandshakeDone
<1>9. ASSUME NEW ec \in BOOLEAN, NEW m \in Msg \cup {NoMsg}, OnHandshake(ec, m)
      PROVE  ReadInv'
  <2>1. chain = "handshake" /\ chain' = "idle" /\ status' = status
    BY <1>9, Zenon DEF OnHandshake
  <2>2. CASE ec
    <3>1. /\ connected_' = connected_ /\ reading' = reading
          /\ status = "closed"
      BY <1>9, <2>2, Zenon DEF OnHandshake
    <3> QED
      BY <2>1, <3>1
  <2>3. CASE ~ec
    <3>1. status = "open" /\ reading' = reading + 1 /\ connected_' = TRUE
      BY <1>9, <2>3, Zenon DEF OnHandshake
    <3> QED
      BY <2>1, <3>1
  <2> QED
    BY <2>2, <2>3
<1>10. ASSUME NEW ec \in BOOLEAN, NEW m \in Msg \cup {NoMsg}, OnRead(ec, m)
       PROVE  ReadInv'
  <2>1. \/ ~connected_' /\ status' = "closed" /\ reading' = reading - 1
        \/ UNCHANGED <<connected_, status, reading>>
    BY <1>10, Zenon DEF OnRead
  <2>2. StrandFree /\ reading > 0 /\ chain' = chain
    BY <1>10, Zenon DEF OnRead
  <2> QED
    BY <1>1, <2>1, <2>2
<1>11. CASE SendDataInner
  BY <1>2, <1>11 DEF SendDataInner
<1>12. ASSUME NEW ec \in BOOLEAN, OnWrite(ec) PROVE ReadInv'
  <2>1. /\ \/ connected_' = FALSE /\ status' = "closed"
           \/ connected_' = connected_ /\ status' = status
        /\ chain' = chain /\ reading' = reading
    BY <1>12, Zenon DEF OnWrite
  <2> QED
    BY <1>1, <2>1
<1>13. CASE DisconnectTask
  BY <1>13 DEF DisconnectTask
<1>14. ASSUME NEW ec \in BOOLEAN, OnClose(ec) PROVE ReadInv'
  BY <1>1, <1>14 DEF OnClose
<1>15. CASE UNCHANGED vars
  BY <1>2, <1>15 DEF vars, streamVars
<1> HIDE DEF ReadInv, StrandFree
<1>16. Out \subseteq Msg \cup {NoMsg}
  BY DEF Out
<1>17. CASE Owner
  BY <1>3, <1>4, <1>5, <1>17, Zenon DEF Owner
<1>18. CASE Handler
  BY <1>6, <1>7, <1>8, <1>9, <1>10, <1>11, <1>12, <1>13, <1>14, <1>16, <1>18,
     Zenon DEF Handler
<1> QED
  BY <1>15, <1>17, <1>18, Zenon DEF Next

(* While the transport says it is connected, exactly one read watches the  *)
(* stream, through any number of lost and new connections.                 *)
THEOREM ConnectionIsWatched == SafetySpec => []ConnectedIsWatched
<1>1. Init => ReadInv
  BY DEF Init, ReadInv, StrandFree
<1>2. ReadInv => ConnectedIsWatched
  BY DEF ReadInv, ConnectedIsWatched
<1> QED
  BY <1>1, <1>2, ReadInvNext, WriteDiscipline, PTL DEF SafetySpec
(* While the stream is open a handler that holds the transport is          *)
(* outstanding, so ~WebsocketTransport, which runs once no handler holds   *)
(* it, finds the stream closed and its Disconnect posts nothing.           *)
THEOREM OpenStreamIsHeld == SafetySpec => []OpenIsHeld
<1>1. Init => ReadInv
  BY DEF Init, ReadInv, StrandFree
<1>2. ReadInv => OpenIsHeld
  BY DEF ReadInv, OpenIsHeld, Held
<1> QED
  BY <1>1, <1>2, ReadInvNext, WriteDiscipline, PTL DEF SafetySpec
=============================================================================
