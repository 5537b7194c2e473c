------------------------- MODULE JanusSessionProofs -------------------------
(***************************************************************************)
(* What is proved of JanusSession, for every set of session ids, every     *)
(* behaviour of the server and every bound.                                *)
(*                                                                         *)
(* The session drives the transport as one of the owners that              *)
(* WebsocketTransport allows (TransportStep), so the theorems of           *)
(* WebsocketTransportProofs, instantiated as TP, hold of the transport     *)
(* inside the session.  The rest of the invariant counts: an attempt, a    *)
(* create request that waits for its answer, and a keep-alive wait each    *)
(* use up one call of Init.                                                *)
(***************************************************************************)
EXTENDS JanusSession, FiniteSets, FiniteSetTheorems, TLAPS

TP == INSTANCE WebsocketTransportProofs
        WITH Msg <- Request, MaxConnects <- MaxInits,
             MaxSends <- MaxSends + 2 * MaxInits,
             MaxPosted <- MaxSends + 2 * MaxInits + 3

(* The members of the session and the state of the threads, without the    *)
(* transport.                                                              *)
SessionType ==
  /\ io \in {"starting", "running", "returned", "terminated"}
  /\ stopped \in BOOLEAN
  /\ session_id_ \in SessionIds \cup {NoSession}
  /\ response_callback_map_ \subseteq 1..Len(accepted)
  /\ armed \in Nat /\ expired \in Nat /\ aborted \in Nat
  /\ pc \in MainSteps
  /\ canceledAt \in {"none", "armed", "expired", "unarmed"}
  /\ found \in {"none", "connecting", "settled"}

Attempts == IF chain = "idle" THEN 0 ELSE 1

(* Every call of Init pays for one attempt, or one create that waits for   *)
(* its answer, or one keep-alive chain.                                    *)
ChainBudget ==
  /\ IsFiniteSet(response_callback_map_)
  /\ Cardinality(response_callback_map_) + armed + expired + Attempts
       <= connects
  /\ armed <= 1
  /\ connects <= MaxInits

(* What may still be sent stays below the bound of the transport.          *)
SendBudget ==
  Len(accepted) + expired + (MaxInits - connects) + Attempts
    <= MaxSends + MaxInits

(* The calls of Disconnect made so far, each of which posts at most a task. *)
Closes ==
  IF pc \in {"init", "sleep", "disconnect"} THEN 0
  ELSE IF pc \in {"wait", "cancel", "disconnect2"} THEN 1
  ELSE IF pc \in {"stop", "join", "free"} THEN 2
  ELSE IF pc = "ioc" THEN 3 ELSE 4

PostBudget == Len(posted) <= Len(accepted) + Closes

(* A session id was granted by an answered create request.                 *)
GrantedSession ==
  session_id_ # NoSession =>
    \E t \in 1..Len(accepted) : accepted[t] = CreateRequest /\ Answered(t)

(* Where main is says what it has done.                                    *)
MainProgress ==
  /\ pc # "init" => connects > 0
  /\ pc \in {"init", "sleep"} => canceledAt = "none"

(* Once the only chain is cancelled nothing is left that could start one.  *)
NoChainLeft ==
  canceledAt = "armed" /\ connects = 1 =>
    /\ armed = 0 /\ expired = 0
    /\ response_callback_map_ = {}
    /\ chain = "idle"

BudgetInv == ChainBudget /\ SendBudget /\ PostBudget

SessionInv ==
  /\ TP!WriteInv
  /\ SessionType
  /\ BudgetInv
  /\ MainProgress
  /\ KeepAliveNeedsSession /\ GrantedSession
  /\ NoChainLeft
  /\ KeepAliveNotLost

-----------------------------------------------------------------------------
(* The bounds of the session are bounds of its transport.                  *)
LEMMA TransportConstants == TP!TransportAssumption
BY SessionAssumption, NoMsgAssumption DEF TP!TransportAssumption

(* Types of the transport that the arithmetic below needs.                 *)
LEMMA TransportTypes ==
  ASSUME TP!WriteInv
  PROVE  /\ connected_ \in BOOLEAN
         /\ connects \in Nat
         /\ posted \in Seq(Nat) /\ Len(posted) \in Nat
         /\ accepted \in Seq(Request) /\ Len(accepted) \in Nat
         /\ wire \in Seq(Nat) /\ Len(wire) \in Nat
         /\ chain \in TP!Chains
         /\ MaxSends \in Nat /\ MaxInits \in Nat
<1>1. /\ connected_ \in BOOLEAN
      /\ connects \in Nat
      /\ posted \in Seq(Nat)
      /\ accepted \in Seq(Request)
      /\ wire \in Seq(Nat)
      /\ chain \in TP!Chains
  BY DEF TP!WriteInv, TP!TypeOK
<1> QED
  BY <1>1, SessionAssumption

(* Appending loses no element.                                             *)
LEMMA RangeAppend ==
  ASSUME NEW s \in Seq(Nat), NEW e \in Nat
  PROVE  T!Range(s) \subseteq T!Range(Append(s, e))
<1> SUFFICES ASSUME NEW i \in DOMAIN s
             PROVE  \E j \in DOMAIN Append(s, e) : Append(s, e)[j] = s[i]
  BY DEF T!Range
<1>1. i \in DOMAIN Append(s, e) /\ Append(s, e)[i] = s[i]
  OBVIOUS
<1> QED
  BY <1>1

(* What a handler of the transport alone does to the state the session     *)
(* shares with it.                                                         *)
HandlerEffect ==
  /\ Runs
  /\ UNCHANGED <<io, stopped, session_id_, response_callback_map_,
                 armed, expired, aborted, pc, canceledAt, found>>
  /\ accepted' = accepted /\ connects' = connects
  /\ chain = "idle" => chain' = "idle"
  /\ Len(posted') <= Len(posted)
  /\ T!Range(wire) \subseteq T!Range(wire')

(* Every handler in which the session takes no part has that effect.       *)
LEMMA HandlerFacts ==
  ASSUME TP!WriteInv, TransportHandler
  PROVE  HandlerEffect
<1> USE DEF HandlerEffect, sessionVars, timerVars, mainVars, historyVars
<1>0. /\ posted \in Seq(Nat) /\ Len(posted) \in Nat
      /\ wire \in Seq(Nat) /\ inflight \in Seq(Nat)
  BY TransportTypes DEF TP!WriteInv, TP!TypeOK
<1>1. ASSUME NEW ec \in BOOLEAN,
             \/ Handles(T!OnResolve(ec)) \/ Handles(T!OnConnect(ec))
             \/ Handles(T!OnClose(ec))
      PROVE  HandlerEffect
  <2>1. UNCHANGED <<posted, wire, accepted, connects>>
    BY <1>1, Zenon DEF Handles, T!OnResolve, T!OnConnect, T!OnClose
  <2>2. chain = "idle" => chain' = "idle"
    BY <1>1 DEF Handles, T!OnResolve, T!OnConnect, T!OnClose
  <2> QED
    BY <1>0, <1>1, <2>1, <2>2 DEF Handles
<1>2. ASSUME NEW ec \in BOOLEAN, Handles(T!OnWrite(ec))
      PROVE  HandlerEffect
  <2>1. wire' = wire \/ (inflight # <<>> /\ wire' = Append(wire, Head(inflight)))
    BY <1>2 DEF Handles, T!OnWrite
  <2>2. inflight # <<>> => Head(inflight) \in Nat
    BY <1>0
  <2>3. T!Range(wire) \subseteq T!Range(wire')
    BY <2>1, <2>2, <1>0, RangeAppend
  <2> QED
    BY <1>0, <1>2, <2>3 DEF Handles, T!OnWrite
<1>3. CASE \/ Handles(T!OnHandshake(TRUE, NoMsg)) \/ Handles(T!OnRead(TRUE, NoMsg))
           \/ Handles(T!HandshakeDone)
  BY <1>3, <1>0 DEF Handles, T!OnHandshake, T!OnRead, T!HandshakeDone
<1>4. CASE Handles(T!SendDataInner) \/ Handles(T!DisconnectTask)
  <2>1. posted # <<>> /\ posted' = Tail(posted)
    BY <1>4 DEF Handles, T!SendDataInner, T!DisconnectTask
  <2>2. Len(posted') <= Len(posted)
    BY <2>1, <1>0
  <2> QED
    BY <1>4, <2>2 DEF Handles, T!SendDataInner, T!DisconnectTask
<1> HIDE DEF HandlerEffect
<1> QED
  BY <1>1, <1>2, <1>3, <1>4, Zenon DEF TransportHandler

-----------------------------------------------------------------------------
(* Composition: the session is an owner of its transport.                  *)

(* A handler that the session lets run is one of the transport's.          *)
LEMMA HandlerIsTransportStep ==
  ASSUME TransportHandler
  PROVE  TP!Next
<1> USE DEF Handles
<1>1. ASSUME NEW ec \in BOOLEAN,
             \/ Handles(T!OnResolve(ec)) \/ Handles(T!OnConnect(ec))
             \/ Handles(T!OnWrite(ec)) \/ Handles(T!OnClose(ec))
      PROVE  TP!OnResolve(ec) \/ TP!OnConnect(ec) \/ TP!OnWrite(ec) \/ TP!OnClose(ec)
  <2>1. CASE Handles(T!OnResolve(ec)) \/ Handles(T!OnConnect(ec))
    BY <2>1, Zenon DEF T!OnResolve, T!OnConnect, TP!OnResolve, TP!OnConnect
  <2>2. CASE Handles(T!OnWrite(ec)) \/ Handles(T!OnClose(ec))
    BY <2>2, Zenon DEF T!OnWrite, T!OnClose, TP!OnWrite, TP!OnClose,
      T!StrandFree, TP!StrandFree, T!QueueAfterError, TP!QueueAfterError,
      T!NextWrite, TP!NextWrite
  <2> QED
    BY <1>1, <2>1, <2>2
<1>2. NoMsg \in TP!Out
  BY DEF TP!Out
<1>3. CASE Handles(T!OnHandshake(TRUE, NoMsg)) \/ Handles(T!OnRead(TRUE, NoMsg))
  <2>1. TP!OnHandshake(TRUE, NoMsg) \/ TP!OnRead(TRUE, NoMsg)
    BY <1>3, Zenon DEF T!OnHandshake, T!OnRead, TP!OnHandshake, TP!OnRead,
      T!StrandFree, TP!StrandFree, T!SendMsg, TP!SendMsg
  <2> QED
    BY <2>1, <1>2, Zenon DEF TP!Next, TP!Handler
<1>4. CASE Handles(T!HandshakeDone)
  <2>1. TP!HandshakeDone
    BY <1>4, Zenon DEF T!HandshakeDone, TP!HandshakeDone
  <2> QED
    BY <2>1, Zenon DEF TP!Next, TP!Handler
<1>5. CASE Handles(T!SendDataInner) \/ Handles(T!DisconnectTask)
  <2>1. TP!SendDataInner \/ TP!DisconnectTask
    BY <1>5, Zenon DEF T!SendDataInner, TP!SendDataInner, T!DisconnectTask,
      TP!DisconnectTask, T!StrandFree, TP!StrandFree, T!CloseTask, TP!CloseTask,
      T!Push, TP!Push, T!WriteOnPush, TP!WriteOnPush
  <2> QED
    BY <2>1, Zenon DEF TP!Next, TP!Handler
<1> HIDE DEF Handles
<1> QED
  BY <1>1, <1>3, <1>4, <1>5, Zenon DEF TransportHandler, TP!Next, TP!Handler

(* The bound on sends is not reached while a wait has expired or an        *)
(* attempt is outstanding.                                                 *)
LEMMA SendRoom ==
  ASSUME TP!WriteInv, SessionType, BudgetInv, expired > 0 \/ chain # "idle"
  PROVE  Len(accepted) < MaxSends + 2 * MaxInits
<1>1. Len(accepted) + expired + (MaxInits - connects) + Attempts
        <= MaxSends + MaxInits /\ connects <= MaxInits
  BY DEF BudgetInv, SendBudget, ChainBudget
<1>2. expired \in Nat /\ Attempts \in {0, 1} /\ expired + Attempts > 0
  BY DEF SessionType, Attempts
<1> QED
  BY <1>1, <1>2, TransportTypes

(* The bound on posted tasks is not reached when main calls Disconnect.    *)
LEMMA PostRoom ==
  ASSUME TP!WriteInv, SessionType, BudgetInv, MainProgress,
         pc \in {"disconnect", "disconnect2", "free", "ioc"}
  PROVE  Len(posted) < MaxSends + 2 * MaxInits + 3
<1>1. /\ Len(accepted) + expired + (MaxInits - connects) + Attempts
           <= MaxSends + MaxInits
      /\ connects <= MaxInits
      /\ Len(posted) <= Len(accepted) + Closes
  BY DEF BudgetInv, SendBudget, ChainBudget, PostBudget
<1>2. expired \in Nat /\ Attempts \in {0, 1} /\ Closes \in 0..3 /\ connects > 0
  BY DEF SessionType, Attempts, Closes, MainProgress
<1>3. Len(accepted) <= MaxSends + MaxInits /\ MaxInits > 0
  BY <1>1, <1>2, TransportTypes
<1>4. Closes \in Nat /\ Closes <= 3
  BY <1>2
<1>5. /\ Len(posted) \in Nat /\ Len(accepted) \in Nat
      /\ MaxSends \in Nat /\ MaxInits \in Nat
  BY TransportTypes
<1> QED
  BY <1>1, <1>3, <1>4, <1>5

(* Every step of the session is a step of the transport with an owner, or  *)
(* leaves the transport alone.                                             *)
LEMMA TransportStep ==
  ASSUME TP!WriteInv, SessionType, BudgetInv, MainProgress, [Next]_vars
  PROVE  [TP!Next]_(TP!vars)
<1>1. CASE UNCHANGED transportVars
  BY <1>1, Zenon DEF transportVars, TP!vars, TP!streamVars
<1>2. CASE OnKeepAliveTimer
  <2>1. T!Send(KeepAliveMsg)
    BY <1>2, Zenon DEF OnKeepAliveTimer
  <2>2. CASE connected_ /\ KeepAliveMsg # NoMsg
    <3>1. KeepAliveMsg \in Request
      BY <2>2 DEF KeepAliveMsg, Request, SessionType
    <3>2. TP!Send(KeepAliveMsg)
      BY <2>1, Zenon DEF T!Send, TP!Send, T!SendMsg, TP!SendMsg, T!streamVars,
        TP!streamVars
    <3>3. Len(accepted) < MaxSends + 2 * MaxInits
      BY <1>2, SendRoom DEF OnKeepAliveTimer
    <3> QED
      BY <3>1, <3>2, <3>3, Zenon DEF TP!Next, TP!Owner
  <2>3. CASE ~(connected_ /\ KeepAliveMsg # NoMsg)
    BY <2>1, <2>3, Zenon DEF T!Send, T!SendMsg, TP!vars, T!streamVars, TP!streamVars
  <2> QED
    BY <2>2, <2>3
<1>3. CASE OnConnect
  <2>1. TP!OnHandshake(FALSE, CreateRequest) /\ chain = "handshake"
    BY <1>3, Zenon DEF OnConnect, T!OnHandshake, TP!OnHandshake, T!SendMsg,
      TP!SendMsg
  <2>2. CreateRequest \in TP!Out
    BY <2>1, SendRoom DEF TP!Out, Request
  <2> QED
    BY <2>1, <2>2, Zenon DEF TP!Next, TP!Handler
<1>4. CASE OnRead
  <2>1. TP!OnRead(FALSE, NoMsg)
    BY <1>4, Zenon DEF OnRead, T!OnRead, TP!OnRead, T!StrandFree, TP!StrandFree,
      T!SendMsg, TP!SendMsg
  <2>2. NoMsg \in TP!Out
    BY DEF TP!Out
  <2> QED
    BY <2>1, <2>2, Zenon DEF TP!Next, TP!Handler
<1>5. CASE CallInit
  <2>1. TP!Connect
    BY <1>5, Zenon DEF CallInit, T!Connect, TP!Connect
  <2> QED
    BY <2>1, Zenon DEF TP!Next, TP!Owner
<1>6. CASE CallDisconnect \/ Free \/ FreeIoc
  <2>1. T!Disconnect \/ UNCHANGED transportVars
    BY <1>6, Zenon DEF CallDisconnect, Free, FreeIoc
  <2>2. Len(posted) < MaxSends + 2 * MaxInits + 3
    BY <1>6, PostRoom DEF CallDisconnect, Free, FreeIoc
  <2>3. ASSUME T!Disconnect PROVE TP!Disconnect
    BY <2>3, Zenon DEF T!Disconnect, TP!Disconnect, T!streamVars,
      TP!streamVars, T!CloseTask, TP!CloseTask
  <2> QED
    BY <1>1, <2>1, <2>2, <2>3, Zenon DEF TP!Next, TP!Owner
<1>7. CASE TransportHandler
  BY <1>7, HandlerIsTransportStep
<1>8. CASE \/ IoStart \/ IoReturn \/ TimerExpires \/ OnKeepAliveAborted
           \/ OnReadGarbage \/ CancelTimer \/ Delete \/ StopIoc \/ Join
  BY <1>8, <1>1, Zenon DEF IoStart, IoReturn, TimerExpires, OnKeepAliveAborted,
    OnReadGarbage, CancelTimer, Delete, StopIoc, Join
<1>9. CASE UNCHANGED vars
  BY <1>9, <1>1, Zenon DEF vars
<1> QED
  BY <1>2, <1>3, <1>4, <1>5, <1>6, <1>7, <1>8, <1>9, Zenon
     DEF Next, IoThread, MainThread

-----------------------------------------------------------------------------
(* What the steps in which session and transport both take part do.        *)

(* One more message accepted, which SendMsg posts.                         *)
Accepts(m) ==
  /\ accepted' = Append(accepted, m)
  /\ Len(accepted') = Len(accepted) + 1
  /\ Len(posted') = Len(posted) + 1

TimerEffect ==
  /\ Runs /\ expired > 0
  /\ armed' = 1 /\ expired' = expired - 1 /\ aborted' = aborted + armed
  /\ UNCHANGED <<io, stopped, session_id_, response_callback_map_, pc,
                 canceledAt, found, chain, connects, wire>>
  /\ \/ UNCHANGED <<accepted, posted>>
     \/ session_id_ # NoSession /\ Accepts(KeepAliveRequest(session_id_))

(* The handler of an expired wait has that effect.                         *)
LEMMA TimerFacts ==
  ASSUME TP!WriteInv, SessionType, OnKeepAliveTimer
  PROVE  TimerEffect
<1>1. /\ Runs /\ expired > 0
      /\ armed' = 1 /\ expired' = expired - 1 /\ aborted' = aborted + armed
      /\ UNCHANGED <<io, stopped, session_id_, response_callback_map_, pc,
                     canceledAt, found, chain, connects, wire>>
  BY Zenon DEF OnKeepAliveTimer, KeepAlive, T!Send, T!streamVars, sessionVars,
    mainVars, historyVars
<1>2. T!SendMsg(connected_, KeepAliveMsg)
  BY Zenon DEF OnKeepAliveTimer, T!Send
<1>3. CASE connected_ /\ KeepAliveMsg # NoMsg
  <2>1. session_id_ # NoSession /\ KeepAliveMsg = KeepAliveRequest(session_id_)
    BY <1>3 DEF KeepAliveMsg
  <2>2. /\ accepted' = Append(accepted, KeepAliveRequest(session_id_))
        /\ posted' = Append(posted, Len(accepted) + 1)
    BY <1>2, <1>3, <2>1 DEF T!SendMsg
  <2>3. KeepAliveRequest(session_id_) \in Request
    BY <2>1 DEF SessionType, Request
  <2>4. Len(accepted') = Len(accepted) + 1 /\ Len(posted') = Len(posted) + 1
    BY <2>2, <2>3, TransportTypes
  <2> QED
    BY <1>1, <2>1, <2>2, <2>4, Zenon DEF TimerEffect, Accepts
<1>4. CASE ~(connected_ /\ KeepAliveMsg # NoMsg)
  BY <1>1, <1>2, <1>4, Zenon DEF T!SendMsg, TimerEffect
<1> QED
  BY <1>3, <1>4

ConnectEffect ==
  /\ Runs
  /\ chain # "idle" /\ chain' = "idle"
  /\ response_callback_map_' = response_callback_map_ \cup {Len(accepted) + 1}
  /\ Accepts(CreateRequest)
  /\ UNCHANGED <<io, stopped, session_id_, armed, expired, aborted, pc,
                 canceledAt, found, connects, wire>>

(* OnConnect has that effect.                                              *)
LEMMA ConnectFacts ==
  ASSUME TP!WriteInv, OnConnect
  PROVE  ConnectEffect
<1>1. CreateRequest \in Request /\ CreateRequest # NoMsg
  BY NoMsgAssumption DEF Request
<1>2. /\ accepted' = Append(accepted, CreateRequest)
      /\ posted' = Append(posted, Len(accepted) + 1)
  BY <1>1 DEF OnConnect, T!OnHandshake, T!SendMsg
<1>3. Len(accepted') = Len(accepted) + 1 /\ Len(posted') = Len(posted) + 1
  BY <1>1, <1>2, TransportTypes
<1>4. chain = "handshake" /\ chain' = "idle"
  BY Zenon DEF OnConnect, T!OnHandshake
<1>5. chain # "idle"
  BY <1>4
<1> QED
  BY <1>2, <1>3, <1>4, <1>5, Zenon DEF ConnectEffect, Accepts, OnConnect,
     T!OnHandshake, timerVars, mainVars, historyVars

(* The answer that takes out the callback of transaction t.                *)
Answers(t) ==
  /\ response_callback_map_' = response_callback_map_ \ {t}
  /\ \/ UNCHANGED <<session_id_, armed, expired, aborted>>
     \/ /\ accepted[t] = CreateRequest
        /\ session_id_' \in SessionIds
        /\ armed' = 1 /\ expired' = expired /\ aborted' = aborted + armed

ReadEffect ==
  /\ Runs
  /\ UNCHANGED <<io, stopped, pc, canceledAt, found, chain, connects,
                 accepted, posted, wire>>
  /\ \/ UNCHANGED <<session_id_, response_callback_map_, armed, expired, aborted>>
     \/ \E t \in response_callback_map_ : t \in T!Range(wire) /\ Answers(t)

(* OnRead of a message has that effect.                                    *)
LEMMA ReadFacts ==
  ASSUME SessionType, OnRead
  PROVE  ReadEffect
<1>1. PICK msg \in Incoming : /\ Allowed(msg)
                              /\ msg.janus # "garbage"
                              /\ T!OnRead(FALSE, NoMsg)
                              /\ OnMsg(msg)
  BY DEF OnRead
<1>2. /\ Runs
      /\ UNCHANGED <<io, stopped, pc, canceledAt, found, chain, connects,
                     accepted, posted, wire>>
  BY <1>1, Zenon DEF OnRead, T!OnRead, T!SendMsg, mainVars, historyVars
<1>3. CASE msg.janus # "event" /\ msg.transaction \in response_callback_map_
  <2>1. /\ response_callback_map_' = response_callback_map_ \ {msg.transaction}
        /\ OnCreateResponse(msg)
    BY <1>1, <1>3, Zenon DEF OnMsg, Without
  <2>2. msg.transaction \in T!Range(wire)
    BY <1>1, <1>3 DEF Incoming
  <2>3. CASE msg.janus = "success"
    <3>1. msg.id \in SessionIds
      BY <1>1, <2>3 DEF Incoming
    <3>2. accepted[msg.transaction] = CreateRequest
      BY <1>1, <2>3 DEF Allowed
    <3>3. /\ session_id_' = msg.id
          /\ armed' = 1 /\ aborted' = aborted + armed
          /\ expired' = expired - 0
      BY <2>1, <2>3, Zenon DEF OnCreateResponse, KeepAlive
    <3>4. expired' = expired
      BY <3>3 DEF SessionType
    <3> QED
      BY <1>2, <1>3, <2>1, <2>2, <3>1, <3>2, <3>3, <3>4, Zenon
         DEF ReadEffect, Answers
  <2>4. CASE msg.janus # "success"
    <3>1. UNCHANGED <<session_id_, armed, expired, aborted>>
      BY <2>1, <2>4, Zenon DEF OnCreateResponse, timerVars
    <3> QED
      BY <1>2, <1>3, <2>1, <2>2, <3>1, Zenon DEF ReadEffect, Answers
  <2> QED
    BY <2>3, <2>4
<1>4. CASE ~(msg.janus # "event" /\ msg.transaction \in response_callback_map_)
  <2>1. UNCHANGED <<sessionVars, timerVars>>
    BY <1>1, <1>4, Zenon DEF OnMsg
  <2> QED
    BY <1>2, <2>1, Zenon DEF ReadEffect, sessionVars, timerVars
<1> QED
  BY <1>3, <1>4

-----------------------------------------------------------------------------
(* What the steps of main, and those of the timer and of the io thread     *)
(* itself, do.                                                             *)

InitEffect ==
  /\ pc \in {"init", "sleep"} /\ pc' = "sleep"
  /\ chain = "idle" /\ chain' \in {"idle", "resolve"}
  /\ connects < MaxInits /\ connects' = connects + 1
  /\ UNCHANGED <<io, stopped, session_id_, response_callback_map_, armed,
                 expired, aborted, canceledAt, found, accepted, posted, wire>>

DisconnectEffect ==
  /\ \/ pc = "disconnect" /\ pc' = "wait"
     \/ pc = "disconnect2" /\ pc' = "stop"
     \/ pc = "free" /\ pc' = "ioc"
     \/ pc = "ioc" /\ pc' = "freed"
  /\ found' \in {found, "settled", "connecting"}
  /\ Len(posted') <= Len(posted) + 1
  /\ UNCHANGED <<io, stopped, session_id_, response_callback_map_, armed,
                 expired, aborted, canceledAt, accepted, chain, connects, wire>>

CancelEffect ==
  /\ \/ pc = "sleep" /\ pc' = "disconnect"
     \/ pc = "cancel" /\ pc' = "disconnect2"
  /\ armed' = 0 /\ aborted' = aborted + armed
  /\ canceledAt' \in {"armed", "expired", "unarmed"}
  /\ canceledAt' = "armed" => armed > 0
  /\ canceledAt' = "expired" => expired > 0
  /\ UNCHANGED <<io, stopped, session_id_, response_callback_map_, expired,
                 found, accepted, posted, chain, connects, wire>>

ExpiryEffect ==
  /\ Runs
  /\ armed > 0 /\ Len(accepted) < MaxSends
  /\ armed' = armed - 1 /\ expired' = expired + 1
  /\ UNCHANGED <<io, stopped, session_id_, response_callback_map_, aborted, pc,
                 canceledAt, found, accepted, posted, chain, connects, wire>>

(* The steps of the two threads that touch none of the counts.             *)
ThreadEffect ==
  /\ \/ io' = io /\ pc' = pc
     \/ io # "returned" /\ pc' = pc
          /\ io' \in {"running", "returned", "terminated"}
     \/ io' = io /\ pc = "wait" /\ pc' = "cancel"
     \/ io' = io /\ pc = "stop" /\ pc' = "join"
     \/ io' = io /\ pc = "join" /\ pc' = "free" /\ io = "returned"
  /\ stopped' \in BOOLEAN
  /\ aborted' \in Nat
  /\ UNCHANGED <<session_id_, response_callback_map_, armed, expired,
                 canceledAt, found, accepted, posted, chain, connects, wire>>

(* Every step has one of these effects.                                    *)
LEMMA SessionStepKinds ==
  ASSUME TP!WriteInv, SessionType, [Next]_vars
  PROVE  \/ HandlerEffect \/ TimerEffect \/ ConnectEffect \/ ReadEffect
         \/ InitEffect \/ DisconnectEffect \/ CancelEffect \/ ExpiryEffect
         \/ ThreadEffect
<1> USE DEF transportVars, sessionVars, timerVars, mainVars, historyVars
<1>1. CASE CallInit
  BY <1>1 DEF CallInit, T!Connect, InitEffect
<1>2. CASE CallDisconnect \/ Free \/ FreeIoc
  <2>1. posted' = posted \/ posted' = Append(posted, 0)
    BY <1>2 DEF CallDisconnect, Free, FreeIoc, T!Disconnect, T!CloseTask
  <2>2. Len(posted') <= Len(posted) + 1
    BY <2>1, TransportTypes
  <2> QED
    BY <1>2, <2>2 DEF CallDisconnect, Free, FreeIoc, T!Disconnect, T!streamVars,
       DisconnectEffect
<1>3. CASE CancelTimer
  BY <1>3 DEF CancelTimer, CancelEffect
<1>4. CASE TimerExpires
  BY <1>4 DEF TimerExpires, ExpiryEffect
<1>5. CASE \/ IoStart \/ IoReturn \/ OnReadGarbage \/ Delete \/ StopIoc \/ Join
  BY <1>5 DEF IoStart, IoReturn, OnReadGarbage, Runs, Delete, StopIoc, Join,
     ThreadEffect, SessionType
<1>6. CASE OnKeepAliveAborted
  BY <1>6 DEF OnKeepAliveAborted, ThreadEffect, SessionType
<1>7. CASE UNCHANGED vars
  BY <1>7 DEF vars, ThreadEffect, SessionType
<1> QED
  BY <1>1, <1>2, <1>3, <1>4, <1>5, <1>6, <1>7, HandlerFacts, TimerFacts,
     ConnectFacts, ReadFacts, Zenon DEF Next, IoThread, MainThread

-----------------------------------------------------------------------------
(* The invariant, part by part.                                            *)

(* The members keep their types; a callback belongs to an accepted request. *)
LEMMA SessionTypeNext ==
  ASSUME TP!WriteInv, SessionType, [Next]_vars
  PROVE  SessionType'
<1> USE TransportTypes DEF SessionType, MainSteps
<1>1. CASE HandlerEffect
  BY <1>1 DEF HandlerEffect
<1>2. CASE TimerEffect
  <2>1. Len(accepted') \in {Len(accepted), Len(accepted) + 1}
    BY <1>2 DEF TimerEffect, Accepts
  <2>2. response_callback_map_' \subseteq 1..Len(accepted')
    BY <1>2, <2>1 DEF TimerEffect
  <2>3. armed' \in Nat /\ expired' \in Nat /\ aborted' \in Nat
    BY <1>2 DEF TimerEffect
  <2> QED
    BY <1>2, <2>2, <2>3 DEF TimerEffect
<1>3. CASE ConnectEffect
  <2>1. Len(accepted') = Len(accepted) + 1
    BY <1>3 DEF ConnectEffect, Accepts
  <2>2. \A t \in response_callback_map_ \cup {Len(accepted) + 1} :
          t \in 1..(Len(accepted) + 1)
    OBVIOUS
  <2>3. response_callback_map_' \subseteq 1..Len(accepted')
    BY <1>3, <2>1, <2>2, Zenon DEF ConnectEffect
  <2> QED
    BY <1>3, <2>3 DEF ConnectEffect
<1>4. CASE ReadEffect
  <2>1. ASSUME NEW t \in response_callback_map_, Answers(t)
        PROVE  /\ session_id_' \in SessionIds \cup {NoSession}
               /\ response_callback_map_' \subseteq response_callback_map_
               /\ armed' \in Nat /\ expired' \in Nat /\ aborted' \in Nat
    BY <2>1 DEF Answers
  <2>2. /\ session_id_' \in SessionIds \cup {NoSession}
        /\ response_callback_map_' \subseteq response_callback_map_
        /\ armed' \in Nat /\ expired' \in Nat /\ aborted' \in Nat
    BY <1>4, <2>1 DEF ReadEffect
  <2> QED
    BY <1>4, <2>2 DEF ReadEffect
<1>5. CASE InitEffect
  BY <1>5 DEF InitEffect
<1>6. CASE DisconnectEffect
  BY <1>6 DEF DisconnectEffect
<1>7. CASE CancelEffect
  BY <1>7 DEF CancelEffect
<1>8. CASE ExpiryEffect
  BY <1>8 DEF ExpiryEffect
<1>9. CASE ThreadEffect
  BY <1>9 DEF ThreadEffect
<1> QED
  BY <1>1, <1>2, <1>3, <1>4, <1>5, <1>6, <1>7, <1>8, <1>9, SessionStepKinds, Zenon

(* Registering a callback adds one, an answer takes one out.               *)
LEMMA CallbackCount ==
  ASSUME TP!WriteInv, SessionType, ChainBudget
  PROVE  /\ Cardinality(response_callback_map_) \in Nat
         /\ IsFiniteSet(response_callback_map_ \cup {Len(accepted) + 1})
         /\ Cardinality(response_callback_map_ \cup {Len(accepted) + 1})
              = Cardinality(response_callback_map_) + 1
         /\ \A t \in response_callback_map_ :
              /\ IsFiniteSet(response_callback_map_ \ {t})
              /\ Cardinality(response_callback_map_ \ {t})
                   = Cardinality(response_callback_map_) - 1
<1>1. IsFiniteSet(response_callback_map_)
  BY DEF ChainBudget
<1>2. Len(accepted) + 1 \notin response_callback_map_
  BY TransportTypes DEF SessionType
<1> QED
  BY <1>1, <1>2, FS_CardinalityType, FS_AddElement, FS_RemoveElement

(* No step spends more than the calls of Init have paid for.               *)
LEMMA ChainBudgetNext ==
  ASSUME TP!WriteInv, SessionType, ChainBudget, [Next]_vars
  PROVE  ChainBudget'
<1> DEFINE card == Cardinality(response_callback_map_)
<1>0. /\ card \in Nat /\ armed \in Nat /\ expired \in Nat /\ connects \in Nat
      /\ card + armed + expired + Attempts <= connects
      /\ armed <= 1 /\ connects <= MaxInits /\ MaxInits \in Nat
      /\ IsFiniteSet(response_callback_map_)
      /\ Attempts \in {0, 1}
  BY TransportTypes, CallbackCount DEF SessionType, ChainBudget, Attempts
<1>1. CASE HandlerEffect
  BY <1>0, <1>1 DEF HandlerEffect, ChainBudget, Attempts
<1>2. CASE TimerEffect
  BY <1>0, <1>2 DEF TimerEffect, ChainBudget, Attempts
<1>3. CASE ConnectEffect
  <2>1. IsFiniteSet(response_callback_map_') /\ card' = card + 1
    BY <1>3, CallbackCount DEF ConnectEffect
  <2>2. Attempts = 1 /\ Attempts' = 0
    BY <1>3 DEF ConnectEffect, Attempts
  <2> QED
    BY <1>0, <1>3, <2>1, <2>2 DEF ConnectEffect, ChainBudget
<1>4. CASE ReadEffect
  <2>1. Attempts' = Attempts /\ connects' = connects
    BY <1>4 DEF ReadEffect, Attempts
  <2>2. CASE UNCHANGED <<session_id_, response_callback_map_, armed, expired, aborted>>
    BY <1>0, <2>1, <2>2 DEF ChainBudget
  <2>3. ASSUME NEW t \in response_callback_map_, Answers(t) PROVE ChainBudget'
    <3>1. IsFiniteSet(response_callback_map_') /\ card' = card - 1
      BY <2>3, CallbackCount DEF Answers
    <3>2. armed' <= 1 /\ armed' \in Nat /\ expired' = expired /\ armed' <= armed + 1
      BY <1>0, <2>3 DEF Answers
    <3> QED
      BY <1>0, <2>1, <3>1, <3>2 DEF ChainBudget
  <2> QED
    BY <1>4, <2>2, <2>3 DEF ReadEffect
<1>5. CASE InitEffect
  BY <1>0, <1>5 DEF InitEffect, ChainBudget, Attempts
<1>6. CASE DisconnectEffect
  BY <1>0, <1>6 DEF DisconnectEffect, ChainBudget, Attempts
<1>7. CASE CancelEffect
  BY <1>0, <1>7 DEF CancelEffect, ChainBudget, Attempts
<1>8. CASE ExpiryEffect
  BY <1>0, <1>8 DEF ExpiryEffect, ChainBudget, Attempts
<1>9. CASE ThreadEffect
  BY <1>0, <1>9 DEF ThreadEffect, ChainBudget, Attempts
<1> QED
  BY <1>1, <1>2, <1>3, <1>4, <1>5, <1>6, <1>7, <1>8, <1>9, SessionStepKinds, Zenon

(* What may still be sent never grows, except with an expiry that the      *)
(* bound on messages allows.                                               *)
LEMMA SendBudgetNext ==
  ASSUME TP!WriteInv, SessionType, ChainBudget, SendBudget, [Next]_vars
  PROVE  SendBudget'
<1>0. /\ Len(accepted) \in Nat /\ armed \in Nat /\ expired \in Nat
      /\ connects \in Nat /\ MaxSends \in Nat /\ MaxInits \in Nat
      /\ Cardinality(response_callback_map_) \in Nat
      /\ Cardinality(response_callback_map_) + armed + expired + Attempts
           <= connects
      /\ Len(accepted) + expired + (MaxInits - connects) + Attempts
           <= MaxSends + MaxInits
      /\ Attempts \in {0, 1}
  BY TransportTypes, CallbackCount
     DEF SessionType, ChainBudget, SendBudget, Attempts
<1>1. CASE HandlerEffect
  BY <1>0, <1>1 DEF HandlerEffect, SendBudget, Attempts
<1>2. CASE TimerEffect
  <2>1. Len(accepted') \in {Len(accepted), Len(accepted) + 1}
    BY <1>2 DEF TimerEffect, Accepts
  <2> QED
    BY <1>0, <1>2, <2>1 DEF TimerEffect, SendBudget, Attempts
<1>3. CASE ConnectEffect
  <2>1. Len(accepted') = Len(accepted) + 1
    BY <1>3 DEF ConnectEffect, Accepts
  <2>2. Attempts = 1 /\ Attempts' = 0
    BY <1>3 DEF ConnectEffect, Attempts
  <2> QED
    BY <1>0, <1>3, <2>1, <2>2 DEF ConnectEffect, SendBudget
<1>4. CASE ReadEffect
  <2>1. expired' = expired
    BY <1>4 DEF ReadEffect, Answers
  <2> QED
    BY <1>0, <1>4, <2>1 DEF ReadEffect, SendBudget, Attempts
<1>5. CASE InitEffect
  BY <1>0, <1>5 DEF InitEffect, SendBudget, Attempts
<1>6. CASE DisconnectEffect
  BY <1>0, <1>6 DEF DisconnectEffect, SendBudget, Attempts
<1>7. CASE CancelEffect
  BY <1>0, <1>7 DEF CancelEffect, SendBudget, Attempts
<1>8. CASE ExpiryEffect
  BY <1>0, <1>8 DEF ExpiryEffect, SendBudget, Attempts
<1>9. CASE ThreadEffect
  BY <1>0, <1>9 DEF ThreadEffect, SendBudget, Attempts
<1> QED
  BY <1>1, <1>2, <1>3, <1>4, <1>5, <1>6, <1>7, <1>8, <1>9, SessionStepKinds, Zenon

(* A posted task is a message or comes from a call of Disconnect.          *)
LEMMA PostBudgetNext ==
  ASSUME TP!WriteInv, SessionType, PostBudget, [Next]_vars, TP!WriteInv'
  PROVE  PostBudget'
<1>0. /\ Len(accepted) \in Nat /\ Len(posted) \in Nat /\ Len(posted') \in Nat
      /\ Len(posted) <= Len(accepted) + Closes
      /\ Closes \in Nat
  <2>1. Len(posted') \in Nat
    BY DEF TP!WriteInv, TP!TypeOK
  <2> QED
    BY <2>1, TransportTypes DEF PostBudget, Closes
<1>1. CASE HandlerEffect
  BY <1>0, <1>1 DEF HandlerEffect, PostBudget, Closes
<1>2. CASE TimerEffect
  BY <1>0, <1>2 DEF TimerEffect, Accepts, PostBudget, Closes
<1>3. CASE ConnectEffect
  BY <1>0, <1>3 DEF ConnectEffect, Accepts, PostBudget, Closes
<1>4. CASE ReadEffect
  BY <1>0, <1>4 DEF ReadEffect, PostBudget, Closes
<1>5. CASE InitEffect
  BY <1>0, <1>5 DEF InitEffect, PostBudget, Closes
<1>6. CASE DisconnectEffect
  BY <1>0, <1>6 DEF DisconnectEffect, PostBudget, Closes
<1>7. CASE CancelEffect
  BY <1>0, <1>7 DEF CancelEffect, PostBudget, Closes
<1>8. CASE ExpiryEffect
  BY <1>0, <1>8 DEF ExpiryEffect, PostBudget, Closes
<1>9. CASE ThreadEffect
  BY <1>0, <1>9 DEF ThreadEffect, PostBudget, Closes
<1> QED
  BY <1>1, <1>2, <1>3, <1>4, <1>5, <1>6, <1>7, <1>8, <1>9, SessionStepKinds, Zenon

(* main starts with Init, and cancels only in Destory.                     *)
LEMMA MainNext ==
  ASSUME TP!WriteInv, SessionType, MainProgress, [Next]_vars
  PROVE  MainProgress'
<1> USE TransportTypes DEF MainProgress
<1>1. CASE HandlerEffect
  BY <1>1 DEF HandlerEffect
<1>2. CASE TimerEffect
  BY <1>2 DEF TimerEffect
<1>3. CASE ConnectEffect
  BY <1>3 DEF ConnectEffect
<1>4. CASE ReadEffect
  BY <1>4 DEF ReadEffect
<1>5. CASE InitEffect
  BY <1>5 DEF InitEffect
<1>6. CASE DisconnectEffect
  BY <1>6 DEF DisconnectEffect
<1>7. CASE CancelEffect
  BY <1>7 DEF CancelEffect
<1>8. CASE ExpiryEffect
  BY <1>8 DEF ExpiryEffect
<1>9. CASE ThreadEffect
  BY <1>9 DEF ThreadEffect
<1> QED
  BY <1>1, <1>2, <1>3, <1>4, <1>5, <1>6, <1>7, <1>8, <1>9, SessionStepKinds, Zenon

(* When the only call of Init has paid for the wait that Destory cancels,  *)
(* nothing is left to start another one.                                   *)
LEMMA NoChainLeftNext ==
  ASSUME TP!WriteInv, SessionType, ChainBudget, MainProgress, NoChainLeft,
         [Next]_vars
  PROVE  NoChainLeft'
<1> USE DEF NoChainLeft
<1>1. CASE HandlerEffect
  BY <1>1 DEF HandlerEffect
<1>2. CASE TimerEffect
  BY <1>2 DEF TimerEffect, SessionType
<1>3. CASE ConnectEffect
  BY <1>3 DEF ConnectEffect
<1>4. CASE ReadEffect
  BY <1>4 DEF ReadEffect, Answers
<1>5. CASE InitEffect
  BY <1>5 DEF InitEffect, MainProgress
<1>6. CASE DisconnectEffect
  BY <1>6 DEF DisconnectEffect
<1>7. CASE CancelEffect
  <2> SUFFICES ASSUME canceledAt' = "armed", connects' = 1
               PROVE  /\ expired = 0 /\ response_callback_map_ = {}
                      /\ chain = "idle"
    BY <1>7 DEF CancelEffect
  <2>1. armed > 0 /\ connects = 1
    BY <1>7 DEF CancelEffect
  <2>2. /\ Cardinality(response_callback_map_) \in Nat
        /\ armed \in Nat /\ expired \in Nat
        /\ Cardinality(response_callback_map_) + armed + expired + Attempts <= 1
        /\ Attempts \in {0, 1}
        /\ IsFiniteSet(response_callback_map_)
    BY <2>1, CallbackCount DEF SessionType, ChainBudget, Attempts
  <2>3. expired = 0 /\ Cardinality(response_callback_map_) = 0 /\ Attempts = 0
    BY <2>1, <2>2
  <2>4. response_callback_map_ = {}
    BY <2>2, <2>3, FS_EmptySet
  <2> QED
    BY <2>3, <2>4 DEF Attempts
<1>8. CASE ExpiryEffect
  BY <1>8 DEF ExpiryEffect
<1>9. CASE ThreadEffect
  BY <1>9 DEF ThreadEffect
<1> QED
  BY <1>1, <1>2, <1>3, <1>4, <1>5, <1>6, <1>7, <1>8, <1>9, SessionStepKinds, Zenon

(* A step that ends a wait arms another, or makes its handler ready.       *)
LEMMA KeepAliveNotLostNext ==
  ASSUME TP!WriteInv, SessionType, KeepAliveNotLost, [Next]_vars
  PROVE  KeepAliveNotLost'
<1>0. armed \in Nat /\ expired \in Nat
  BY DEF SessionType
<1>1. CASE TimerEffect
  BY <1>0, <1>1 DEF TimerEffect, KeepAliveNotLost
<1>2. CASE ReadEffect
  <2>1. CASE armed' = 1 /\ expired' = expired
    BY <1>0, <2>1 DEF KeepAliveNotLost
  <2>2. CASE UNCHANGED <<session_id_, armed, expired, canceledAt>>
    BY <2>2 DEF KeepAliveNotLost
  <2> QED
    BY <1>2, <2>1, <2>2, Zenon DEF ReadEffect, Answers
<1>3. CASE CancelEffect
  BY <1>0, <1>3 DEF CancelEffect, KeepAliveNotLost
<1>4. CASE ExpiryEffect
  BY <1>0, <1>4 DEF ExpiryEffect, KeepAliveNotLost
<1>5. CASE \/ HandlerEffect \/ ConnectEffect \/ InitEffect \/ DisconnectEffect
           \/ ThreadEffect
  <2>1. UNCHANGED <<session_id_, armed, expired, canceledAt>>
    BY <1>5, Zenon DEF HandlerEffect, ConnectEffect, InitEffect,
       DisconnectEffect, ThreadEffect
  <2> QED
    BY <2>1 DEF KeepAliveNotLost
<1> QED
  BY <1>1, <1>2, <1>3, <1>4, <1>5, SessionStepKinds, Zenon

(* No step takes back an answer: an answered create stays answered.        *)
LEMMA AnswersStay ==
  ASSUME TP!WriteInv, SessionType, [Next]_vars,
         NEW t \in 1..Len(accepted), accepted[t] = CreateRequest, Answered(t)
  PROVE  /\ t \in 1..Len(accepted')
         /\ accepted'[t] = CreateRequest
         /\ Answered(t)'
<1>0. /\ accepted \in Seq(Request) /\ Len(accepted) \in Nat
      /\ t \in T!Range(wire) /\ t \notin response_callback_map_
  BY TransportTypes DEF Answered
<1>1. \/ accepted' = accepted
      \/ \E m \in Request : accepted' = Append(accepted, m)
  <2>1. CreateRequest \in Request
    BY DEF Request
  <2>2. session_id_ # NoSession => KeepAliveRequest(session_id_) \in Request
    BY DEF SessionType, Request
  <2> QED
    BY <2>1, <2>2, SessionStepKinds, Zenon DEF HandlerEffect, TimerEffect,
       ConnectEffect, ReadEffect, InitEffect, DisconnectEffect, CancelEffect,
       ExpiryEffect, ThreadEffect, Accepts
<1>2. t \in 1..Len(accepted') /\ accepted'[t] = CreateRequest
  BY <1>0, <1>1
<1>3. t \in T!Range(wire')
  BY <1>0, SessionStepKinds, Zenon DEF HandlerEffect, TimerEffect,
     ConnectEffect, ReadEffect, InitEffect, DisconnectEffect, CancelEffect,
     ExpiryEffect, ThreadEffect
<1>4. \/ response_callback_map_' \subseteq response_callback_map_
      \/ response_callback_map_' = response_callback_map_ \cup {Len(accepted) + 1}
  BY SessionStepKinds, Zenon DEF HandlerEffect, TimerEffect, ConnectEffect,
     ReadEffect, InitEffect, DisconnectEffect, CancelEffect, ExpiryEffect,
     ThreadEffect, Answers
<1>5. t # Len(accepted) + 1
  BY <1>0
<1>6. t \notin response_callback_map_'
  BY <1>0, <1>4, <1>5, Zenon
<1> QED
  BY <1>2, <1>3, <1>6 DEF Answered

(* Where a session id is known, it changes only with an answer.            *)
LEMMA SessionIdChange ==
  ASSUME TP!WriteInv, SessionType, [Next]_vars
  PROVE  \/ session_id_' = session_id_
         \/ /\ session_id_' \in SessionIds
            /\ \E t \in response_callback_map_ :
                 /\ t \in T!Range(wire)
                 /\ t \notin response_callback_map_'
                 /\ accepted[t] = CreateRequest
                 /\ accepted' = accepted /\ wire' = wire
<1>1. CASE ReadEffect
  BY <1>1, Zenon DEF ReadEffect, Answers
<1>2. CASE ~ReadEffect
  BY <1>2, SessionStepKinds, Zenon DEF HandlerEffect, TimerEffect,
     ConnectEffect, InitEffect, DisconnectEffect, CancelEffect, ExpiryEffect,
     ThreadEffect
<1> QED
  BY <1>1, <1>2

(* A session id that a step leaves in place has its create answered.       *)
LEMMA GrantedSessionNext ==
  ASSUME TP!WriteInv, SessionType, GrantedSession, [Next]_vars
  PROVE  GrantedSession'
<1>1. CASE session_id_' = session_id_
  <2> SUFFICES ASSUME session_id_ # NoSession
               PROVE  \E t \in 1..Len(accepted') :
                        accepted'[t] = CreateRequest /\ Answered(t)'
    BY <1>1 DEF GrantedSession
  <2>1. PICK t \in 1..Len(accepted) : accepted[t] = CreateRequest /\ Answered(t)
    BY DEF GrantedSession
  <2> QED
    BY <2>1, AnswersStay, Zenon
<1>2. ASSUME NEW t \in response_callback_map_, t \in T!Range(wire),
             t \notin response_callback_map_', accepted[t] = CreateRequest,
             accepted' = accepted, wire' = wire
      PROVE  GrantedSession'
  <2>1. t \in 1..Len(accepted')
    BY <1>2 DEF SessionType
  <2>2. accepted'[t] = CreateRequest /\ Answered(t)'
    BY <1>2 DEF Answered
  <2> QED
    BY <2>1, <2>2 DEF GrantedSession
<1> QED
  BY <1>1, <1>2, SessionIdChange, Zenon

(* A wait is armed, and a keep-alive accepted, only for a granted session. *)
LEMMA KeepAliveNext ==
  ASSUME TP!WriteInv, SessionType, KeepAliveNeedsSession, GrantedSession,
         [Next]_vars
  PROVE  KeepAliveNeedsSession'
<1>1. armed' + expired' > 0 => session_id_' # NoSession
  <2>0. /\ armed \in Nat /\ expired \in Nat
        /\ armed + expired > 0 => session_id_ # NoSession
        /\ NoSession \notin SessionIds
    BY SessionAssumption DEF SessionType, KeepAliveNeedsSession, NoSession
  <2>1. CASE TimerEffect
    BY <2>0, <2>1 DEF TimerEffect
  <2>2. CASE ReadEffect
    <3>1. CASE armed' = armed /\ expired' = expired /\ session_id_' = session_id_
      BY <2>0, <3>1
    <3>2. CASE session_id_' \in SessionIds
      BY <2>0, <3>2
    <3> QED
      BY <2>2, <3>1, <3>2, Zenon DEF ReadEffect, Answers
  <2>3. CASE CancelEffect
    BY <2>0, <2>3 DEF CancelEffect
  <2>4. CASE ExpiryEffect
    BY <2>0, <2>4 DEF ExpiryEffect
  <2>5. CASE \/ HandlerEffect \/ ConnectEffect \/ InitEffect \/ DisconnectEffect
             \/ ThreadEffect
    BY <2>0, <2>5 DEF HandlerEffect, ConnectEffect, InitEffect,
       DisconnectEffect, ThreadEffect
  <2> QED
    BY <2>1, <2>2, <2>3, <2>4, <2>5, SessionStepKinds, Zenon
<1>2. \A i \in DOMAIN accepted' :
        accepted'[i].janus = "keepalive" =>
          \E t \in 1..(i - 1) : accepted'[t] = CreateRequest /\ Answered(t)'
  <2>0. /\ accepted \in Seq(Request) /\ Len(accepted) \in Nat
        /\ DOMAIN accepted = 1..Len(accepted)
    BY TransportTypes
  <2>1. ASSUME NEW i \in 1..Len(accepted), accepted[i].janus = "keepalive"
        PROVE  \E t \in 1..(i - 1) : accepted'[t] = CreateRequest /\ Answered(t)'
    <3>1. PICK t \in 1..(i - 1) : accepted[t] = CreateRequest /\ Answered(t)
      BY <2>0, <2>1 DEF KeepAliveNeedsSession
    <3>2. t \in 1..Len(accepted)
      BY <2>0
    <3> QED
      BY <3>1, <3>2, AnswersStay, Zenon
  <2>2. CASE accepted' = accepted
    BY <2>0, <2>1, <2>2
  <2>3. CASE ConnectEffect
    <3>1. CreateRequest \in Request /\ CreateRequest.janus # "keepalive"
      BY DEF Request, CreateRequest
    <3>2. accepted' = Append(accepted, CreateRequest)
      BY <2>3 DEF ConnectEffect, Accepts
    <3> QED
      BY <2>0, <2>1, <3>1, <3>2
  <2>4. CASE /\ session_id_ # NoSession
             /\ accepted' = Append(accepted, KeepAliveRequest(session_id_))
    <3>1. KeepAliveRequest(session_id_) \in Request
      BY <2>4 DEF Request, SessionType
    <3>2. PICK t \in 1..Len(accepted) : accepted[t] = CreateRequest /\ Answered(t)
      BY <2>4 DEF GrantedSession
    <3>3. accepted'[t] = CreateRequest /\ Answered(t)'
      BY <3>2, AnswersStay, Zenon
    <3>4. \A i \in DOMAIN accepted' :
            \/ i \in 1..Len(accepted) /\ accepted'[i] = accepted[i]
            \/ i = Len(accepted) + 1
      BY <2>0, <2>4, <3>1
    <3>5. (Len(accepted) + 1) - 1 = Len(accepted)
      BY <2>0
    <3> QED
      BY <2>1, <3>2, <3>3, <3>4, <3>5, Zenon
  <2> QED
    BY <2>2, <2>3, <2>4, SessionStepKinds, Zenon DEF HandlerEffect, TimerEffect,
       ReadEffect, InitEffect, DisconnectEffect, CancelEffect, ExpiryEffect,
       ThreadEffect, Accepts
<1> QED
  BY <1>1, <1>2 DEF KeepAliveNeedsSession

-----------------------------------------------------------------------------
(* The invariant holds of the constructed session.                         *)
LEMMA SessionInvInit ==
  ASSUME Init
  PROVE  SessionInv
<1>1. TP!Init
  BY Zenon DEF Init, T!Init, TP!Init
<1>2. TP!WriteInv
  BY <1>1, TransportConstants, TP!WriteInvInit
<1>3. /\ connects = 0 /\ accepted = <<>> /\ posted = <<>> /\ wire = <<>>
      /\ chain = "idle"
  BY <1>1, Zenon DEF TP!Init
<1>4. SessionType
  BY <1>3 DEF Init, SessionType, MainSteps
<1>5. BudgetInv
  <2>1. Cardinality({}) = 0 /\ IsFiniteSet({})
    BY FS_EmptySet
  <2> QED
    BY <1>3, <2>1, SessionAssumption DEF Init, BudgetInv, ChainBudget,
       SendBudget, PostBudget, Attempts, Closes
<1>6. MainProgress /\ NoChainLeft /\ KeepAliveNotLost /\ GrantedSession
  BY <1>3 DEF Init, MainProgress, NoChainLeft, KeepAliveNotLost, GrantedSession
<1>7. KeepAliveNeedsSession
  BY <1>3 DEF Init, KeepAliveNeedsSession
<1> QED
  BY <1>2, <1>4, <1>5, <1>6, <1>7 DEF SessionInv

(* Every step keeps it.                                                    *)
LEMMA SessionInvNext ==
  ASSUME SessionInv, [Next]_vars
  PROVE  SessionInv'
<1>1. /\ TP!WriteInv /\ SessionType /\ ChainBudget /\ SendBudget /\ PostBudget
      /\ MainProgress /\ KeepAliveNeedsSession /\ GrantedSession /\ NoChainLeft
      /\ KeepAliveNotLost /\ BudgetInv
  BY Zenon DEF SessionInv, BudgetInv
<1>2. TP!WriteInv'
  BY <1>1, TransportStep, TransportConstants, TP!WriteInvNext
<1>3. BudgetInv'
  BY <1>1, <1>2, ChainBudgetNext, SendBudgetNext, PostBudgetNext, Zenon DEF BudgetInv
<1> QED
  BY <1>1, <1>2, <1>3, SessionTypeNext, MainNext, KeepAliveNext,
     GrantedSessionNext, NoChainLeftNext, KeepAliveNotLostNext, Zenon
     DEF SessionInv

(* SessionInv holds of every reachable state.                              *)
LEMMA SessionInvHolds == SafetySpec => []SessionInv
BY SessionInvInit, SessionInvNext, PTL DEF SafetySpec

(* The members of the session and of its transport keep their types, and   *)
(* every callback in response_callback_map_ is that of an accepted request. *)
THEOREM SessionTypes == SafetySpec => []TypeOK
<1>1. SessionInv => TypeOK
  BY DEF SessionInv, SessionType, TypeOK, TP!WriteInv, TP!TypeOK, T!TypeOK,
     TP!Statuses, T!Statuses, TP!Chains, T!Chains
<1> QED
  BY <1>1, SessionInvHolds, PTL

(* JanusSession uses its transport as an owner of WebsocketTransport may:  *)
(* the specification of the transport, with the session's bounds, holds of *)
(* the transport inside the session.                                       *)
THEOREM SessionDrivesTransport == SafetySpec => TP!SafetySpec
<1>1. Init => TP!Init
  BY Zenon DEF Init, T!Init, TP!Init
<1>2. SessionInv /\ [Next]_vars => [TP!Next]_(TP!vars)
  BY TransportStep, Zenon DEF SessionInv
<1> QED
  BY <1>1, <1>2, SessionInvHolds, PTL DEF SafetySpec, TP!SafetySpec

(* So the requests of a session reach the wire in the order SendMsg took   *)
(* them, and none is lost on the way to the write queue.                   *)
THEOREM SessionSendsInOrder ==
  SafetySpec => [](TP!WireInOrder /\ TP!NothingForgotten)
BY SessionDrivesTransport, TransportConstants, TP!SendOrder, TP!SendComplete, PTL

(* The keep-alive timer runs only for a session that the server granted in *)
(* an answer to a create that was written, and KeepAlive never starts more *)
(* chains than Init was called.                                            *)
THEOREM KeepAliveOnlyWhenGranted == SafetySpec => []KeepAliveDiscipline
<1>1. SessionInv => KeepAliveDiscipline
  <2> SUFFICES ASSUME SessionInv PROVE OneKeepAliveChain
    BY DEF SessionInv, KeepAliveDiscipline
  <2>1. TP!WriteInv /\ SessionType /\ ChainBudget
    BY DEF SessionInv, BudgetInv
  <2>2. Cardinality(response_callback_map_) \in Nat /\ Attempts \in {0, 1}
    BY <2>1, CallbackCount DEF Attempts
  <2>3. armed \in Nat /\ expired \in Nat /\ connects \in Nat
    BY <2>1, TransportTypes DEF SessionType
  <2> QED
    BY <2>1, <2>2, <2>3 DEF ChainBudget, OneKeepAliveChain
<1> QED
  BY <1>1, SessionInvHolds, PTL

(* Destory stops the keep-alives when it finds the wait of the only Init   *)
(* pending: nothing that could arm the timer again is under way then.      *)
THEOREM DestoryEndsKeepAlive == SafetySpec => []DestoryStopsKeepAlive
<1>1. SessionInv => DestoryStopsKeepAlive
  BY DEF SessionInv, NoChainLeft, DestoryStopsKeepAlive
<1> QED
  BY <1>1, SessionInvHolds, PTL

(* A granted session is kept alive until a Destory that comes before the   *)
(* wait expires: KeepAlive, from a second grant or from the timer's own    *)
(* handler, never cancels the last wait without arming another.            *)
THEOREM KeepAliveIsNotLost == SafetySpec => []KeepAliveNotLost
<1>1. SessionInv => KeepAliveNotLost
  BY DEF SessionInv
<1> QED
  BY <1>1, SessionInvHolds, PTL

(* OnMsg gives session_id_ a new value only with the first answer to a     *)
(* create request that was written.                                        *)
THEOREM SessionIdOncePerCreate == SafetySpec => OneAnswerPerCreate
<1>1. SessionInv /\ [Next]_vars =>
        [session_id_' # session_id_ =>
           \E t \in T!Range(wire) :
             /\ accepted[t] = CreateRequest
             /\ t \in response_callback_map_
             /\ t \notin response_callback_map_']_vars
  BY SessionIdChange, Zenon DEF SessionInv
<1> QED
  BY <1>1, SessionInvHolds, PTL DEF SafetySpec, OneAnswerPerCreate
=============================================================================
