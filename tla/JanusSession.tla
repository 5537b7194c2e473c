---------------------------- MODULE JanusSession ----------------------------
(***************************************************************************)
(* The Janus client session, class JanusSession (11_rtc_janus/             *)
(* janus_session.{h,cc}), with the program that uses it (11_rtc_janus/     *)
(* main.cc), on top of the transport of WebsocketTransport.                *)
(*                                                                         *)
(* Two threads: main constructs the session, calls Init, sleeps, calls     *)
(* Destory and waits for ever; the io thread runs ioc_.run().  Every       *)
(* handler of the transport and of the keep-alive timer runs on the io     *)
(* thread.  Destory runs on main, so it interleaves with the handlers.     *)
(*                                                                         *)
(* The session and the transport share their variables: T is the transport *)
(* whose messages are the session's requests.                              *)
(***************************************************************************)
EXTENDS Integers, Sequences

CONSTANTS
  SessionIds,      \* the ids the server may assign
  NoMsg,
  MaxInits,        \* bound: calls of Init (main.cc makes one)
  MaxSends,        \* bound: messages accepted, that is the length of a behaviour
  RunsDestructor,  \* the owner deletes the session (main.cc never gets there)
  ServerKinds      \* what the server may send: see Incoming

ASSUME SessionAssumption ==
  /\ SessionIds \subseteq Nat
  /\ MaxInits \in Nat /\ MaxSends \in Nat
  /\ RunsDestructor \in BOOLEAN
  /\ ServerKinds \subseteq {"success", "error", "ack", "event", "garbage"}

VARIABLES
  connected_, send_msg_queue_, status, chain, reading, inflight, closing,
  posted, connects, accepted, wire, writeFailed,   \* the transport
  io,                      \* the io thread: "starting", "running", "returned";
                           \* "terminated" once an exception has left a handler
  stopped,                 \* ioc_ is stopped: run() returns and runs nothing again
  session_id_,             \* member
  response_callback_map_,  \* member: the transactions that have a callback
  armed,                   \* waits pending on keep_alive_timer_
  expired,                 \* waits that expired and whose handler has not run
  aborted,                 \* cancelled waits whose handler has not run
  pc,                      \* what the main thread does next
  canceledAt,              \* history: the waits when Destory cancelled the timer
  found                    \* history: what Destory's Disconnect found

transportVars == <<connected_, send_msg_queue_, status, chain, reading,
                   inflight, closing, posted, connects, accepted, wire,
                   writeFailed>>
timerVars   == <<armed, expired, aborted>>
sessionVars == <<session_id_, response_callback_map_>>
historyVars == <<canceledAt, found>>
mainVars    == <<pc, historyVars>>
vars == <<transportVars, io, stopped, sessionVars, timerVars, mainVars>>

NoSession == 0 - 1

(* A transaction id is a fresh random string: it is identified by the      *)
(* position its request gets in accepted.                                  *)
CreateRequest       == [janus |-> "create", session_id |-> NoSession]
KeepAliveRequest(s) == [janus |-> "keepalive", session_id |-> s]
Request == {CreateRequest} \cup {KeepAliveRequest(s) : s \in SessionIds}

ASSUME NoMsgAssumption == NoMsg \notin Request

T == INSTANCE WebsocketTransport
       WITH Msg <- Request, MaxConnects <- MaxInits,
            MaxSends <- MaxSends + 2 * MaxInits,
            MaxPosted <- MaxSends + 2 * MaxInits + 3

MainSteps == {"init", "sleep", "disconnect", "wait", "cancel", "disconnect2",
              "stop", "join", "free", "ioc", "freed"}

TypeOK ==
  /\ T!TypeOK
  /\ io \in {"starting", "running", "returned", "terminated"}
  /\ stopped \in BOOLEAN
  /\ session_id_ \in SessionIds \cup {NoSession}
  /\ response_callback_map_ \subseteq 1..Len(accepted)
  /\ armed \in Nat /\ expired \in Nat /\ aborted \in Nat
  /\ pc \in MainSteps
  /\ canceledAt \in {"none", "armed", "expired", "unarmed"}
  /\ found \in {"none", "connecting", "settled"}

(* The constructor: the transport and the timer exist, and the io thread   *)
(* has been created.                                                       *)
Init ==
  /\ T!Init
  /\ io = "starting"
  /\ stopped = FALSE
  /\ session_id_ = NoSession
  /\ response_callback_map_ = {}
  /\ armed = 0 /\ expired = 0 /\ aborted = 0
  /\ pc = "init"
  /\ canceledAt = "none" /\ found = "none"

-----------------------------------------------------------------------------
(* ioc_ and the io thread.                                                 *)

(* Work that keeps run() from returning.                                   *)
OutOfWork ==
  /\ chain = "idle" /\ reading = 0 /\ inflight = <<>> /\ ~closing
  /\ posted = <<>>
  /\ armed = 0 /\ expired = 0 /\ aborted = 0

IoStart ==
  /\ io = "starting"
  /\ io' = "running"
  /\ UNCHANGED <<transportVars, stopped, sessionVars, timerVars, mainVars>>

(* run() returns when ioc_ is stopped, and stops it when there is no work. *)
IoReturn ==
  /\ io = "running"
  /\ OutOfWork \/ stopped
  /\ io' = "returned"
  /\ stopped' = TRUE
  /\ UNCHANGED <<transportVars, sessionVars, timerVars, mainVars>>

(* The io thread runs a handler.                                           *)
Runs == io = "running" /\ ~stopped

-----------------------------------------------------------------------------
(* KeepAlive: expires_from_now cancels the waits pending on the timer,     *)
(* async_wait adds one.  A wait that has expired is not cancelled any more. *)
KeepAliveStacked(fired) ==
  /\ armed' = armed + 1
  /\ expired' = expired - fired
  /\ UNCHANGED aborted

KeepAlive(fired) ==
  /\ armed' = 1
  /\ aborted' = aborted + armed
  /\ expired' = expired - fired

(* The time of the wait has come and run() makes its handler ready.  The   *)
(* bound on messages bounds the number of periods.                         *)
TimerExpires ==
  /\ Runs /\ armed > 0 /\ Len(accepted) < MaxSends
  /\ armed' = armed - 1
  /\ expired' = expired + 1
  /\ UNCHANGED <<transportVars, io, stopped, sessionVars, aborted, mainVars>>

(* DoKeepAlive builds no request before there is a session.                *)
KeepAliveMsg ==
  IF session_id_ = NoSession THEN NoMsg ELSE KeepAliveRequest(session_id_)

OnKeepAliveTimerOnce ==
  /\ Runs /\ expired > 0 /\ T!StrandFree
  /\ T!Send(KeepAliveMsg)
  /\ expired' = expired - 1
  /\ UNCHANGED <<io, stopped, sessionVars, armed, aborted, mainVars>>

(* The handler of an expired wait: DoKeepAlive, then KeepAlive.            *)
OnKeepAliveTimer ==
  /\ Runs /\ expired > 0 /\ T!StrandFree
  /\ T!Send(KeepAliveMsg)
  /\ KeepAlive(1)
  /\ UNCHANGED <<io, stopped, sessionVars, mainVars>>

(* The handler of a cancelled wait returns at once.                        *)
OnKeepAliveAborted ==
  /\ Runs /\ aborted > 0 /\ T!StrandFree
  /\ aborted' = aborted - 1
  /\ UNCHANGED <<transportVars, io, stopped, sessionVars, armed, expired,
                 mainVars>>

-----------------------------------------------------------------------------
(* The callbacks of the transport.                                         *)

(* OnConnect registers the callback of a new transaction and sends create. *)
OnConnect ==
  /\ Runs
  /\ T!OnHandshake(FALSE, CreateRequest)
  /\ response_callback_map_' =
       response_callback_map_ \cup {Len(accepted) + 1}
  /\ UNCHANGED <<io, stopped, session_id_, timerVars, mainVars>>

(* What the server may answer: a response to a request it has received     *)
(* ("success" and "error" answer a create, "ack" any request), an "event"  *)
(* without a transaction, or text that is not JSON ("garbage").            *)
Incoming ==
  [janus : {"success"}, transaction : T!Range(wire), id : SessionIds]
  \cup [janus : {"error", "ack"}, transaction : T!Range(wire)]
  \cup [janus : {"event", "garbage"}]

Allowed(msg) ==
  /\ msg.janus \in ServerKinds
  /\ msg.janus \in {"success", "error"} =>
       accepted[msg.transaction] = CreateRequest

(* The callback of the create request.                                     *)
OnCreateResponse(msg) ==
  IF msg.janus = "success"
  THEN session_id_' = msg.id /\ KeepAlive(0)
  ELSE UNCHANGED <<session_id_, timerVars>>

(* The callbacks that are left once the callback of tsd is taken out.      *)
WithoutErase(map, tsd) == map
Without(map, tsd)      == map \ {tsd}

OnMsg(msg) ==
  IF msg.janus # "event" /\ msg.transaction \in response_callback_map_
  THEN /\ response_callback_map_' =
            Without(response_callback_map_, msg.transaction)
       /\ OnCreateResponse(msg)
  ELSE UNCHANGED <<sessionVars, timerVars>>

OnRead ==
  /\ Runs
  /\ \E msg \in Incoming :
       /\ Allowed(msg)
       /\ msg.janus # "garbage"
       /\ T!OnRead(FALSE, NoMsg)
       /\ OnMsg(msg)
  /\ UNCHANGED <<io, stopped, mainVars>>

(* json::parse throws, nothing catches it, and run() leaves the thread:    *)
(* the process terminates.                                                 *)
OnReadGarbage ==
  /\ Runs /\ reading > 0 /\ T!StrandFree /\ status # "closed"
  /\ "garbage" \in ServerKinds
  /\ io' = "terminated"
  /\ UNCHANGED <<transportVars, stopped, sessionVars, timerVars, mainVars>>

(* The io thread runs a handler in which the session takes no part.        *)
Handles(A) ==
  /\ Runs
  /\ A
  /\ UNCHANGED <<io, stopped, sessionVars, timerVars, mainVars>>

TransportHandler ==
  \/ \E ec \in BOOLEAN : \/ Handles(T!OnResolve(ec))
                         \/ Handles(T!OnConnect(ec))
                         \/ Handles(T!OnWrite(ec))
                         \/ Handles(T!OnClose(ec))
  \/ Handles(T!OnHandshake(TRUE, NoMsg))
  \/ Handles(T!OnRead(TRUE, NoMsg))
  \/ Handles(T!HandshakeDone)
  \/ Handles(T!SendDataInner)
  \/ Handles(T!DisconnectTask)

-----------------------------------------------------------------------------
(* The main thread.                                                        *)

Alive == io # "terminated"

CallInit ==
  /\ Alive
  /\ pc \in {"init", "sleep"}
  /\ T!Connect
  /\ pc' = "sleep"
  /\ UNCHANGED <<io, stopped, sessionVars, timerVars, historyVars>>

CancelTimerLeft ==
  /\ Alive
  /\ pc \in {"sleep", "cancel"}
  /\ pc' = IF pc = "sleep" THEN "disconnect" ELSE "disconnect2"
  /\ canceledAt' = IF armed > 0 THEN "armed"
                   ELSE IF expired > 0 THEN "expired" ELSE "unarmed"
  /\ UNCHANGED <<transportVars, io, stopped, sessionVars, timerVars, found>>

(* First half of Destory: cancel the timer.  A wait that has expired, or   *)
(* one that a later KeepAlive adds, is not affected.                       *)
CancelTimer ==
  /\ Alive
  /\ pc \in {"sleep", "cancel"}
  /\ pc' = IF pc = "sleep" THEN "disconnect" ELSE "disconnect2"
  /\ armed' = 0
  /\ aborted' = aborted + armed
  /\ canceledAt' = IF armed > 0 THEN "armed"
                   ELSE IF expired > 0 THEN "expired" ELSE "unarmed"
  /\ UNCHANGED <<transportVars, io, stopped, sessionVars, expired, found>>

(* Second half of Destory.                                                 *)
CallDisconnect ==
  /\ Alive
  /\ pc \in {"disconnect", "disconnect2"}
  /\ T!Disconnect
  /\ pc' = IF pc = "disconnect" THEN "wait" ELSE "stop"
  /\ found' = IF chain = "idle" THEN "settled" ELSE "connecting"
  /\ UNCHANGED <<io, stopped, sessionVars, timerVars, canceledAt>>

(* ~JanusSession calls Destory again, stops ioc_ and joins the io thread;  *)
(* then the members are destroyed.                                         *)
Delete ==
  /\ Alive /\ RunsDestructor
  /\ pc = "wait"
  /\ pc' = "cancel"
  /\ UNCHANGED <<transportVars, io, stopped, sessionVars, timerVars,
                 historyVars>>

StopIocSkipped ==
  /\ Alive
  /\ pc = "stop"
  /\ pc' = "join"
  /\ UNCHANGED <<transportVars, io, stopped, sessionVars, timerVars,
                 historyVars>>

StopIoc ==
  /\ Alive
  /\ pc = "stop"
  /\ stopped' = TRUE
  /\ pc' = "join"
  /\ UNCHANGED <<transportVars, io, sessionVars, timerVars, historyVars>>

Join ==
  /\ Alive
  /\ pc = "join"
  /\ io = "returned"
  /\ pc' = "free"
  /\ UNCHANGED <<transportVars, io, stopped, sessionVars, timerVars,
                 historyVars>>

(* The members go in reverse order.  ws_ is released while ioc_ exists:    *)
(* unless handlers hold the transport its destructor runs, and calls       *)
(* Disconnect.                                                             *)
Free ==
  /\ Alive
  /\ pc = "free"
  /\ IF T!Held THEN UNCHANGED transportVars ELSE T!Disconnect
  /\ pc' = "ioc"
  /\ UNCHANGED <<io, stopped, sessionVars, timerVars, historyVars>>

(* ~io_context destroys the handlers without running them, and with the    *)
(* last of them a transport they held.  What its Disconnect posts is       *)
(* destroyed as well.                                                      *)
FreeIoc ==
  /\ Alive
  /\ pc = "ioc"
  /\ IF T!Held THEN T!Disconnect ELSE UNCHANGED transportVars
  /\ pc' = "freed"
  /\ UNCHANGED <<io, stopped, sessionVars, timerVars, historyVars>>

-----------------------------------------------------------------------------
IoThread ==
  \/ IoStart
  \/ IoReturn
  \/ TimerExpires
  \/ OnKeepAliveTimer
  \/ OnKeepAliveAborted
  \/ OnConnect
  \/ OnRead
  \/ OnReadGarbage
  \/ TransportHandler

MainThread ==
  \/ CallInit
  \/ CancelTimer
  \/ CallDisconnect
  \/ Delete
  \/ StopIoc
  \/ Join
  \/ Free
  \/ FreeIoc

Next == IoThread \/ MainThread

SafetySpec == Init /\ [][Next]_vars

(* Both threads keep running: main's sleep ends, and run() runs what is    *)
(* ready.  The handlers of the transport are fair as in WebsocketTransport; *)
(* the server owes no message, so OnRead of a message is not fair.  A      *)
(* second Init, and what the owner does after Destory, are not owed.       *)
Fairness ==
  /\ WF_vars(IoStart) /\ WF_vars(IoReturn)
  /\ WF_vars(TimerExpires) /\ WF_vars(OnKeepAliveTimer)
  /\ WF_vars(OnKeepAliveAborted)
  /\ WF_vars(\E ec \in BOOLEAN : Handles(T!OnResolve(ec)))
  /\ WF_vars(\E ec \in BOOLEAN : Handles(T!OnConnect(ec)))
  /\ WF_vars(\/ Handles(T!HandshakeDone) \/ Handles(T!OnHandshake(TRUE, NoMsg))
             \/ OnConnect)
  /\ WF_vars(status = "closed" /\ Handles(T!OnRead(TRUE, NoMsg)))
  /\ WF_vars(\E ec \in BOOLEAN : Handles(T!OnWrite(ec)))
  /\ WF_vars(Handles(T!SendDataInner))
  /\ WF_vars(Handles(T!DisconnectTask))
  /\ WF_vars(\E ec \in BOOLEAN : Handles(T!OnClose(ec)))
  /\ WF_vars(pc = "init" /\ CallInit)
  /\ WF_vars(CancelTimer) /\ WF_vars(CallDisconnect)
  /\ WF_vars(StopIoc) /\ WF_vars(Join) /\ WF_vars(Free) /\ WF_vars(FreeIoc)

Spec == SafetySpec /\ Fairness

-----------------------------------------------------------------------------
(* Properties.                                                             *)

(* OnMsg takes the callback out of response_callback_map_ before it calls  *)
(* it: session_id_ changes only with the first answer to a create request  *)
(* that reached the server; a repeated or late answer changes nothing.     *)
OneAnswerPerCreate ==
  [][session_id_' # session_id_ =>
       \E t \in T!Range(wire) :
         /\ accepted[t] = CreateRequest
         /\ t \in response_callback_map_
         /\ t \notin response_callback_map_']_vars

(* The keep-alive timer runs, and keep-alives are sent, only for a session *)
(* the server has granted: every keep-alive was accepted after a create    *)
(* that was written and answered.                                          *)
Answered(t) == t \in T!Range(wire) /\ t \notin response_callback_map_

KeepAliveNeedsSession ==
  /\ armed + expired > 0 => session_id_ # NoSession
  /\ \A i \in DOMAIN accepted :
       accepted[i].janus = "keepalive" =>
         \E t \in 1..(i - 1) : accepted[t] = CreateRequest /\ Answered(t)

(* Keep-alive chains do not multiply: KeepAlive re-arms the one timer, so  *)
(* at most one wait is pending, and there are at most as many live chains  *)
(* as calls of Init, though every granted session starts one.              *)
OneKeepAliveChain == armed <= 1 /\ armed + expired <= connects

(* The keep-alive timer: for granted sessions only, and one chain.         *)
KeepAliveDiscipline == KeepAliveNeedsSession /\ OneKeepAliveChain

(* Destory stops the keep-alive chain when it finds the wait pending.  It  *)
(* does not when the wait has expired already or is armed later, by the    *)
(* answer to a create that was under way: after a single Init there is no  *)
(* such create while a wait is pending.                                    *)
DestoryStopsKeepAlive ==
  canceledAt = "armed" /\ connects = 1 => armed + expired = 0

(* A granted session is kept alive: from the grant on a wait is pending or *)
(* its handler ready, until Destory, although a second grant cancels the   *)
(* wait that is pending and the handler of a cancelled wait ends its       *)
(* chain.  A Destory that comes when the wait has expired does not end it: *)
(* the handler goes on re-arming.                                          *)
KeepAliveNotLost ==
  session_id_ # NoSession /\ canceledAt \in {"none", "expired"}
    => armed + expired > 0

(* After a Destory that cancelled the pending wait the io thread drains:   *)
(* the close, the loss of the stream and the last writes all complete, and *)
(* run() returns.                                                          *)
DestoryDrains ==
  (canceledAt = "armed" /\ pc = "wait" /\ connects = 1) ~> io \in {"returned", "terminated"}

(* A Destory ends the connection, whatever it has to do for that, unless   *)
(* it comes while an attempt is under way: then Disconnect finds the       *)
(* stream closed and does nothing, and the attempt goes on.                *)
DestoryDisconnects ==
  (pc = "wait" /\ found = "settled")
    ~> (~connected_ \/ pc # "wait" \/ io = "terminated")

(* The destructor returns: stop() makes run() return, whatever is still    *)
(* outstanding, and join() does not wait for ever.                         *)
DestructorReturns == pc = "cancel" ~> (pc = "freed" \/ io = "terminated")

(* "must after create ws", says the constructor of the step that starts    *)
(* the io thread: run() finds work then.  So the resolve that Init starts  *)
(* is handled.                                                             *)
ResolveIsHandled == chain = "resolve" ~> chain # "resolve"
=============================================================================
