------------------------- MODULE WebsocketTransport -------------------------
(***************************************************************************)
(* The websocket transport of the Janus client, class WebsocketTransport   *)
(* (11_rtc_janus/websocket_transport.{h,cc}).                              *)
(*                                                                         *)
(* The class owns a Beast websocket stream.  Its owner calls Connect,      *)
(* Disconnect and SendMsg; everything else is a completion handler that    *)
(* the io thread runs, one at a time, on the strand of the stream.  The    *)
(* members connected_ and send_msg_queue_ keep their names.  What Boost    *)
(* keeps for the class (the status of the stream, the operations that are  *)
(* outstanding, the tasks posted to the strand) is external and is         *)
(* modelled by how the class uses it.                                      *)
(*                                                                         *)
(* SendMsg allocates one shared buffer per message, so a buffer is         *)
(* identified by the position of its message in the history accepted; the  *)
(* posted tasks, the queue and the writes in flight hold such positions.   *)
(***************************************************************************)
EXTENDS Naturals, Sequences

CONSTANTS
  Msg,          \* what the owner may hand to SendMsg
  NoMsg,        \* a callback that sends nothing
  MaxConnects,  \* bound: calls of Connect in a behaviour
  MaxSends,     \* bound: messages accepted in a behaviour
  MaxPosted     \* bound: tasks waiting on the strand when Disconnect is called

ASSUME TransportAssumption ==
  /\ NoMsg \notin Msg
  /\ MaxConnects \in Nat
  /\ MaxSends \in Nat
  /\ MaxPosted \in Nat

VARIABLES
  connected_,       \* member: set by OnHandshake, cleared by OnRead, OnWrite, OnClose
  send_msg_queue_,  \* member: buffers waiting to be written, the one in flight first
  status,           \* ws_: "closed", "open" or "closing"; is_open() is status = "open"
  chain,            \* the outstanding step of the connect chain, "idle" when there is none
  reading,          \* number of outstanding async_read operations
  inflight,         \* buffers handed to async_write and not completed
  closing,          \* an async_close is outstanding
  posted,           \* tasks posted to the strand: a buffer (SendDataInner) or CloseTask
  connects,         \* calls of Connect so far
  accepted,         \* history: messages SendMsg accepted, in order
  wire,             \* history: buffers whose async_write completed, in order
  writeFailed       \* history: some OnWrite saw an error

streamVars == <<status, chain, reading, inflight, closing>>
vars == <<connected_, send_msg_queue_, streamVars, posted, connects,
          accepted, wire, writeFailed>>

CloseTask == 0

Range(s) == {s[i] : i \in DOMAIN s}

Statuses == {"closed", "open", "closing"}
Chains   == {"idle", "resolve", "connect", "handshake"}

TypeOK ==
  /\ connected_ \in BOOLEAN
  /\ send_msg_queue_ \in Seq(Nat)
  /\ status \in Statuses
  /\ chain \in Chains
  /\ reading \in Nat
  /\ inflight \in Seq(Nat)
  /\ closing \in BOOLEAN
  /\ posted \in Seq(Nat)
  /\ connects \in Nat
  /\ accepted \in Seq(Msg)
  /\ wire \in Seq(Nat)
  /\ writeFailed \in BOOLEAN

Init ==
  /\ connected_ = FALSE
  /\ send_msg_queue_ = <<>>
  /\ status = "closed"
  /\ chain = "idle"
  /\ reading = 0
  /\ inflight = <<>>
  /\ closing = FALSE
  /\ posted = <<>>
  /\ connects = 0
  /\ accepted = <<>>
  /\ wire = <<>>
  /\ writeFailed = FALSE

-----------------------------------------------------------------------------
(* Calls of the owner.                                                     *)

(* SendMsg called where connected_ has the value conn: a message is       *)
(* dropped with a warning when it is false, else its buffer is posted.     *)
SendMsgEmpty(conn, m) ==
  IF conn
  THEN /\ accepted' = Append(accepted, m)
       /\ posted' = Append(posted, Len(accepted) + 1)
  ELSE UNCHANGED <<accepted, posted>>

SendMsg(conn, m) ==
  IF conn /\ m # NoMsg
  THEN /\ accepted' = Append(accepted, m)
       /\ posted' = Append(posted, Len(accepted) + 1)
  ELSE UNCHANGED <<accepted, posted>>

(* A call of SendMsg from outside the transport's own handlers.            *)
Send(m) ==
  /\ SendMsg(connected_, m)
  /\ UNCHANGED <<connected_, send_msg_queue_, streamVars, connects, wire,
                 writeFailed>>

(* A caller has one attempt outstanding at a time: Beast allows one        *)
(* connect per stream, and Connect itself checks only connected_.          *)
Connect ==
  /\ connects < MaxConnects
  /\ chain = "idle"
  /\ connects' = connects + 1
  /\ chain' = IF connected_ THEN chain ELSE "resolve"
  /\ UNCHANGED <<connected_, send_msg_queue_, status, reading, inflight,
                 closing, posted, accepted, wire, writeFailed>>

(* is_open() is tested by the caller and again by the posted task.         *)
Disconnect ==
  /\ posted' = IF status = "open" THEN Append(posted, CloseTask) ELSE posted
  /\ UNCHANGED <<connected_, send_msg_queue_, streamVars, connects, accepted,
                 wire, writeFailed>>

(* Some handler that is outstanding holds a shared_ptr to the transport.   *)
(* The task of Disconnect does not: it has a bare pointer.                 *)
Held ==
  \/ chain # "idle" \/ reading > 0 \/ inflight # <<>> \/ closing
  \/ \E i \in DOMAIN posted : posted[i] # CloseTask

-----------------------------------------------------------------------------
(* The connect chain.  ec is TRUE when the operation completed with an     *)
(* error, the 30 s limits of connect and handshake included.               *)

OnResolve(ec) ==
  /\ chain = "resolve"
  /\ chain' = IF ec THEN "idle" ELSE "connect"
  /\ UNCHANGED <<connected_, send_msg_queue_, status, reading, inflight,
                 closing, posted, connects, accepted, wire, writeFailed>>

OnConnectRetry(ec) ==
  /\ chain = "connect"
  /\ chain' = IF ec THEN "resolve" ELSE "handshake"
  /\ UNCHANGED <<connected_, send_msg_queue_, status, reading, inflight,
                 closing, posted, connects, accepted, wire, writeFailed>>

OnConnect(ec) ==
  /\ chain = "connect"
  /\ chain' = IF ec THEN "idle" ELSE "handshake"
  /\ UNCHANGED <<connected_, send_msg_queue_, status, reading, inflight,
                 closing, posted, connects, accepted, wire, writeFailed>>

(* Beast opens the stream before it runs the handler.  Connecting again    *)
(* has closed the old socket, and what was outstanding on it has drained.  *)
HandshakeDone ==
  /\ chain = "handshake"
  /\ status = "closed" /\ reading = 0 /\ inflight = <<>> /\ ~closing
  /\ status' = "open"
  /\ UNCHANGED <<connected_, send_msg_queue_, chain, reading, inflight,
                 closing, posted, connects, accepted, wire, writeFailed>>

(* The strand runs OnHandshake next once the stream is open.               *)
StrandFree == ~(chain = "handshake" /\ status = "open")

(* The connect callback runs inside the handler and sends m.               *)
OnHandshake(ec, m) ==
  /\ chain = "handshake"
  /\ chain' = "idle"
  /\ \/ /\ ec /\ status = "closed"
        /\ UNCHANGED <<connected_, reading, accepted, posted>>
     \/ /\ ~ec /\ status = "open"
        /\ connected_' = TRUE
        /\ SendMsg(TRUE, m)
        /\ reading' = reading + 1
  /\ UNCHANGED <<send_msg_queue_, status, inflight, closing, connects, wire,
                 writeFailed>>

-----------------------------------------------------------------------------
(* Reading.  The message callback runs inside the handler and sends m;     *)
(* then DoRead starts the next read.                                       *)

OnReadKeepsFlag(ec, m) ==
  /\ reading > 0 /\ StrandFree
  /\ \/ /\ ec
        /\ status' = "closed"
        /\ reading' = reading - 1
        /\ UNCHANGED <<connected_, accepted, posted>>
     \/ /\ ~ec /\ status # "closed"
        /\ SendMsg(connected_, m)
        /\ UNCHANGED <<connected_, status, reading>>
  /\ UNCHANGED <<send_msg_queue_, chain, inflight, closing, connects, wire,
                 writeFailed>>

OnReadOnce(ec, m) ==
  /\ reading > 0 /\ StrandFree
  /\ reading' = reading - 1
  /\ \/ /\ ec
        /\ connected_' = FALSE
        /\ status' = "closed"
        /\ UNCHANGED <<accepted, posted>>
     \/ /\ ~ec /\ status # "closed"
        /\ SendMsg(connected_, m)
        /\ UNCHANGED <<connected_, status>>
  /\ UNCHANGED <<send_msg_queue_, chain, inflight, closing, connects, wire,
                 writeFailed>>

OnRead(ec, m) ==
  /\ reading > 0 /\ StrandFree
  /\ \/ /\ ec
        /\ connected_' = FALSE
        /\ status' = "closed"
        /\ reading' = reading - 1
        /\ UNCHANGED <<accepted, posted>>
     \/ /\ ~ec /\ status # "closed"
        /\ SendMsg(connected_, m)
        /\ UNCHANGED <<connected_, status, reading>>
  /\ UNCHANGED <<send_msg_queue_, chain, inflight, closing, connects, wire,
                 writeFailed>>

-----------------------------------------------------------------------------
(* Writing.  async_write takes the front of the queue by reference.        *)

WriteOnEveryPush(q) == TRUE
WriteOnPush(q)      == Len(q) <= 1

PushFront(q, d) == <<d>> \o q
Push(q, d)      == Append(q, d)

(* The posted task of SendMsg: push, and write unless a write is under way. *)
SendDataInner ==
  /\ posted # <<>> /\ StrandFree
  /\ Head(posted) # CloseTask
  /\ posted' = Tail(posted)
  /\ send_msg_queue_' = Push(send_msg_queue_, Head(posted))
  /\ inflight' = IF WriteOnPush(send_msg_queue_')
                 THEN Append(inflight, Head(send_msg_queue_')) ELSE inflight
  /\ UNCHANGED <<connected_, status, chain, reading, closing, connects,
                 accepted, wire, writeFailed>>

(* What OnWrite writes next once the front is erased.                      *)
NextWriteNone(q) == <<>>
NextWriteLast(q) == IF q # <<>> THEN <<q[Len(q)]>> ELSE <<>>
NextWrite(q)     == IF q # <<>> THEN <<Head(q)>> ELSE <<>>

(* What a failed write leaves in the queue: the code does not touch it.    *)
QueueAfterErrorClear(q) == <<>>
QueueAfterError(q)      == q

OnWrite(ec) ==
  /\ inflight # <<>> /\ StrandFree
  /\ \/ /\ ec
        /\ connected_' = FALSE
        /\ status' = "closed"
        /\ writeFailed' = TRUE
        /\ inflight' = Tail(inflight)
        /\ send_msg_queue_' = QueueAfterError(send_msg_queue_)
        /\ UNCHANGED wire
     \/ /\ ~ec /\ status # "closed"
        /\ wire' = Append(wire, Head(inflight))
        /\ send_msg_queue_' = Tail(send_msg_queue_)
        /\ inflight' = Tail(inflight) \o NextWrite(send_msg_queue_')
        /\ UNCHANGED <<connected_, status, writeFailed>>
  /\ UNCHANGED <<chain, reading, closing, posted, connects, accepted>>

-----------------------------------------------------------------------------
(* Closing.                                                                *)

DisconnectTaskIgnored ==
  /\ posted # <<>> /\ StrandFree
  /\ Head(posted) = CloseTask
  /\ posted' = Tail(posted)
  /\ UNCHANGED <<connected_, send_msg_queue_, status, chain, reading, inflight,
                 closing, connects, accepted, wire, writeFailed>>

(* The posted task of Disconnect.                                          *)
DisconnectTask ==
  /\ posted # <<>> /\ StrandFree
  /\ Head(posted) = CloseTask
  /\ posted' = Tail(posted)
  /\ IF status = "open"
     THEN status' = "closing" /\ closing' = TRUE
     ELSE UNCHANGED <<status, closing>>
  /\ UNCHANGED <<connected_, send_msg_queue_, chain, reading, inflight,
                 connects, accepted, wire, writeFailed>>

OnClose(ec) ==
  /\ closing /\ StrandFree
  /\ closing' = FALSE
  /\ status' = "closed"
  /\ connected_' = IF ec THEN connected_ ELSE FALSE
  /\ UNCHANGED <<send_msg_queue_, chain, reading, inflight, posted, connects,
                 accepted, wire, writeFailed>>

-----------------------------------------------------------------------------
(* The transport with an owner that calls it in any order and whose        *)
(* callbacks send at most one message, as JanusSession's do.               *)

Out == IF Len(accepted) < MaxSends THEN Msg \cup {NoMsg} ELSE {NoMsg}

Owner ==
  \/ Len(accepted) < MaxSends /\ \E m \in Msg : Send(m)
  \/ Connect
  \/ Len(posted) < MaxPosted /\ Disconnect

Handler ==
  \/ \E ec \in BOOLEAN : OnResolve(ec) \/ OnConnect(ec) \/ OnWrite(ec)
                         \/ OnClose(ec)
  \/ \E ec \in BOOLEAN, m \in Out : OnHandshake(ec, m) \/ OnRead(ec, m)
  \/ HandshakeDone
  \/ SendDataInner
  \/ DisconnectTask

Next == Owner \/ Handler

SafetySpec == Init /\ [][Next]_vars

(* The io thread keeps running handlers that are ready.  Resolve, connect, *)
(* handshake and close end within their time limits; a read ends once the  *)
(* stream is closed; a write ends as long as the peer keeps reading.  An   *)
(* open stream owes nobody a message: OnRead is not fair while it is open. *)
Fairness ==
  /\ WF_vars(\E ec \in BOOLEAN : OnResolve(ec))
  /\ WF_vars(\E ec \in BOOLEAN : OnConnect(ec))
  /\ WF_vars(HandshakeDone \/ \E ec \in BOOLEAN, m \in Out : OnHandshake(ec, m))
  /\ WF_vars(status = "closed" /\ OnRead(TRUE, NoMsg))
  /\ WF_vars(\E ec \in BOOLEAN : OnWrite(ec))
  /\ WF_vars(SendDataInner)
  /\ WF_vars(DisconnectTask)
  /\ WF_vars(\E ec \in BOOLEAN : OnClose(ec))

Spec == SafetySpec /\ Fairness

-----------------------------------------------------------------------------
(* Properties.                                                             *)

(* Beast allows one async_write at a time and keeps a reference to the     *)
(* buffer: at most one write is outstanding, and its buffer is the front   *)
(* of send_msg_queue_, which keeps it alive until OnWrite erases it.       *)
OneWriteInFlight ==
  /\ Len(inflight) <= 1
  /\ inflight # <<>> => /\ send_msg_queue_ # <<>>
                        /\ Head(send_msg_queue_) = Head(inflight)

(* Messages reach the wire in the order SendMsg accepted them, none        *)
(* skipped, none twice, through the post, the queue and any number of      *)
(* OnWrite completions and reconnections.                                  *)
WireInOrder == \A i \in DOMAIN wire : wire[i] = i

(* An accepted message is never dropped on the way: its buffer is written, *)
(* queued or still posted, whatever fails (a failed write keeps it queued). *)
NothingForgotten ==
  \A i \in DOMAIN accepted :
    i \in Range(wire) \cup Range(send_msg_queue_) \cup Range(posted)

(* No lost wake-up: the queue is left without a write under way only after *)
(* a write has failed.                                                     *)
NoIdleQueue == send_msg_queue_ # <<>> /\ ~writeFailed => inflight # <<>>

(* OnWrite's error path leaves the failed message at the front, so         *)
(* SendDataInner never starts a write again: after a failed write nothing  *)
(* reaches the wire, not even on a stream connected anew.                  *)
FailedWriteIsFinal == [][writeFailed => wire' = wire]_vars

(* While connected_ is set a read is outstanding, exactly one, so the loss *)
(* of the connection is noticed and the flag cleared.                      *)
ConnectedIsWatched == connected_ => reading = 1

(* ~WebsocketTransport calls Disconnect, whose task has a bare pointer to  *)
(* the transport.  A transport whose owner has let go is destroyed with    *)
(* the last handler that holds it, and none is outstanding then: so the    *)
(* stream is not open any more, through failed reads, writes and closes,   *)
(* and the destructor posts no task that would outlive the transport.      *)
OpenIsHeld == status = "open" => Held

(* A Disconnect that found the stream open takes effect: the posted task,  *)
(* or the loss of the stream before it runs, ends with connected_ false,   *)
(* though OnClose keeps the flag when the close itself fails.              *)
DisconnectTakesEffect ==
  (status = "open" /\ connected_ /\ CloseTask \in Range(posted))
    ~> ~connected_

(* The attempt of every Connect comes to an end.                           *)
AttemptEnds == chain # "idle" ~> chain = "idle"

(* The messages behind the buffers that were written.                      *)
Transmitted == [i \in DOMAIN wire |-> accepted[wire[i]]]

Channel == INSTANCE OrderedChannel
             WITH sent <- accepted, transmitted <- Transmitted,
                  broken <- writeFailed

(* The post, the queue and the handlers together implement the channel a   *)
(* caller of SendMsg has in mind.                                          *)
ImplementsChannel == Channel!Spec
=============================================================================
