------------------------------ MODULE TcpEcho -------------------------------
(***************************************************************************)
(* The TCP echo client and server (05_rtc_socket/tcp/client.cc and         *)
(* server.cc): one server process, and client processes that connect to    *)
(* it.                                                                     *)
(*                                                                         *)
(* The server's main thread starts listen_thread, creates the listening    *)
(* socket and only then connects the slot that takes new connections;      *)
(* listen_thread accepts and runs the Echo objects.  A client runs on its  *)
(* io_thread: every message it receives makes it post a delayed task that  *)
(* holds a bare pointer to it and sends the next message.                  *)
(*                                                                         *)
(* Sockets are external.  A connection keeps messages in order; it may be  *)
(* lost at any moment with what is in transit, and each end is told so.    *)
(***************************************************************************)
EXTENDS Naturals, Sequences

CONSTANTS
  Clients,    \* client processes
  MaxCount    \* bound: messages a client sends

ASSUME EchoAssumption == MaxCount \in Nat

VARIABLES
  server,     \* what the server's main thread has done
  client,     \* the Client object and its socket
  count_,     \* member of Client
  tasks,      \* tasks posted with a delay by SendMsg
  backlog,    \* connections that wait to be accepted, in order
  echo,       \* the server's end of the connection of a client
  lost,       \* the connection is broken
  toServer,   \* messages under way: each is the number in its text
  toClient

connectionVars == <<backlog, echo, lost>>
channelVars    == <<toServer, toClient>>
vars == <<server, client, count_, tasks, connectionVars, channelVars>>

TypeOK ==
  /\ server \in {"started", "listening", "ready", "failed"}
  /\ client \in [Clients -> {"none", "connecting", "connected", "deleted",
                             "undefined", "failed"}]
  /\ count_ \in [Clients -> 0..MaxCount]
  /\ tasks \in [Clients -> Nat]
  /\ backlog \in Seq(Clients)
  /\ echo \in [Clients -> {"none", "echo", "nobody", "deleted"}]
  /\ lost \in [Clients -> BOOLEAN]
  /\ toServer \in [Clients -> Seq(1..MaxCount)]
  /\ toClient \in [Clients -> Seq(1..MaxCount)]

Init ==
  /\ server = "started"
  /\ client = [c \in Clients |-> "none"]
  /\ count_ = [c \in Clients |-> 0]
  /\ tasks = [c \in Clients |-> 0]
  /\ backlog = <<>>
  /\ echo = [c \in Clients |-> "none"]
  /\ lost = [c \in Clients |-> FALSE]
  /\ toServer = [c \in Clients |-> <<>>]
  /\ toClient = [c \in Clients |-> <<>>]

-----------------------------------------------------------------------------
(* The server's main thread.                                               *)
BindFails ==
  /\ server = "started"
  /\ server' = "failed"
  /\ UNCHANGED <<client, count_, tasks, connectionVars, channelVars>>

(* Bind, listen_thread->Start(), and the constructor of                    *)
(* AsyncTcpListenSocket, which listens.                                    *)
Listen ==
  /\ server = "started"
  /\ server' = "listening"
  /\ UNCHANGED <<client, count_, tasks, connectionVars, channelVars>>

(* SignalNewConnection.connect.                                            *)
Subscribe ==
  /\ server = "listening"
  /\ server' = "ready"
  /\ UNCHANGED <<client, count_, tasks, connectionVars, channelVars>>

-----------------------------------------------------------------------------
(* The connection.                                                         *)

(* AsyncTCPSocket::Create, the slots of Client, io_thread->Start().        *)
Create(c) ==
  /\ client[c] = "none"
  /\ \E result \in {"connecting", "failed"} :
       client' = [client EXCEPT ![c] = result]
  /\ UNCHANGED <<server, count_, tasks, connectionVars, channelVars>>

(* SendMsg posts the task.                                                 *)
SendMsg(c) == tasks' = [tasks EXCEPT ![c] = @ + 1]

(* The connection is established as soon as the server listens.            *)
OnConnect(c) ==
  /\ client[c] = "connecting"
  /\ server \in {"listening", "ready"}
  /\ client' = [client EXCEPT ![c] = "connected"]
  /\ backlog' = Append(backlog, c)
  /\ SendMsg(c)
  /\ UNCHANGED <<server, count_, echo, lost, channelVars>>

(* listen_thread accepts and emits SignalNewConnection: to                 *)
(* NewTcpConnection::OnNewConnection, which creates an Echo, or to nobody. *)
OnNewConnection ==
  /\ backlog # <<>>
  /\ backlog' = Tail(backlog)
  /\ echo' = [echo EXCEPT ![Head(backlog)] =
                IF server = "ready" THEN "echo" ELSE "nobody"]
  /\ UNCHANGED <<server, client, count_, tasks, lost, channelVars>>

(* The network fails, or one of the two ends is terminated.                *)
Lose(c) ==
  /\ client[c] = "connected" /\ ~lost[c]
  /\ lost' = [lost EXCEPT ![c] = TRUE]
  /\ toServer' = [toServer EXCEPT ![c] = <<>>]
  /\ toClient' = [toClient EXCEPT ![c] = <<>>]
  /\ UNCHANGED <<server, client, count_, tasks, backlog, echo>>

-----------------------------------------------------------------------------
(* The client's io_thread.                                                 *)

(* Send on a connection that is lost puts nothing under way; its result is *)
(* not looked at.                                                          *)
Send(channel, c, m) == IF lost[c] THEN channel
                       ELSE [channel EXCEPT ![c] = Append(@, m)]

SendTaskAgain(c) ==
  /\ tasks[c] > 0 /\ client[c] = "connected" /\ count_[c] < MaxCount
  /\ count_' = [count_ EXCEPT ![c] = @ + 1]
  /\ toServer' = Send(toServer, c, count_[c] + 1)
  /\ UNCHANGED <<server, client, tasks, connectionVars, toClient>>

SendTaskSame(c) ==
  /\ tasks[c] > 0 /\ client[c] = "connected" /\ count_[c] < MaxCount
  /\ tasks' = [tasks EXCEPT ![c] = @ - 1]
  /\ count_' = [count_ EXCEPT ![c] = @ + 1]
  /\ toServer' = Send(toServer, c, count_[c])
  /\ UNCHANGED <<server, client, connectionVars, toClient>>

(* The posted task.                                                        *)
SendTask(c) ==
  /\ tasks[c] > 0 /\ client[c] = "connected" /\ count_[c] < MaxCount
  /\ tasks' = [tasks EXCEPT ![c] = @ - 1]
  /\ count_' = [count_ EXCEPT ![c] = @ + 1]
  /\ toServer' = Send(toServer, c, count_[c] + 1)
  /\ UNCHANGED <<server, client, connectionVars, toClient>>

(* The posted task of a client that is deleted: it uses freed memory, and  *)
(* nothing is said of the process any more.                                *)
SendTaskFreed(c) ==
  /\ tasks[c] > 0 /\ client[c] = "deleted"
  /\ tasks' = [tasks EXCEPT ![c] = @ - 1]
  /\ client' = [client EXCEPT ![c] = "undefined"]
  /\ UNCHANGED <<server, count_, connectionVars, channelVars>>

(* Client::OnMsg.                                                          *)
OnMsg(c) ==
  /\ client[c] = "connected" /\ toClient[c] # <<>>
  /\ toClient' = [toClient EXCEPT ![c] = Tail(@)]
  /\ SendMsg(c)
  /\ UNCHANGED <<server, client, count_, connectionVars, toServer>>

(* Client::OnClose: delete this.  The attempt failed or the connection is  *)
(* lost.  Posted tasks stay posted.                                        *)
OnClose(c) ==
  /\ \/ client[c] = "connecting"
     \/ client[c] = "connected" /\ lost[c]
  /\ client' = [client EXCEPT ![c] = "deleted"]
  /\ UNCHANGED <<server, count_, tasks, connectionVars, channelVars>>

-----------------------------------------------------------------------------
(* The server's listen_thread.                                             *)

EchoOnMsgWaits(c) ==
  /\ echo[c] = "echo" /\ Len(toServer[c]) > 1
  /\ toServer' = [toServer EXCEPT ![c] = Tail(@)]
  /\ toClient' = Send(toClient, c, Head(toServer[c]))
  /\ UNCHANGED <<server, client, count_, tasks, connectionVars>>

(* Echo::OnMsg.                                                            *)
EchoOnMsg(c) ==
  /\ echo[c] = "echo" /\ toServer[c] # <<>>
  /\ toServer' = [toServer EXCEPT ![c] = Tail(@)]
  /\ toClient' = Send(toClient, c, Head(toServer[c]))
  /\ UNCHANGED <<server, client, count_, tasks, connectionVars>>

EchoOnCloseStays(c) ==
  /\ echo[c] = "echo" /\ lost[c]
  /\ UNCHANGED vars

(* Echo::OnClose: delete this.                                             *)
EchoOnClose(c) ==
  /\ echo[c] = "echo" /\ lost[c]
  /\ echo' = [echo EXCEPT ![c] = "deleted"]
  /\ UNCHANGED <<server, client, count_, tasks, backlog, lost, channelVars>>

-----------------------------------------------------------------------------
ServerMain == BindFails \/ Listen \/ Subscribe

ListenThread == OnNewConnection \/ \E c \in Clients : EchoOnMsg(c) \/ EchoOnClose(c)

IoThread(c) ==
  OnConnect(c) \/ SendTask(c) \/ SendTaskFreed(c) \/ OnMsg(c) \/ OnClose(c)

Next ==
  \/ ServerMain
  \/ ListenThread
  \/ \E c \in Clients : Create(c) \/ IoThread(c) \/ Lose(c)

SafetySpec == Init /\ [][Next]_vars

(* The threads of both programs run on; a connection need not be lost, and *)
(* nobody need start a client.                                             *)
Spec ==
  /\ SafetySpec
  /\ WF_vars(ServerMain)
  /\ WF_vars(OnNewConnection)
  /\ \A c \in Clients :
       /\ WF_vars(IoThread(c))
       /\ WF_vars(EchoOnMsg(c))
       /\ WF_vars(EchoOnClose(c))

-----------------------------------------------------------------------------
(* Properties.                                                             *)

(* Ping-pong: a client has one posted task or one message under way, never *)
(* two, though OnConnect and every OnMsg post one, so the sends of one     *)
(* socket never overlap and no delayed task multiplies; and while the      *)
(* connection lasts the turn is not lost either.                           *)
Turns(c) == tasks[c] + Len(toServer[c]) + Len(toClient[c])

OneTurn ==
  \A c \in Clients :
    /\ Turns(c) <= 1
    /\ client[c] = "connected" /\ ~lost[c] => Turns(c) = 1

(* What comes back is what was sent last: the number under way is count_.  *)
EchoIsLatest ==
  \A c \in Clients : \A m \in {toServer[c], toClient[c]} :
    \A i \in DOMAIN m : m[i] = count_[c]

(* A client whose connection an Echo serves gets an answer to every        *)
(* message, until the connection is lost.                                  *)
Answered ==
  \A c \in Clients : (echo[c] = "echo" /\ toServer[c] # <<>>)
                       ~> (tasks[c] > 0 \/ lost[c])

(* A lost connection leaves no object behind, on either side: the client   *)
(* and its Echo are deleted, also when the connection was lost before it   *)
(* was accepted.                                                           *)
LostIsCleanedUp ==
  \A c \in Clients : lost[c] ~> [](/\ client[c] \in {"deleted", "undefined"}
                                  /\ echo[c] # "echo")

(* "listen(max listen: 5) and wait accept": what the server accepts it     *)
(* serves.                                                                 *)
AcceptedIsServed == \A c \in Clients : echo[c] # "nobody"
=============================================================================
