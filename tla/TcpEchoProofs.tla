--------------------------- MODULE TcpEchoProofs ----------------------------
(***************************************************************************)
(* The ping-pong of the echo client and server, for every set of clients   *)
(* and any number of messages.                                             *)
(***************************************************************************)
EXTENDS TcpEcho, TLAPS

(* OneTurn and EchoIsLatest for one client, with what makes them           *)
(* inductive: nothing is posted or under way before the connection is      *)
(* established.                                                            *)
TurnInv(c) ==
  /\ Turns(c) <= 1
  /\ client[c] = "connected" /\ ~lost[c] => Turns(c) = 1
  /\ client[c] \in {"none", "connecting", "failed"} => Turns(c) = 0

LatestInv(c) ==
  /\ \A i \in DOMAIN toServer[c] : toServer[c][i] = count_[c]
  /\ \A i \in DOMAIN toClient[c] : toClient[c][i] = count_[c]

EchoInv == TypeOK /\ \A c \in Clients : TurnInv(c) /\ LatestInv(c)

(* What Append and Tail do to a channel of numbers.                        *)
LEMMA ChannelFacts ==
  ASSUME NEW S, NEW q \in Seq(S), NEW m \in S
  PROVE  /\ Len(q) \in Nat
         /\ Append(q, m) \in Seq(S)
         /\ Len(Append(q, m)) = Len(q) + 1
         /\ Len(q) = 0 => \A i \in DOMAIN Append(q, m) : Append(q, m)[i] = m
OBVIOUS

LEMMA TailFacts ==
  ASSUME NEW S, NEW q \in Seq(S), q # <<>>
  PROVE  /\ Tail(q) \in Seq(S)
         /\ Len(q) > 0 /\ Len(Tail(q)) = Len(q) - 1
         /\ Head(q) \in S
         /\ Head(q) = q[1] /\ 1 \in DOMAIN q
         /\ Len(q) = 1 => DOMAIN Tail(q) = {}
<1>1. Len(q) \in Nat /\ Len(q) > 0
  OBVIOUS
<1>2. Tail(q) \in Seq(S) /\ Len(Tail(q)) = Len(q) - 1
  BY <1>1
<1>3. Head(q) \in S /\ Head(q) = q[1] /\ 1 \in DOMAIN q
  BY <1>1
<1> QED
  BY <1>1, <1>2, <1>3

LEMMA InitInv == Init => EchoInv
<1> SUFFICES ASSUME Init PROVE EchoInv
  OBVIOUS
<1>1. TypeOK
  BY EchoAssumption DEF Init, TypeOK
<1>2. ASSUME NEW c \in Clients PROVE TurnInv(c) /\ LatestInv(c)
  BY DEF Init, TurnInv, Turns, LatestInv
<1> QED
  BY <1>1, <1>2 DEF EchoInv

(* A client none of whose variables change keeps its part.                 *)
LEMMA OtherClient ==
  ASSUME NEW d \in Clients, TurnInv(d), LatestInv(d),
         client'[d] = client[d], count_'[d] = count_[d], tasks'[d] = tasks[d],
         lost'[d] = lost[d], toServer'[d] = toServer[d], toClient'[d] = toClient[d]
  PROVE  TurnInv(d)' /\ LatestInv(d)'
<1>1. Turns(d)' = Turns(d)
  BY DEF Turns
<1>2. TurnInv(d)'
  BY <1>1 DEF TurnInv
<1>3. LatestInv(d)'
  BY DEF LatestInv
<1> QED
  BY <1>2, <1>3

-----------------------------------------------------------------------------
(* Types.  Every action gives each variable it changes a value at one      *)
(* client.                                                                 *)
LEMMA TypeStep == TypeOK /\ [Next]_vars => TypeOK'
<1> SUFFICES ASSUME TypeOK, [Next]_vars PROVE TypeOK'
  OBVIOUS
<1> USE DEF TypeOK, connectionVars, channelVars
<1>1. CASE UNCHANGED vars
  BY <1>1 DEF vars
<1>2. CASE ServerMain
  BY <1>2 DEF ServerMain, BindFails, Listen, Subscribe
<1>3. CASE OnNewConnection
  <2>1. Head(backlog) \in Clients /\ Tail(backlog) \in Seq(Clients)
    BY <1>3, TailFacts DEF OnNewConnection
  <2> QED
    BY <1>3, <2>1 DEF OnNewConnection
<1>4. ASSUME NEW c \in Clients, EchoOnMsg(c) PROVE TypeOK'
  <2>1. Head(toServer[c]) \in 1..MaxCount /\ Tail(toServer[c]) \in Seq(1..MaxCount)
    BY <1>4, TailFacts DEF EchoOnMsg
  <2>2. Append(toClient[c], Head(toServer[c])) \in Seq(1..MaxCount)
    BY <2>1
  <2> QED
    BY <1>4, <2>1, <2>2 DEF EchoOnMsg, Send
<1>5. ASSUME NEW c \in Clients, EchoOnClose(c) PROVE TypeOK'
  BY <1>5 DEF EchoOnClose
<1>6. ASSUME NEW c \in Clients, Create(c) PROVE TypeOK'
  BY <1>6 DEF Create
<1>7. ASSUME NEW c \in Clients, OnConnect(c) PROVE TypeOK'
  <2>1. Append(backlog, c) \in Seq(Clients)
    OBVIOUS
  <2> QED
    BY <1>7, <2>1 DEF OnConnect, SendMsg
<1>8. ASSUME NEW c \in Clients, SendTask(c) PROVE TypeOK'
  <2>1. count_[c] + 1 \in 1..MaxCount /\ tasks[c] - 1 \in Nat
    BY <1>8, EchoAssumption DEF SendTask
  <2>2. Append(toServer[c], count_[c] + 1) \in Seq(1..MaxCount)
    BY <2>1
  <2> QED
    BY <1>8, <2>1, <2>2, EchoAssumption DEF SendTask, Send
<1>9. ASSUME NEW c \in Clients, SendTaskFreed(c) PROVE TypeOK'
  BY <1>9 DEF SendTaskFreed
<1>10. ASSUME NEW c \in Clients, OnMsg(c) PROVE TypeOK'
  <2>1. Tail(toClient[c]) \in Seq(1..MaxCount)
    BY <1>10, TailFacts DEF OnMsg
  <2> QED
    BY <1>10, <2>1 DEF OnMsg, SendMsg
<1>11. ASSUME NEW c \in Clients, OnClose(c) PROVE TypeOK'
  BY <1>11 DEF OnClose
<1>12. ASSUME NEW c \in Clients, Lose(c) PROVE TypeOK'
  <2>1. <<>> \in Seq(1..MaxCount)
    OBVIOUS
  <2> QED
    BY <1>12, <2>1 DEF Lose
<1> HIDE DEF TypeOK, connectionVars, channelVars
<1> QED
  BY <1>1, <1>2, <1>3, <1>4, <1>5, <1>6, <1>7, <1>8, <1>9, <1>10, <1>11, <1>12,
     Zenon DEF Next, ListenThread, IoThread

-----------------------------------------------------------------------------
(* The turn.  A step concerns one client at most; for that client it       *)
(* passes the turn on, starts it (OnConnect) or ends it (Lose, and a send  *)
(* on a connection that is lost).                                          *)

(* Lengths are numbers, so that Turns can be computed with.                *)
LEMMA TurnTypes ==
  ASSUME TypeOK, NEW c \in Clients
  PROVE  tasks[c] \in Nat /\ Len(toServer[c]) \in Nat /\ Len(toClient[c]) \in Nat
BY DEF TypeOK

(* Of three numbers that add up to at most one, one is all there is.       *)
LEMMA OneOfThree ==
  ASSUME NEW i \in Nat, NEW j \in Nat, NEW k \in Nat, i + j + k <= 1
  PROVE  /\ j > 0 => i = 0 /\ j = 1 /\ k = 0
         /\ k > 0 => i = 0 /\ j = 0 /\ k = 1
OBVIOUS

LEMMA TurnStep ==
  ASSUME EchoInv, [Next]_vars, NEW d \in Clients
  PROVE  TurnInv(d)' /\ LatestInv(d)'
<1>0. TypeOK /\ TurnInv(d) /\ LatestInv(d)
  BY DEF EchoInv
<1>t. tasks[d] \in Nat /\ Len(toServer[d]) \in Nat /\ Len(toClient[d]) \in Nat
  BY <1>0, TurnTypes
<1>u. tasks[d] + Len(toServer[d]) + Len(toClient[d]) <= 1
  BY <1>0 DEF TurnInv, Turns
<1>1. CASE UNCHANGED <<client, count_, tasks, lost, channelVars>>
  BY <1>0, <1>1, OtherClient DEF channelVars
<1>2. ASSUME NEW c \in Clients, c # d,
             \/ Create(c) \/ OnConnect(c) \/ SendTask(c) \/ SendTaskFreed(c)
             \/ OnMsg(c) \/ OnClose(c) \/ EchoOnMsg(c) \/ Lose(c)
      PROVE  TurnInv(d)' /\ LatestInv(d)'
  <2>1. /\ client'[d] = client[d] /\ count_'[d] = count_[d] /\ tasks'[d] = tasks[d]
        /\ lost'[d] = lost[d] /\ toServer'[d] = toServer[d] /\ toClient'[d] = toClient[d]
    BY <1>0, <1>2 DEF TypeOK, Create, OnConnect, SendTask, SendTaskFreed, OnMsg,
         OnClose, EchoOnMsg, Lose, SendMsg, Send, connectionVars, channelVars
  <2> QED
    BY <1>0, <2>1, OtherClient
<1>3. CASE Create(d)
  <2>1. /\ client[d] = "none" /\ client'[d] \in {"connecting", "failed"}
        /\ tasks' = tasks /\ count_' = count_
        /\ toServer' = toServer /\ toClient' = toClient
    BY <1>0, <1>3 DEF TypeOK, Create, channelVars
  <2>2. Turns(d)' = 0
    BY <1>0, <2>1 DEF TurnInv, Turns
  <2> QED
    BY <1>0, <2>1, <2>2 DEF TurnInv, LatestInv
<1>4. CASE OnConnect(d)
  <2>1. /\ client[d] = "connecting" /\ client'[d] = "connected"
        /\ tasks'[d] = tasks[d] + 1 /\ count_' = count_
        /\ toServer' = toServer /\ toClient' = toClient
    BY <1>0, <1>4 DEF TypeOK, OnConnect, SendMsg, channelVars
  <2>2. Turns(d)' = 1
    BY <1>0, <1>t, <2>1 DEF TurnInv, Turns
  <2> QED
    BY <1>0, <2>1, <2>2 DEF TurnInv, LatestInv
<1>5. CASE SendTask(d)
  <2>1. /\ tasks[d] > 0 /\ client[d] = "connected" /\ client' = client /\ lost' = lost
        /\ tasks'[d] = tasks[d] - 1 /\ count_'[d] = count_[d] + 1
        /\ toClient' = toClient
    BY <1>0, <1>5 DEF TypeOK, SendTask, connectionVars
  <2>2. tasks[d] = 1 /\ Len(toServer[d]) = 0 /\ Len(toClient[d]) = 0
    BY <1>0, <1>t, <2>1 DEF TurnInv, Turns
  <2>3. toServer[d] \in Seq(1..MaxCount) /\ toClient[d] \in Seq(1..MaxCount)
    BY <1>0 DEF TypeOK
  <2>4. DOMAIN toClient[d] = {} /\ DOMAIN toServer[d] = {}
    BY <2>2, <2>3
  <2>5. CASE lost[d]
    <3>1. toServer' = toServer
      BY <1>5, <2>5 DEF SendTask, Send
    <3>2. Turns(d)' = 0
      BY <2>1, <2>2, <3>1 DEF Turns
    <3> QED
      BY <2>1, <2>4, <2>5, <3>1, <3>2 DEF TurnInv, LatestInv
  <2>6. CASE ~lost[d]
    <3>1. toServer'[d] = Append(toServer[d], count_[d] + 1)
      BY <1>0, <1>5, <2>6 DEF SendTask, Send, TypeOK
    <3>2. count_[d] + 1 \in 1..MaxCount
      BY <1>0, <1>5, EchoAssumption DEF SendTask, TypeOK
    <3>3. /\ Len(toServer'[d]) = 1
          /\ \A i \in DOMAIN toServer'[d] : toServer'[d][i] = count_[d] + 1
      BY <2>2, <2>3, <3>1, <3>2, ChannelFacts
    <3>4. Turns(d)' = 1
      BY <2>1, <2>2, <3>3 DEF Turns
    <3> QED
      BY <2>1, <2>4, <3>3, <3>4 DEF TurnInv, LatestInv
  <2> QED
    BY <2>5, <2>6
<1>6. CASE SendTaskFreed(d)
  <2>1. /\ tasks[d] > 0 /\ client'[d] = "undefined" /\ tasks'[d] = tasks[d] - 1
        /\ count_' = count_ /\ toServer' = toServer /\ toClient' = toClient
    BY <1>0, <1>6 DEF TypeOK, SendTaskFreed, channelVars
  <2>2. Turns(d)' <= 1
    BY <1>0, <1>t, <2>1 DEF TurnInv, Turns
  <2> QED
    BY <1>0, <2>1, <2>2 DEF TurnInv, LatestInv
<1>7. CASE OnMsg(d)
  <2>1. /\ client[d] = "connected" /\ client' = client
        /\ lost' = lost /\ count_' = count_ /\ tasks'[d] = tasks[d] + 1
        /\ toServer' = toServer /\ toClient'[d] = Tail(toClient[d])
        /\ toClient[d] # <<>> /\ toClient[d] \in Seq(1..MaxCount)
    BY <1>0, <1>7 DEF TypeOK, OnMsg, SendMsg, connectionVars
  <2>2. /\ Len(toClient[d]) > 0 /\ Len(toClient'[d]) = Len(toClient[d]) - 1
        /\ Len(toClient[d]) = 1 => DOMAIN toClient'[d] = {}
    BY <2>1, TailFacts
  <2>a. Len(toClient[d]) > 0 /\ Len(toClient'[d]) = Len(toClient[d]) - 1
    BY <2>2
  <2>b. tasks'[d] = tasks[d] + 1 /\ toServer' = toServer
    BY <2>1
  <2>c. tasks[d] = 0 /\ Len(toServer[d]) = 0 /\ Len(toClient[d]) = 1
    BY <1>t, <1>u, <2>a, OneOfThree, Zenon
  <2>3. Turns(d)' = Turns(d) /\ Len(toClient[d]) = 1
    BY <2>a, <2>b, <2>c DEF Turns
  <2> QED
    BY <1>0, <2>1, <2>2, <2>3 DEF TurnInv, LatestInv
<1>8. CASE OnClose(d)
  <2>1. /\ client'[d] = "deleted" /\ tasks' = tasks /\ count_' = count_
        /\ toServer' = toServer /\ toClient' = toClient
    BY <1>0, <1>8 DEF TypeOK, OnClose, channelVars
  <2>2. Turns(d)' <= 1
    BY <1>0, <2>1 DEF TurnInv, Turns
  <2> QED
    BY <1>0, <2>1, <2>2 DEF TurnInv, LatestInv
<1>9. CASE EchoOnMsg(d)
  <2>1. /\ client' = client /\ lost' = lost /\ count_' = count_ /\ tasks' = tasks
        /\ toServer'[d] = Tail(toServer[d])
        /\ toServer[d] # <<>> /\ toServer[d] \in Seq(1..MaxCount)
        /\ toClient[d] \in Seq(1..MaxCount)
    BY <1>0, <1>9 DEF TypeOK, EchoOnMsg, connectionVars
  <2>2. /\ Len(toServer[d]) > 0 /\ Len(toServer'[d]) = Len(toServer[d]) - 1
        /\ Len(toServer[d]) = 1 => DOMAIN toServer'[d] = {}
        /\ Head(toServer[d]) \in 1..MaxCount /\ 1 \in DOMAIN toServer[d]
        /\ Head(toServer[d]) = toServer[d][1]
    BY <2>1, TailFacts
  <2>a. Len(toServer[d]) > 0 /\ Len(toServer'[d]) = Len(toServer[d]) - 1
    BY <2>2
  <2>b. tasks' = tasks
    BY <2>1
  <2>3. Len(toServer[d]) = 1 /\ Len(toClient[d]) = 0 /\ tasks[d] = 0
    BY <1>t, <1>u, <2>a, OneOfThree, Zenon
  <2>4. Head(toServer[d]) = count_[d]
    BY <1>0, <2>2 DEF LatestInv
  <2>5. CASE lost[d]
    <3>1. toClient' = toClient
      BY <1>9, <2>5 DEF EchoOnMsg, Send
    <3>2. Turns(d)' = 0
      BY <2>a, <2>b, <2>3, <3>1 DEF Turns
    <3> QED
      BY <1>0, <2>1, <2>2, <2>3, <2>5, <3>1, <3>2 DEF TurnInv, LatestInv
  <2>6. CASE ~lost[d]
    <3>1. toClient'[d] = Append(toClient[d], Head(toServer[d]))
      BY <1>0, <1>9, <2>6 DEF EchoOnMsg, Send, TypeOK
    <3>2. /\ Len(toClient'[d]) = 1
          /\ \A i \in DOMAIN toClient'[d] : toClient'[d][i] = Head(toServer[d])
      BY <2>1, <2>2, <2>3, <3>1, ChannelFacts
    <3>3. Turns(d)' = 1 /\ Turns(d) = 1
      BY <2>a, <2>b, <2>3, <3>2 DEF Turns
    <3> QED
      BY <1>0, <2>1, <2>2, <2>3, <2>4, <3>2, <3>3 DEF TurnInv, LatestInv
  <2> QED
    BY <2>5, <2>6
<1>10. CASE Lose(d)
  <2>1. /\ client[d] = "connected" /\ client' = client /\ lost'[d]
        /\ count_' = count_ /\ tasks' = tasks
        /\ toServer'[d] = <<>> /\ toClient'[d] = <<>>
    BY <1>0, <1>10 DEF TypeOK, Lose
  <2>2. Turns(d)' <= 1
    BY <1>0, <1>t, <2>1 DEF TurnInv, Turns
  <2>3. LatestInv(d)'
    BY <2>1 DEF LatestInv
  <2> QED
    BY <2>1, <2>2, <2>3 DEF TurnInv
<1>11. CASE ServerMain \/ OnNewConnection \/ (\E c \in Clients : EchoOnClose(c))
  BY <1>1, <1>11 DEF ServerMain, BindFails, Listen, Subscribe, OnNewConnection,
                     EchoOnClose, connectionVars, channelVars
<1>12. CASE UNCHANGED vars
  BY <1>1, <1>12 DEF vars, connectionVars
<1> QED
  BY <1>2, <1>3, <1>4, <1>5, <1>6, <1>7, <1>8, <1>9, <1>10, <1>11, <1>12,
     Zenon DEF Next, ListenThread, IoThread

-----------------------------------------------------------------------------
LEMMA InductiveInv == SafetySpec => []EchoInv
<1>1. EchoInv /\ [Next]_vars => EchoInv'
  BY TypeStep, TurnStep, Zenon DEF EchoInv
<1> QED
  BY InitInv, <1>1, PTL DEF SafetySpec

(* A client has one task posted or one message under way, never two, and   *)
(* keeps its turn while the connection lasts, with any number of clients   *)
(* and messages.                                                           *)
THEOREM PingPong == SafetySpec => []OneTurn
<1>1. EchoInv => OneTurn
  BY Zenon DEF EchoInv, TurnInv, OneTurn
<1> QED
  BY InductiveInv, <1>1, PTL

(* The number under way is the last one its client sent.                   *)
THEOREM LatestUnderWay == SafetySpec => [](TypeOK /\ EchoIsLatest)
<1>1. EchoInv => TypeOK /\ EchoIsLatest
  BY DEF EchoInv, LatestInv, EchoIsLatest
<1> QED
  BY InductiveInv, <1>1, PTL
=============================================================================
