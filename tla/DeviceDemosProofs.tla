------------------------- MODULE DeviceDemosProofs --------------------------
(***************************************************************************)
(* What is proved of the demos 06 to 09, for every set of networks: main   *)
(* destroys nothing that a source at work still calls or is.               *)
(*                                                                         *)
(* The invariant relates main's position to what the other threads may be  *)
(* doing.  It is stated for each program, in terms of pc.                  *)
(***************************************************************************)
EXTENDS DeviceDemos, Integers, SequenceTheorems, TLAPS

(* What net_thread is doing, and what waits in its queue.                  *)
Quiet    == net = "idle" /\ messages = <<>>
Starting == net = "idle" /\ messages = <<"StartUpdating">>
Updating ==
  \/ net = "idle" /\ messages = <<"Update">>
  \/ net \in {"merge", "signal"} /\ messages = <<>>
Stopping ==
  \/ /\ net = "idle"
     /\ \/ messages = <<"Update", "StopUpdating">>
        \/ messages = <<"StopUpdating", "Update">>
  \/ net \in {"merge", "signal"} /\ messages = <<"StopUpdating">>

(* 06 and 07: frames come between the return of StartCapture and that of   *)
(* StopCapture, and the sink or observer is there from before to after.    *)
CaptureInv ==
  /\ pc \in 1..9
  /\ Quiet
  /\ inside => pc = 6 /\ ~capturing
  /\ capturing \/ frame => pc \in {5, 6}
  /\ pc \in 4..6 => slots = "alive"
  /\ program = AudioDemo /\ pc = 3 => slots = "alive"
  /\ slots = "deleted" \/ source = "deleted" => pc >= 8

(* 08: updates run from inside StartUpdating to inside StopUpdating, and   *)
(* net_thread ends inside Stop.                                            *)
NetworkInv ==
  /\ pc \in 1..11
  /\ ~capturing /\ ~frame
  /\ pc \in 3..9 => slots = "alive"
  /\ source = "deleted" => pc = 11
  /\ inside => pc \in {3, 5, 7, 8}
  /\ pc <= 2 \/ (pc = 3 /\ ~inside) => Quiet
  /\ pc = 3 /\ inside => Starting
  /\ pc \in 4..6 \/ (pc = 7 /\ ~inside) => Updating
  /\ pc = 7 /\ inside => Stopping
  /\ pc = 8 => net \in {"idle", "exited"} /\ messages = <<>> /\ (~inside => net = "idle")
  /\ pc >= 9 => net = "exited" /\ messages = <<>>

(* 09: as 08 up to the list; the updates go on for ever.                   *)
StunInv ==
  /\ pc \in 1..9
  /\ ~capturing /\ ~frame
  /\ pc \in 4..8 => slots = "alive"
  /\ source # "deleted"
  /\ inside => pc \in {4, 6}
  /\ pc <= 3 \/ (pc = 4 /\ ~inside) \/ pc = 9 => Quiet
  /\ pc = 4 /\ inside => Starting
  /\ pc \in 5..8 => Updating

(* The types, but for pc.                                                  *)
Types ==
  /\ program \in {VideoDemo, AudioDemo, NetworkDemo, StunDemo}
  /\ inside \in BOOLEAN /\ wait_update \in BOOLEAN
  /\ list \subseteq Networks \cup AnyAddress
  /\ slots \in Life /\ source \in Life /\ connected \in BOOLEAN
  /\ capturing \in BOOLEAN /\ frame \in BOOLEAN
  /\ messages \in Seq({"StartUpdating", "Update", "StopUpdating"})
  /\ net \in {"idle", "merge", "signal", "exited"}
  /\ networks_ \subseteq Networks
  /\ sentFirst \in BOOLEAN /\ changed \in BOOLEAN
  /\ found \in BOOLEAN /\ torn \in BOOLEAN
  /\ probe \in {"none", "running", "finished"}

DemoInv ==
  /\ Types
  /\ \/ program \in {VideoDemo, AudioDemo} /\ CaptureInv
     \/ program = NetworkDemo /\ NetworkInv
     \/ program = StunDemo /\ StunInv

-----------------------------------------------------------------------------
(* The programs, call by call.                                             *)

(* 06.                                                                     *)
LEMMA VideoAt ==
  ASSUME program = VideoDemo, pc \in 1..9
  PROVE  /\ Len(program) = 8
         /\ \A call : At(call) =>
              \/ pc = 1 /\ call = "FindDevice"
              \/ pc = 2 /\ call = "CreateModule"
              \/ pc = 3 /\ call = "ConnectSlots"
              \/ pc = 4 /\ call = "StartCapture"
              \/ pc = 5 /\ call = "Sleep"
              \/ pc = 6 /\ call = "StopCapture"
              \/ pc = 7 /\ call = "DeleteSlots"
              \/ pc = 8 /\ call = "DeleteSource"
BY DEF At, Ended, VideoDemo

(* 07.                                                                     *)
LEMMA AudioAt ==
  ASSUME program = AudioDemo, pc \in 1..9
  PROVE  /\ Len(program) = 8
         /\ \A call : At(call) =>
              \/ pc = 1 /\ call = "CreateModule"
              \/ pc = 2 /\ call = "ConnectSlots"
              \/ pc = 3 /\ call = "InitRecording"
              \/ pc = 4 /\ call = "StartCapture"
              \/ pc = 5 /\ call = "Sleep"
              \/ pc = 6 /\ call = "StopCapture"
              \/ pc = 7 /\ call = "DeleteSource"
              \/ pc = 8 /\ call = "DeleteSlots"
BY DEF At, Ended, AudioDemo

(* 08.                                                                     *)
LEMMA NetworkAt ==
  ASSUME program = NetworkDemo, pc \in 1..11
  PROVE  /\ Len(program) = 10
         /\ \A call : At(call) =>
              \/ pc = 1 /\ call = "Initialize"
              \/ pc = 2 /\ call = "ConnectSlots"
              \/ pc = 3 /\ call = "StartUpdating"
              \/ pc = 4 /\ call = "Wait"
              \/ pc = 5 /\ call = "GetNetworks"
              \/ pc = 6 /\ call = "GetAnyAddressNetworks"
              \/ pc = 7 /\ call = "StopUpdating"
              \/ pc = 8 /\ call = "Stop"
              \/ pc = 9 /\ call = "DeleteSlots"
              \/ pc = 10 /\ call = "DeleteSource"
BY DEF At, Ended, NetworkDemo

(* 09.                                                                     *)
LEMMA StunAt ==
  ASSUME program = StunDemo, pc \in 1..9
  PROVE  /\ Len(program) = 8
         /\ \A call : At(call) =>
              \/ pc = 1 /\ call = "Prepare"
              \/ pc = 2 /\ call = "Initialize"
              \/ pc = 3 /\ call = "ConnectSlots"
              \/ pc = 4 /\ call = "StartUpdating"
              \/ pc = 5 /\ call = "Wait"
              \/ pc = 6 /\ call = "GetNetworks"
              \/ pc = 7 /\ call = "StartProbe"
              \/ pc = 8 /\ call = "WaitForever"
BY DEF At, Ended, StunDemo

(* No two programs are the same.                                           *)
LEMMA ProgramsDiffer ==
  /\ VideoDemo # AudioDemo /\ VideoDemo # NetworkDemo /\ VideoDemo # StunDemo
  /\ AudioDemo # NetworkDemo /\ AudioDemo # StunDemo /\ NetworkDemo # StunDemo
<1>1. /\ VideoDemo[1] = "FindDevice" /\ AudioDemo[1] = "CreateModule"
      /\ NetworkDemo[1] = "Initialize" /\ StunDemo[1] = "Prepare"
  BY DEF VideoDemo, AudioDemo, NetworkDemo, StunDemo
<1> QED
  BY <1>1

(* An early return of 06 and 07 goes to their destructors, one of 09 to    *)
(* its end.                                                                *)
LEMMA EarlyReturn ==
  /\ program \in {VideoDemo, AudioDemo} => EndOfMain = 7
  /\ program = StunDemo => EndOfMain = 9
<1> DEFINE Is(i) == /\ i <= Len(program) => program[i] \in Destructors
                    /\ \A j \in 1..(i - 1) : program[j] \notin Destructors
           e == EndOfMain
<1>1. ASSUME program \in {VideoDemo, AudioDemo}
      PROVE  EndOfMain = 7
  <2>1. /\ Len(program) = 8 /\ program[7] \in Destructors
        /\ \A j \in 1..6 : program[j] \notin Destructors
    BY <1>1 DEF VideoDemo, AudioDemo, Destructors
  <2>2. \E i \in 1..(Len(program) + 1) : Is(i)
    BY <2>1
  <2>3. e \in 1..9 /\ Is(e)
    BY <2>1, <2>2 DEF EndOfMain
  <2> HIDE DEF e
  <2>4. e = 7
    BY <2>1, <2>3
  <2> QED
    BY <2>4 DEF e
<1>2. ASSUME program = StunDemo
      PROVE  EndOfMain = 9
  <2>1. Len(program) = 8 /\ \A j \in 1..8 : program[j] \notin Destructors
    BY <1>2 DEF StunDemo, Destructors
  <2>2. \E i \in 1..(Len(program) + 1) : Is(i)
    BY <2>1
  <2>3. e \in 1..9 /\ Is(e)
    BY <2>1, <2>2 DEF EndOfMain
  <2> HIDE DEF e
  <2>4. e = 9
    BY <2>1, <2>3
  <2> QED
    BY <2>4 DEF e
<1> QED
  BY <1>1, <1>2

(* The queue, message by message.                                          *)
LEMMA Queues ==
  /\ Append(<<>>, "StartUpdating") = <<"StartUpdating">>
  /\ Append(<<>>, "StopUpdating") = <<"StopUpdating">>
  /\ Append(<<>>, "Update") = <<"Update">>
  /\ Append(<<"Update">>, "StopUpdating") = <<"Update", "StopUpdating">>
  /\ Append(<<"StopUpdating">>, "Update") = <<"StopUpdating", "Update">>
  /\ Tail(<<"StartUpdating">>) = <<>> /\ Head(<<"StartUpdating">>) = "StartUpdating"
  /\ Tail(<<"Update">>) = <<>> /\ Head(<<"Update">>) = "Update"
  /\ Head(<<"StopUpdating">>) = "StopUpdating"
  /\ Tail(<<"Update", "StopUpdating">>) = <<"StopUpdating">>
  /\ Head(<<"Update", "StopUpdating">>) = "Update"
  /\ Head(<<"StopUpdating", "Update">>) = "StopUpdating"
<1>1. \A m : Append(<<>>, m) = <<m>> /\ Tail(<<m>>) = <<>> /\ Head(<<m>>) = m
  OBVIOUS
<1>2. ASSUME NEW m, NEW n
      PROVE  Append(<<m>>, n) = <<m, n>>
  <2> DEFINE q == Append(<<m>>, n)
             r == <<m, n>>
  <2>1. q \in Seq({m, n}) /\ Len(q) = 2 /\ q[1] = m /\ q[2] = n
    OBVIOUS
  <2>2. r \in Seq({m, n}) /\ Len(r) = 2 /\ r[1] = m /\ r[2] = n
    OBVIOUS
  <2> HIDE DEF q, r
  <2>3. q = r
    BY <2>1, <2>2, SeqEqual
  <2> QED
    BY <2>3 DEF q, r
<1>3. \A m, n : Tail(<<m, n>>) = <<n>> /\ Head(<<m, n>>) = m
  OBVIOUS
<1> QED
  BY <1>1, <1>2, <1>3

(* Every value stays within its type.                                      *)
LEMMA TypesNext ==
  ASSUME Types, [Next]_vars
  PROVE  Types'
<1> USE DEF Next, Main, NetThread, Terminated, MayFail, CreateModule,
           Initialize, ConnectSlots, StartCapture, Sleep, StopCapture,
           Invoke, Wait, EnterGetNetworks, LeaveGetNetworks,
           GetAnyAddressNetworks, Stop, StartProbe, DeleteSlots,
           DeleteSource, StartUpdating, StopUpdating, UpdateFails,
           MergeNetworkList, Merged, SignalNetworksChanged, StopTrial,
           NetThreadExits, OnFrame, FrameDone, Returns, Enters, Fails,
           Crashes, Message, OnNetworksChanged, vars, mainVars, objectVars,
           deviceVars, netVars
<1>1. program' = program /\ inside' \in BOOLEAN
  BY DEF Types
<1>2. list' \subseteq Networks \cup AnyAddress
  BY DEF Types, AnyAddress
<1>3. slots' \in Life /\ source' \in Life
  BY DEF Types, Life
<1>4. connected' \in BOOLEAN
  BY DEF Types
<1>5. capturing' \in BOOLEAN
  BY DEF Types
<1>6. frame' \in BOOLEAN
  BY DEF Types
<1>7. messages' \in Seq({"StartUpdating", "Update", "StopUpdating"})
  <2> DEFINE M == {"StartUpdating", "Update", "StopUpdating"}
  <2>1. messages \in Seq(M)
    BY DEF Types
  <2>2. messages # <<>> => Tail(messages) \in Seq(M)
    BY <2>1
  <2>3. \A m \in M : /\ Append(messages, m) \in Seq(M)
                     /\ messages # <<>> => Append(Tail(messages), m) \in Seq(M)
    BY <2>1, <2>2
  <2>4. <<>> \in Seq(M) /\ "Update" \in M /\ "StartUpdating" \in M /\ "StopUpdating" \in M
    OBVIOUS
  <2> HIDE DEF M
  <2>5. messages' \in Seq(M)
    BY <2>1, <2>2, <2>3, <2>4
  <2> QED
    BY <2>5 DEF M
<1>8. net' \in {"idle", "merge", "signal", "exited"}
  BY DEF Types
<1>9. networks_' \subseteq Networks
  BY DEF Types
<1>10. sentFirst' \in BOOLEAN
  BY DEF Types
<1>11. changed' \in BOOLEAN /\ found' \in BOOLEAN
  BY DEF Types
<1>12. wait_update' \in BOOLEAN
  BY DEF Types
<1>14. torn' \in BOOLEAN
  BY DEF Types
<1>13. probe' \in {"none", "running", "finished"}
  BY DEF Types
<1> QED
  BY <1>1, <1>2, <1>3, <1>4, <1>5, <1>6, <1>7, <1>8, <1>9, <1>10, <1>11, <1>12, <1>13,
     <1>14 DEF Types

(* Main enters a call, is inside it, or returns from it.                   *)
LEMMA InsideNext ==
  ASSUME Types, [Next]_vars
  PROVE  \/ inside' = FALSE
         \/ inside' = inside /\ pc' = pc /\ capturing' = capturing
         \/ At("StopCapture") /\ pc' = pc /\ capturing' = FALSE
         \/ /\ At("StartUpdating") \/ At("StopUpdating") \/ At("GetNetworks") \/ At("Stop")
            /\ pc' = pc
<1>1. CASE Main
  BY <1>1 DEF Main, MayFail, CreateModule, Initialize, ConnectSlots,
              StartCapture, Sleep, StopCapture, Invoke, Wait, EnterGetNetworks,
              LeaveGetNetworks, GetAnyAddressNetworks, Stop, StartProbe,
              DeleteSlots, DeleteSource, Returns, Enters, Fails, Crashes,
              mainVars, deviceVars, objectVars, netVars
<1>2. CASE NetThread
  BY <1>2 DEF NetThread, StartUpdating, StopUpdating, UpdateFails,
              MergeNetworkList, Merged, SignalNetworksChanged, StopTrial,
              NetThreadExits, Returns, Message, mainVars, deviceVars,
              objectVars, netVars
<1>3. CASE OnFrame
  BY <1>3 DEF OnFrame, mainVars, deviceVars, objectVars, netVars
<1>4. CASE FrameDone
  BY <1>4 DEF FrameDone, mainVars, deviceVars, objectVars, netVars
<1>5. CASE UNCHANGED vars
  BY <1>5 DEF vars, mainVars, deviceVars
<1> QED
  BY <1>1, <1>2, <1>3, <1>4, <1>5 DEF Next, Terminated

(* 06 keeps its invariant.                                                 *)
LEMMA VideoNext ==
  ASSUME Types, program = VideoDemo, CaptureInv, [Next]_vars
  PROVE  CaptureInv'
<1>0. /\ program' = program /\ Len(program) = 8 /\ pc \in 1..9
      /\ EndOfMain = 7
      /\ program # NetworkDemo
      /\ program # AudioDemo
      /\ \A call : At(call) =>
           \/ pc = 1 /\ call = "FindDevice"
           \/ pc = 2 /\ call = "CreateModule"
           \/ pc = 3 /\ call = "ConnectSlots"
           \/ pc = 4 /\ call = "StartCapture"
           \/ pc = 5 /\ call = "Sleep"
           \/ pc = 6 /\ call = "StopCapture"
           \/ pc = 7 /\ call = "DeleteSlots"
           \/ pc = 8 /\ call = "DeleteSource"
  <2>1. pc \in 1..9
    BY DEF CaptureInv
  <2>2. program' = program
    BY DEF Next, Main, NetThread, Terminated, MayFail, CreateModule,
           Initialize, ConnectSlots, StartCapture, Sleep, StopCapture,
           Invoke, Wait, EnterGetNetworks, LeaveGetNetworks,
           GetAnyAddressNetworks, Stop, StartProbe, DeleteSlots,
           DeleteSource, StartUpdating, StopUpdating, UpdateFails,
           MergeNetworkList, Merged, SignalNetworksChanged, StopTrial,
           NetThreadExits, OnFrame, FrameDone, Returns, Enters, Fails,
           Crashes, Message, OnNetworksChanged, vars, mainVars, objectVars,
           deviceVars, netVars
  <2> QED
    BY <2>1, <2>2, VideoAt, EarlyReturn, ProgramsDiffer
<1>1. inside' => pc' = 6 /\ ~capturing'
  <2>1. /\ At("StopCapture") => pc = 6
        /\ ~At("StartUpdating") /\ ~At("StopUpdating") /\ ~At("GetNetworks") /\ ~At("Stop")
    BY <1>0
  <2>2. inside => pc = 6 /\ ~capturing
    BY DEF CaptureInv
  <2> QED
    BY <2>1, <2>2, InsideNext
<1> USE DEF Next, Main, NetThread, Terminated, MayFail, CreateModule,
           Initialize, ConnectSlots, StartCapture, Sleep, StopCapture,
           Invoke, Wait, EnterGetNetworks, LeaveGetNetworks,
           GetAnyAddressNetworks, Stop, StartProbe, DeleteSlots,
           DeleteSource, StartUpdating, StopUpdating, UpdateFails,
           MergeNetworkList, Merged, SignalNetworksChanged, StopTrial,
           NetThreadExits, OnFrame, FrameDone, Returns, Enters, Fails,
           Crashes, Message, OnNetworksChanged, vars, mainVars, objectVars,
           deviceVars, netVars
<1>2. pc' \in 1..9
  BY <1>0 DEF CaptureInv, Quiet
<1>3. net' = "idle" /\ messages' = <<>>
  BY <1>0 DEF CaptureInv, Quiet
<1>4. capturing' \/ frame' => pc' \in {5, 6}
  BY <1>0 DEF CaptureInv, Quiet
<1>5. pc' \in 4..6 => slots' = "alive"
  BY <1>0 DEF CaptureInv, Quiet
<1>6. program' = AudioDemo /\ pc' = 3 => slots' = "alive"
  BY <1>0 DEF CaptureInv, Quiet
<1>7. slots' = "deleted" \/ source' = "deleted" => pc' >= 8
  BY <1>0 DEF CaptureInv, Quiet, Types, Life
<1> QED
  BY <1>0, <1>1, <1>2, <1>3, <1>4, <1>5, <1>6, <1>7 DEF CaptureInv, Quiet, Starting, Updating, Stopping

(* 07 keeps its invariant.                                                 *)
LEMMA AudioNext ==
  ASSUME Types, program = AudioDemo, CaptureInv, [Next]_vars
  PROVE  CaptureInv'
<1>0. /\ program' = program /\ Len(program) = 8 /\ pc \in 1..9
      /\ EndOfMain = 7
      /\ program # NetworkDemo
      /\ program # VideoDemo
      /\ \A call : At(call) =>
           \/ pc = 1 /\ call = "CreateModule"
           \/ pc = 2 /\ call = "ConnectSlots"
           \/ pc = 3 /\ call = "InitRecording"
           \/ pc = 4 /\ call = "StartCapture"
           \/ pc = 5 /\ call = "Sleep"
           \/ pc = 6 /\ call = "StopCapture"
           \/ pc = 7 /\ call = "DeleteSource"
           \/ pc = 8 /\ call = "DeleteSlots"
  <2>1. pc \in 1..9
    BY DEF CaptureInv
  <2>2. program' = program
    BY DEF Next, Main, NetThread, Terminated, MayFail, CreateModule,
           Initialize, ConnectSlots, StartCapture, Sleep, StopCapture,
           Invoke, Wait, EnterGetNetworks, LeaveGetNetworks,
           GetAnyAddressNetworks, Stop, StartProbe, DeleteSlots,
           DeleteSource, StartUpdating, StopUpdating, UpdateFails,
           MergeNetworkList, Merged, SignalNetworksChanged, StopTrial,
           NetThreadExits, OnFrame, FrameDone, Returns, Enters, Fails,
           Crashes, Message, OnNetworksChanged, vars, mainVars, objectVars,
           deviceVars, netVars
  <2> QED
    BY <2>1, <2>2, AudioAt, EarlyReturn, ProgramsDiffer
<1>1. inside' => pc' = 6 /\ ~capturing'
  <2>1. /\ At("StopCapture") => pc = 6
        /\ ~At("StartUpdating") /\ ~At("StopUpdating") /\ ~At("GetNetworks") /\ ~At("Stop")
    BY <1>0
  <2>2. inside => pc = 6 /\ ~capturing
    BY DEF CaptureInv
  <2> QED
    BY <2>1, <2>2, InsideNext
<1> USE DEF Next, Main, NetThread, Terminated, MayFail, CreateModule,
           Initialize, ConnectSlots, StartCapture, Sleep, StopCapture,
           Invoke, Wait, EnterGetNetworks, LeaveGetNetworks,
           GetAnyAddressNetworks, Stop, StartProbe, DeleteSlots,
           DeleteSource, StartUpdating, StopUpdating, UpdateFails,
           MergeNetworkList, Merged, SignalNetworksChanged, StopTrial,
           NetThreadExits, OnFrame, FrameDone, Returns, Enters, Fails,
           Crashes, Message, OnNetworksChanged, vars, mainVars, objectVars,
           deviceVars, netVars
<1>2. pc' \in 1..9
  BY <1>0 DEF CaptureInv, Quiet
<1>3. net' = "idle" /\ messages' = <<>>
  BY <1>0 DEF CaptureInv, Quiet
<1>4. capturing' \/ frame' => pc' \in {5, 6}
  BY <1>0 DEF CaptureInv, Quiet
<1>5. pc' \in 4..6 => slots' = "alive"
  BY <1>0 DEF CaptureInv, Quiet
<1>6. program' = AudioDemo /\ pc' = 3 => slots' = "alive"
  BY <1>0 DEF CaptureInv, Quiet
<1>7. slots' = "deleted" \/ source' = "deleted" => pc' >= 8
  BY <1>0 DEF CaptureInv, Quiet, Types, Life
<1> QED
  BY <1>0, <1>1, <1>2, <1>3, <1>4, <1>5, <1>6, <1>7 DEF CaptureInv, Quiet, Starting, Updating, Stopping

(* 08 keeps its invariant.                                                 *)
LEMMA NetworkNext ==
  ASSUME Types, program = NetworkDemo, NetworkInv, [Next]_vars
  PROVE  NetworkInv'
<1>0. /\ program' = program /\ Len(program) = 10 /\ pc \in 1..11
      /\ program # VideoDemo /\ program # AudioDemo
      /\ \A call : At(call) =>
           \/ pc = 1 /\ call = "Initialize"
           \/ pc = 2 /\ call = "ConnectSlots"
           \/ pc = 3 /\ call = "StartUpdating"
           \/ pc = 4 /\ call = "Wait"
           \/ pc = 5 /\ call = "GetNetworks"
           \/ pc = 6 /\ call = "GetAnyAddressNetworks"
           \/ pc = 7 /\ call = "StopUpdating"
           \/ pc = 8 /\ call = "Stop"
           \/ pc = 9 /\ call = "DeleteSlots"
           \/ pc = 10 /\ call = "DeleteSource"
  <2>1. pc \in 1..11
    BY DEF NetworkInv
  <2>2. program' = program
    BY DEF Next, Main, NetThread, Terminated, MayFail, CreateModule,
           Initialize, ConnectSlots, StartCapture, Sleep, StopCapture,
           Invoke, Wait, EnterGetNetworks, LeaveGetNetworks,
           GetAnyAddressNetworks, Stop, StartProbe, DeleteSlots,
           DeleteSource, StartUpdating, StopUpdating, UpdateFails,
           MergeNetworkList, Merged, SignalNetworksChanged, StopTrial,
           NetThreadExits, OnFrame, FrameDone, Returns, Enters, Fails,
           Crashes, Message, OnNetworksChanged, vars, mainVars, objectVars,
           deviceVars, netVars
  <2> QED
    BY <2>1, <2>2, NetworkAt, EarlyReturn, ProgramsDiffer
<1>1. inside' => pc' \in {3, 5, 7, 8}
  <2>1. /\ ~At("StopCapture")
        /\ At("StartUpdating") => pc = 3
        /\ At("GetNetworks") => pc = 5
        /\ At("StopUpdating") => pc = 7
        /\ At("Stop") => pc = 8
    BY <1>0
  <2>2. inside => pc \in {3, 5, 7, 8}
    BY DEF NetworkInv
  <2> QED
    BY <2>1, <2>2, InsideNext
<1> USE DEF Next, Main, NetThread, Terminated, MayFail, CreateModule,
           Initialize, ConnectSlots, StartCapture, Sleep, StopCapture,
           Invoke, Wait, EnterGetNetworks, LeaveGetNetworks,
           GetAnyAddressNetworks, Stop, StartProbe, DeleteSlots,
           DeleteSource, StartUpdating, StopUpdating, UpdateFails,
           MergeNetworkList, Merged, SignalNetworksChanged, StopTrial,
           NetThreadExits, OnFrame, FrameDone, Returns, Enters, Fails,
           Crashes, Message, OnNetworksChanged, vars, mainVars, objectVars,
           deviceVars, netVars
<1>2. pc' \in 1..11
  BY <1>0, Queues DEF NetworkInv, Quiet, Starting, Updating, Stopping
<1>3. ~capturing' /\ ~frame'
  BY <1>0, Queues DEF NetworkInv, Quiet, Starting, Updating, Stopping
<1>5. pc' \in 3..9 => slots' = "alive"
  BY <1>0, Queues DEF NetworkInv, Quiet, Starting, Updating, Stopping
<1>6. source' = "deleted" => pc' = 11
  BY <1>0, Queues DEF NetworkInv, Quiet, Starting, Updating, Stopping, Types, Life
<1>8. pc' <= 2 \/ (pc' = 3 /\ ~inside') => Quiet'
  BY <1>0, Queues DEF NetworkInv, Quiet, Starting, Updating, Stopping
<1>9. pc' = 3 /\ inside' => Starting'
  <2>1. CASE Main
    BY <1>0, <2>1, Queues DEF NetworkInv, Quiet, Starting, Updating, Stopping
  <2>2. CASE StartUpdating
    BY <1>0, <2>2, Queues DEF NetworkInv, Quiet, Starting, Updating, Stopping
  <2>3. CASE StopUpdating
    BY <1>0, <2>3, Queues DEF NetworkInv, Quiet, Starting, Updating, Stopping
  <2>4. CASE UpdateFails
    BY <1>0, <2>4, Queues DEF NetworkInv, Quiet, Starting, Updating, Stopping
  <2>5. CASE MergeNetworkList
    BY <1>0, <2>5, Queues DEF NetworkInv, Quiet, Starting, Updating, Stopping
  <2>6. CASE Merged
    BY <1>0, <2>6, Queues DEF NetworkInv, Quiet, Starting, Updating, Stopping
  <2>7. CASE SignalNetworksChanged
    BY <1>0, <2>7, Queues DEF NetworkInv, Quiet, Starting, Updating, Stopping
  <2>8. CASE StopTrial
    BY <1>0, <2>8, Queues DEF NetworkInv, Quiet, Starting, Updating, Stopping
  <2>9. CASE NetThreadExits
    BY <1>0, <2>9, Queues DEF NetworkInv, Quiet, Starting, Updating, Stopping
  <2>10. CASE OnFrame \/ FrameDone
    BY <1>0, <2>10, Queues DEF NetworkInv, Quiet, Starting, Updating, Stopping
  <2>11. CASE UNCHANGED vars
    BY <1>0, <2>11, Queues DEF NetworkInv, Quiet, Starting, Updating, Stopping
  <2> QED
    BY <2>1, <2>2, <2>3, <2>4, <2>5, <2>6, <2>7, <2>8, <2>9, <2>10, <2>11
<1>10. pc' \in 4..6 \/ (pc' = 7 /\ ~inside') => Updating'
  <2>1. CASE Main
    <3>1. CASE Invoke
      BY <1>0, <3>1, Queues DEF NetworkInv, Quiet, Starting, Updating, Stopping
    <3>2. CASE UNCHANGED <<net, messages>>
      BY <1>0, <2>1, <3>2 DEF NetworkInv, Quiet, Starting, Updating, Stopping
    <3> QED
      BY <2>1, <3>1, <3>2
  <2>2. CASE StartUpdating
    <3>1. messages # <<>> /\ Head(messages) = "StartUpdating" /\ net = "idle"
      BY <2>2
    <3>2. messages = <<"StartUpdating">>
      BY <1>0, <3>1, Queues DEF NetworkInv, Quiet, Starting, Updating, Stopping
    <3>3. messages' = <<"Update">> /\ net' = net
      BY <2>2, <3>2, Queues
    <3> QED
      BY <3>1, <3>3 DEF Updating
  <2>3. CASE StopUpdating
    BY <1>0, <2>3, Queues DEF NetworkInv, Quiet, Starting, Updating, Stopping
  <2>4. CASE UpdateFails
    BY <1>0, <2>4, Queues DEF NetworkInv, Quiet, Starting, Updating, Stopping
  <2>5. CASE MergeNetworkList
    BY <1>0, <2>5, Queues DEF NetworkInv, Quiet, Starting, Updating, Stopping
  <2>6. CASE Merged
    BY <1>0, <2>6, Queues DEF NetworkInv, Quiet, Starting, Updating, Stopping
  <2>7. CASE SignalNetworksChanged
    BY <1>0, <2>7, Queues DEF NetworkInv, Quiet, Starting, Updating, Stopping
  <2>8. CASE StopTrial
    BY <1>0, <2>8, Queues DEF NetworkInv, Quiet, Starting, Updating, Stopping
  <2>9. CASE NetThreadExits
    BY <1>0, <2>9, Queues DEF NetworkInv, Quiet, Starting, Updating, Stopping
  <2>10. CASE OnFrame \/ FrameDone
    BY <1>0, <2>10, Queues DEF NetworkInv, Quiet, Starting, Updating, Stopping
  <2>11. CASE UNCHANGED vars
    BY <1>0, <2>11, Queues DEF NetworkInv, Quiet, Starting, Updating, Stopping
  <2> QED
    BY <2>1, <2>2, <2>3, <2>4, <2>5, <2>6, <2>7, <2>8, <2>9, <2>10, <2>11
<1>11. pc' = 7 /\ inside' => Stopping'
  <2>1. CASE Main
    <3>1. CASE Invoke
      BY <1>0, <3>1, Queues DEF NetworkInv, Quiet, Starting, Updating, Stopping
    <3>2. CASE UNCHANGED <<net, messages>>
      BY <1>0, <2>1, <3>2 DEF NetworkInv, Quiet, Starting, Updating, Stopping
    <3> QED
      BY <2>1, <3>1, <3>2
  <2>2. CASE StartUpdating
    BY <1>0, <2>2, Queues DEF NetworkInv, Quiet, Starting, Updating, Stopping
  <2>3. CASE StopUpdating
    BY <1>0, <2>3, Queues DEF NetworkInv, Quiet, Starting, Updating, Stopping
  <2>4. CASE UpdateFails
    BY <1>0, <2>4, Queues DEF NetworkInv, Quiet, Starting, Updating, Stopping
  <2>5. CASE MergeNetworkList
    BY <1>0, <2>5, Queues DEF NetworkInv, Quiet, Starting, Updating, Stopping
  <2>6. CASE Merged
    BY <1>0, <2>6, Queues DEF NetworkInv, Quiet, Starting, Updating, Stopping
  <2>7. CASE SignalNetworksChanged
    BY <1>0, <2>7, Queues DEF NetworkInv, Quiet, Starting, Updating, Stopping
  <2>8. CASE StopTrial
    BY <1>0, <2>8, Queues DEF NetworkInv, Quiet, Starting, Updating, Stopping
  <2>9. CASE NetThreadExits
    BY <1>0, <2>9, Queues DEF NetworkInv, Quiet, Starting, Updating, Stopping
  <2>10. CASE OnFrame \/ FrameDone
    BY <1>0, <2>10, Queues DEF NetworkInv, Quiet, Starting, Updating, Stopping
  <2>11. CASE UNCHANGED vars
    BY <1>0, <2>11, Queues DEF NetworkInv, Quiet, Starting, Updating, Stopping
  <2> QED
    BY <2>1, <2>2, <2>3, <2>4, <2>5, <2>6, <2>7, <2>8, <2>9, <2>10, <2>11
<1>12. pc' = 8 => net' \in {"idle", "exited"} /\ messages' = <<>> /\ (~inside' => net' = "idle")
  BY <1>0, Queues DEF NetworkInv, Quiet, Starting, Updating, Stopping
<1>13. pc' >= 9 => net' = "exited" /\ messages' = <<>>
  BY <1>0, Queues DEF NetworkInv, Quiet, Starting, Updating, Stopping
<1> QED
  BY <1>0, <1>1, <1>2, <1>3, <1>5, <1>6, <1>8, <1>9, <1>10, <1>11, <1>12, <1>13
     DEF NetworkInv, Quiet, Starting, Updating, Stopping

(* 09 keeps its invariant.                                                 *)
LEMMA StunNext ==
  ASSUME Types, program = StunDemo, StunInv, [Next]_vars
  PROVE  StunInv'
<1>0. /\ program' = program /\ Len(program) = 8 /\ pc \in 1..9
      /\ EndOfMain = 9
      /\ program # NetworkDemo
      /\ program # VideoDemo /\ program # AudioDemo
      /\ \A call : At(call) =>
           \/ pc = 1 /\ call = "Prepare"
           \/ pc = 2 /\ call = "Initialize"
           \/ pc = 3 /\ call = "ConnectSlots"
           \/ pc = 4 /\ call = "StartUpdating"
           \/ pc = 5 /\ call = "Wait"
           \/ pc = 6 /\ call = "GetNetworks"
           \/ pc = 7 /\ call = "StartProbe"
           \/ pc = 8 /\ call = "WaitForever"
  <2>1. pc \in 1..9
    BY DEF StunInv
  <2>2. program' = program
    BY DEF Next, Main, NetThread, Terminated, MayFail, CreateModule,
           Initialize, ConnectSlots, StartCapture, Sleep, StopCapture,
           Invoke, Wait, EnterGetNetworks, LeaveGetNetworks,
           GetAnyAddressNetworks, Stop, StartProbe, DeleteSlots,
           DeleteSource, StartUpdating, StopUpdating, UpdateFails,
           MergeNetworkList, Merged, SignalNetworksChanged, StopTrial,
           NetThreadExits, OnFrame, FrameDone, Returns, Enters, Fails,
           Crashes, Message, OnNetworksChanged, vars, mainVars, objectVars,
           deviceVars, netVars
  <2> QED
    BY <2>1, <2>2, StunAt, EarlyReturn, ProgramsDiffer
<1>1. inside' => pc' \in {4, 6}
  <2>1. /\ ~At("StopCapture") /\ ~At("StopUpdating") /\ ~At("Stop")
        /\ At("StartUpdating") => pc = 4
        /\ At("GetNetworks") => pc = 6
    BY <1>0
  <2>2. inside => pc \in {4, 6}
    BY DEF StunInv
  <2> QED
    BY <2>1, <2>2, InsideNext
<1> USE DEF Next, Main, NetThread, Terminated, MayFail, CreateModule,
           Initialize, ConnectSlots, StartCapture, Sleep, StopCapture,
           Invoke, Wait, EnterGetNetworks, LeaveGetNetworks,
           GetAnyAddressNetworks, Stop, StartProbe, DeleteSlots,
           DeleteSource, StartUpdating, StopUpdating, UpdateFails,
           MergeNetworkList, Merged, SignalNetworksChanged, StopTrial,
           NetThreadExits, OnFrame, FrameDone, Returns, Enters, Fails,
           Crashes, Message, OnNetworksChanged, vars, mainVars, objectVars,
           deviceVars, netVars
<1>2. pc' \in 1..9
  BY <1>0, Queues DEF StunInv, Quiet, Starting, Updating, Stopping
<1>3. ~capturing' /\ ~frame'
  BY <1>0, Queues DEF StunInv, Quiet, Starting, Updating, Stopping
<1>5. pc' \in 4..8 => slots' = "alive"
  BY <1>0, Queues DEF StunInv, Quiet, Starting, Updating, Stopping
<1>6. source' # "deleted"
  BY <1>0, Queues DEF StunInv, Quiet, Starting, Updating, Stopping
<1>7. pc' <= 3 \/ (pc' = 4 /\ ~inside') \/ pc' = 9 => Quiet'
  BY <1>0, Queues DEF StunInv, Quiet, Starting, Updating, Stopping
<1>8. pc' = 4 /\ inside' => Starting'
  <2>1. CASE Main
    BY <1>0, <2>1, Queues DEF StunInv, Quiet, Starting, Updating, Stopping
  <2>2. CASE StartUpdating
    BY <1>0, <2>2, Queues DEF StunInv, Quiet, Starting, Updating, Stopping
  <2>3. CASE StopUpdating
    BY <1>0, <2>3, Queues DEF StunInv, Quiet, Starting, Updating, Stopping
  <2>4. CASE UpdateFails
    BY <1>0, <2>4, Queues DEF StunInv, Quiet, Starting, Updating, Stopping
  <2>5. CASE MergeNetworkList
    BY <1>0, <2>5, Queues DEF StunInv, Quiet, Starting, Updating, Stopping
  <2>6. CASE Merged
    BY <1>0, <2>6, Queues DEF StunInv, Quiet, Starting, Updating, Stopping
  <2>7. CASE SignalNetworksChanged
    BY <1>0, <2>7, Queues DEF StunInv, Quiet, Starting, Updating, Stopping
  <2>8. CASE StopTrial
    BY <1>0, <2>8, Queues DEF StunInv, Quiet, Starting, Updating, Stopping
  <2>9. CASE NetThreadExits
    BY <1>0, <2>9, Queues DEF StunInv, Quiet, Starting, Updating, Stopping
  <2>10. CASE OnFrame \/ FrameDone
    BY <1>0, <2>10, Queues DEF StunInv, Quiet, Starting, Updating, Stopping
  <2>11. CASE UNCHANGED vars
    BY <1>0, <2>11, Queues DEF StunInv, Quiet, Starting, Updating, Stopping
  <2> QED
    BY <2>1, <2>2, <2>3, <2>4, <2>5, <2>6, <2>7, <2>8, <2>9, <2>10, <2>11
<1>9. pc' \in 5..8 => Updating'
  <2>1. CASE Main
    <3>1. CASE Invoke
      BY <1>0, <3>1, Queues DEF StunInv, Quiet, Starting, Updating, Stopping
    <3>2. CASE UNCHANGED <<net, messages>>
      BY <1>0, <2>1, <3>2 DEF StunInv, Quiet, Starting, Updating, Stopping
    <3> QED
      BY <2>1, <3>1, <3>2
  <2>2. CASE StartUpdating
    <3>1. messages # <<>> /\ Head(messages) = "StartUpdating" /\ net = "idle"
      BY <2>2
    <3>2. messages = <<"StartUpdating">>
      BY <1>0, <3>1, Queues DEF StunInv, Quiet, Starting, Updating
    <3>3. messages' = <<"Update">> /\ net' = net
      BY <2>2, <3>2, Queues
    <3> QED
      BY <3>1, <3>3 DEF Updating
  <2>3. CASE StopUpdating
    BY <1>0, <2>3, Queues DEF StunInv, Quiet, Starting, Updating, Stopping
  <2>4. CASE UpdateFails
    BY <1>0, <2>4, Queues DEF StunInv, Quiet, Starting, Updating, Stopping
  <2>5. CASE MergeNetworkList
    BY <1>0, <2>5, Queues DEF StunInv, Quiet, Starting, Updating, Stopping
  <2>6. CASE Merged
    BY <1>0, <2>6, Queues DEF StunInv, Quiet, Starting, Updating, Stopping
  <2>7. CASE SignalNetworksChanged
    BY <1>0, <2>7, Queues DEF StunInv, Quiet, Starting, Updating, Stopping
  <2>8. CASE StopTrial
    BY <1>0, <2>8, Queues DEF StunInv, Quiet, Starting, Updating, Stopping
  <2>9. CASE NetThreadExits
    BY <1>0, <2>9, Queues DEF StunInv, Quiet, Starting, Updating, Stopping
  <2>10. CASE OnFrame \/ FrameDone
    BY <1>0, <2>10, Queues DEF StunInv, Quiet, Starting, Updating, Stopping
  <2>11. CASE UNCHANGED vars
    BY <1>0, <2>11, Queues DEF StunInv, Quiet, Starting, Updating, Stopping
  <2> QED
    BY <2>1, <2>2, <2>3, <2>4, <2>5, <2>6, <2>7, <2>8, <2>9, <2>10, <2>11
<1> QED
  BY <1>0, <1>1, <1>2, <1>3, <1>5, <1>6, <1>7, <1>8, <1>9 DEF StunInv, Quiet, Starting, Updating, Stopping

-----------------------------------------------------------------------------
(* The invariant is inductive.                                             *)
LEMMA DemoNext ==
  ASSUME DemoInv, [Next]_vars
  PROVE  DemoInv'
<1>1. Types
  BY DEF DemoInv
<1>2. Types'
  BY <1>1, TypesNext
<1>3. program' = program
  BY DEF Next, Main, NetThread, Terminated, MayFail, CreateModule,
         Initialize, ConnectSlots, StartCapture, Sleep, StopCapture,
         Invoke, Wait, EnterGetNetworks, LeaveGetNetworks,
         GetAnyAddressNetworks, Stop, StartProbe, DeleteSlots,
         DeleteSource, StartUpdating, StopUpdating, UpdateFails,
         MergeNetworkList, Merged, SignalNetworksChanged, StopTrial,
         NetThreadExits, OnFrame, FrameDone, Returns, Enters, Fails,
         Crashes, Message, OnNetworksChanged, vars, mainVars, objectVars,
         deviceVars, netVars
<1>4. CASE program = VideoDemo /\ CaptureInv
  BY <1>1, <1>2, <1>3, <1>4, VideoNext DEF DemoInv
<1>5. CASE program = AudioDemo /\ CaptureInv
  BY <1>1, <1>2, <1>3, <1>5, AudioNext DEF DemoInv
<1>6. CASE program = NetworkDemo /\ NetworkInv
  BY <1>1, <1>2, <1>3, <1>6, NetworkNext DEF DemoInv
<1>7. CASE program = StunDemo /\ StunInv
  BY <1>1, <1>2, <1>3, <1>7, StunNext DEF DemoInv
<1> QED
  BY <1>4, <1>5, <1>6, <1>7 DEF DemoInv

(* It holds initially.                                                     *)
LEMMA DemoInit ==
  ASSUME Init
  PROVE  DemoInv
<1>1. Types
  <2>1. messages \in Seq({"StartUpdating", "Update", "StopUpdating"})
    BY DEF Init
  <2>2. list \subseteq Networks \cup AnyAddress /\ networks_ \subseteq Networks
    BY DEF Init
  <2>3. program \in {VideoDemo, AudioDemo, NetworkDemo, StunDemo}
    BY DEF Init
  <2> QED
    BY <2>1, <2>2, <2>3 DEF Init, Types, Life
<1>2. CaptureInv /\ NetworkInv /\ StunInv
  BY DEF Init, CaptureInv, NetworkInv, StunInv, Quiet
<1> QED
  BY <1>1, <1>2 DEF DemoInv, Init

(* So it holds always.                                                     *)
LEMMA DemoAlways == Spec => []DemoInv
<1>1. Init => DemoInv
  BY DemoInit
<1>2. DemoInv /\ [Next]_vars => DemoInv'
  BY DemoNext
<1> QED
  BY <1>1, <1>2, PTL DEF Spec

(* Main stops the source before it destroys the source or what the source  *)
(* calls back, on every path of the four programs, early returns included. *)
THEOREM StoppedBeforeDestroyed == Spec => []OwnedUntilAtRest
<1>1. DemoInv => OwnedUntilAtRest
  <2> SUFFICES ASSUME DemoInv
               PROVE  OwnedUntilAtRest
    OBVIOUS
  <2>1. Types
    BY DEF DemoInv
  <2>2. ASSUME program \in {VideoDemo, AudioDemo}, CaptureInv
        PROVE  pc \in 1..(Len(program) + 1) /\ CalledBackAlive /\ SourceAtRest
    <3>1. Len(program) = 8
      BY <2>2 DEF VideoDemo, AudioDemo
    <3>2. program # NetworkDemo
      BY <2>2, ProgramsDiffer
    <3> QED
      BY <2>2, <3>1, <3>2 DEF CaptureInv, Quiet, CalledBackAlive, SourceAtRest
  <2>3. ASSUME program = NetworkDemo, NetworkInv
        PROVE  pc \in 1..(Len(program) + 1) /\ CalledBackAlive /\ SourceAtRest
    <3>1. Len(program) = 10
      BY <2>3 DEF NetworkDemo
    <3> QED
      BY <2>3, <3>1 DEF NetworkInv, Quiet, Starting, Updating, Stopping,
                        CalledBackAlive, SourceAtRest
  <2>4. ASSUME program = StunDemo, StunInv
        PROVE  pc \in 1..(Len(program) + 1) /\ CalledBackAlive /\ SourceAtRest
    <3>1. Len(program) = 8
      BY <2>4 DEF StunDemo
    <3> QED
      BY <2>4, <3>1 DEF StunInv, Quiet, Starting, Updating, CalledBackAlive, SourceAtRest
  <2>5. pc \in 1..(Len(program) + 1) /\ CalledBackAlive /\ SourceAtRest
    BY <2>2, <2>3, <2>4 DEF DemoInv
  <2>6. TypeOK
    BY <2>1, <2>5 DEF Types, TypeOK
  <2> QED
    BY <2>5, <2>6 DEF OwnedUntilAtRest
<1> QED
  BY <1>1, DemoAlways, PTL
=============================================================================
