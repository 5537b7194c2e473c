---------------------------- MODULE DeviceDemos -----------------------------
(***************************************************************************)
(* 06_rtc_video_capture, 07_rtc_audio_capture, 08_rtc_network and          *)
(* 09_rtc_stun: main sets up a source (a capture device, or a network      *)
(* manager on net_thread) that calls back, on a thread of its own, into an *)
(* object that main owns; main starts it, sleeps or waits for a callback,  *)
(* stops it and destroys everything.  09 ends with a STUN probe and a wait *)
(* for ever.                                                               *)
(*                                                                         *)
(* The sources, rtc::Thread and the prober are external.  StopCapture and  *)
(* StopRecording return when no callback is running any more.  The network *)
(* manager does what network.h:133-147 promises: an enumeration fails and  *)
(* emits SignalError, or succeeds and emits SignalNetworksChanged, the     *)
(* first time and whenever the list has changed; it is repeated until      *)
(* StopUpdating.                                                           *)
(***************************************************************************)
EXTENDS Naturals, Sequences

CONSTANT Networks   \* networks the host may have

(* What main does, up to the destructors at the end of its scope.          *)
VideoDemo == <<"FindDevice", "CreateModule", "ConnectSlots", "StartCapture",
               "Sleep", "StopCapture", "DeleteSlots", "DeleteSource">>

AudioDemo == <<"CreateModule", "ConnectSlots", "InitRecording", "StartCapture",
               "Sleep", "StopCapture", "DeleteSource", "DeleteSlots">>

NetworkDemo == <<"Initialize", "ConnectSlots", "StartUpdating", "Wait",
                 "GetNetworks", "GetAnyAddressNetworks", "StopUpdating",
                 "Stop", "DeleteSlots", "DeleteSource">>

StunDemo == <<"Prepare", "Initialize", "ConnectSlots", "StartUpdating",
              "Wait", "GetNetworks", "StartProbe", "WaitForever">>

VARIABLES
  program,     \* one of the above
  pc,          \* index of main's next call
  inside,      \* main is inside that call
  list,        \* the networks main read
  wait_update, \* the event
  slots,       \* the object called back: "none", "alive", "deleted"
  connected,   \* the source holds a pointer to it
  source,      \* device module or network manager, likewise
  capturing,   \* the device delivers frames
  frame,       \* its thread is in OnFrame or OnCaptureData
  messages,    \* net_thread: messages to run
  net,         \* net_thread: "idle", "merge", "signal", "exited"
  sentFirst,   \* SignalNetworksChanged has been emitted
  networks_,   \* the manager's list
  changed,     \* result of the merge that is going on
  found,       \* history: an enumeration has found a network
  torn,        \* main's copy of networks_ has met a merge
  probe        \* "none", "running", "finished"

mainVars   == <<program, pc, inside, list>>
objectVars == <<slots, connected, source>>
deviceVars == <<capturing, frame>>
netVars    == <<messages, net, sentFirst, networks_, changed, found, torn>>
vars == <<mainVars, wait_update, objectVars, deviceVars, netVars, probe>>

Ended    == pc > Len(program)
At(call) == ~Ended /\ program[pc] = call

AnyAddress == {"any"}
Life == {"none", "alive", "deleted"}

TypeOK ==
  /\ program \in {VideoDemo, AudioDemo, NetworkDemo, StunDemo}
  /\ pc \in 1..(Len(program) + 1)
  /\ inside \in BOOLEAN /\ wait_update \in BOOLEAN
  /\ list \subseteq Networks \cup AnyAddress
  /\ slots \in Life /\ source \in Life /\ connected \in BOOLEAN
  /\ capturing \in BOOLEAN /\ frame \in BOOLEAN
  /\ messages \in Seq({"StartUpdating", "Update", "StopUpdating"})
  /\ net \in {"idle", "merge", "signal", "exited"}
  /\ networks_ \subseteq Networks
  /\ sentFirst \in BOOLEAN /\ changed \in BOOLEAN
  /\ found \in BOOLEAN /\ torn \in BOOLEAN
  /\ probe \in {"none", "running", "finished"}

Init ==
  /\ program \in {VideoDemo, AudioDemo, NetworkDemo, StunDemo}
  /\ pc = 1 /\ inside = FALSE /\ list = {} /\ wait_update = FALSE
  /\ slots = "none" /\ connected = FALSE /\ source = "none"
  /\ capturing = FALSE /\ frame = FALSE
  /\ messages = <<>> /\ net = "idle"
  /\ sentFirst = FALSE /\ networks_ = {} /\ changed = FALSE
  /\ found = FALSE /\ torn = FALSE
  /\ probe = "none"

-----------------------------------------------------------------------------
(* Main.                                                                   *)
Returns == pc' = pc + 1 /\ inside' = FALSE /\ UNCHANGED program
Enters  == inside' = TRUE /\ UNCHANGED <<program, pc>>

(* An early return runs the destructors; a crash runs nothing.             *)
Destructors == {"DeleteSlots", "DeleteSource"}
EndOfMain ==
  CHOOSE i \in 1..(Len(program) + 1) :
    /\ i <= Len(program) => program[i] \in Destructors
    /\ \A j \in 1..(i - 1) : program[j] \notin Destructors
Fails   == pc' = EndOfMain /\ inside' = FALSE /\ UNCHANGED program
Crashes == pc' = Len(program) + 1 /\ inside' = FALSE /\ UNCHANGED program

(* Steps that can only fail: in 06 no device, no name or no capability; in *)
(* 09 a wrong argument, SSL or the random generator; in 07 InitRecording.  *)
MayFail ==
  /\ \E call \in {"FindDevice", "Prepare", "InitRecording"} : At(call)
  /\ Returns \/ Fails
  /\ UNCHANGED <<list, wait_update, objectVars, deviceVars, netVars, probe>>

(* The factory may return null, which main dereferences.  In 07 the module *)
(* is given its observer here, and Init may fail.                          *)
CreateModule ==
  /\ At("CreateModule")
  /\ \/ Crashes /\ UNCHANGED <<source, slots>>
     \/ /\ source' = "alive"
        /\ slots' = IF program = AudioDemo THEN "alive" ELSE slots
        /\ Returns \/ (program = AudioDemo /\ Fails)
  /\ UNCHANGED <<list, wait_update, connected, deviceVars, netVars, probe>>

Initialize ==
  /\ At("Initialize")
  /\ source' = "alive"
  /\ Returns
  /\ UNCHANGED <<list, wait_update, slots, connected, deviceVars, netVars,
                 probe>>

(* Mutant of ConnectSlots: SignalNetworksChanged is left out.              *)
ConnectSlotsErrorOnly ==
  /\ At("ConnectSlots")
  /\ slots' = "alive"
  /\ Returns
  /\ UNCHANGED <<list, wait_update, connected, source, deviceVars, netVars,
                 probe>>

(* The sink is registered, or the slots are connected.                     *)
ConnectSlots ==
  /\ At("ConnectSlots")
  /\ slots' = "alive" /\ connected' = TRUE
  /\ Returns
  /\ UNCHANGED <<list, wait_update, source, deviceVars, netVars, probe>>

(* The result of StartCapture and StartRecording is ignored.               *)
StartCapture ==
  /\ At("StartCapture")
  /\ capturing' \in BOOLEAN
  /\ Returns
  /\ UNCHANGED <<list, wait_update, objectVars, frame, netVars, probe>>

Sleep ==
  /\ At("Sleep")
  /\ Returns
  /\ UNCHANGED <<list, wait_update, objectVars, deviceVars, netVars, probe>>

(* Mutant of StopCapture: it does not wait for a frame under way.          *)
StopCaptureAsync ==
  /\ At("StopCapture")
  /\ capturing' = FALSE
  /\ Returns
  /\ UNCHANGED <<list, wait_update, objectVars, frame, netVars, probe>>

(* It stops the thread and waits for it.                                   *)
StopCapture ==
  /\ At("StopCapture")
  /\ capturing' = FALSE
  /\ IF inside THEN ~frame /\ Returns ELSE Enters
  /\ UNCHANGED <<list, wait_update, objectVars, frame, netVars, probe>>

(* Invoke of StartUpdating or StopUpdating: the call returns when          *)
(* net_thread has run it.                                                  *)
Invoke ==
  /\ ~inside
  /\ \E call \in {"StartUpdating", "StopUpdating"} :
       At(call) /\ messages' = Append(messages, call)
  /\ Enters
  /\ UNCHANGED <<list, wait_update, objectVars, deviceVars, net, sentFirst,
                 networks_, changed, found, torn, probe>>

(* wait_update resets itself when a wait ends.                             *)
Wait ==
  /\ At("Wait") /\ wait_update
  /\ wait_update' = FALSE
  /\ Returns
  /\ UNCHANGED <<list, objectVars, deviceVars, netVars, probe>>

(* GetNetworks copies the manager's list: main enters the manager, and     *)
(* leaves it with the list.  When net_thread merges meanwhile that is a    *)
(* data race: main gets any list, or the process dies.                     *)
EnterGetNetworks ==
  /\ At("GetNetworks") /\ ~inside
  /\ Enters
  /\ torn' = (net = "merge")
  /\ UNCHANGED <<list, wait_update, objectVars, deviceVars, messages, net,
                 sentFirst, networks_, changed, found, probe>>

LeaveGetNetworks ==
  /\ At("GetNetworks") /\ inside
  /\ list' \in IF torn THEN SUBSET Networks ELSE {networks_}
  /\ Returns
  /\ UNCHANGED <<wait_update, objectVars, deviceVars, netVars, probe>>

(* Only when the list is empty.  The rest of the program logs it.          *)
GetAnyAddressNetworks ==
  /\ At("GetAnyAddressNetworks")
  /\ list' = IF list = {} THEN AnyAddress ELSE list
  /\ Returns
  /\ UNCHANGED <<wait_update, objectVars, deviceVars, netVars, probe>>

(* Stop waits for net_thread, which runs what is ready and exits.          *)
Stop ==
  /\ At("Stop")
  /\ IF inside THEN net = "exited" /\ Returns ELSE Enters
  /\ UNCHANGED <<list, wait_update, objectVars, deviceVars, netVars, probe>>

(* The destructors.  The slots of 08 disconnect themselves, the sink of 06 *)
(* does not: the module keeps its pointer.                                 *)
DeleteSlots ==
  /\ At("DeleteSlots")
  /\ slots' = IF slots = "alive" THEN "deleted" ELSE slots
  /\ connected' = (connected /\ program = VideoDemo)
  /\ Returns
  /\ UNCHANGED <<list, wait_update, source, deviceVars, netVars, probe>>

DeleteSource ==
  /\ At("DeleteSource")
  /\ source' = IF source = "alive" THEN "deleted" ELSE source
  /\ Returns
  /\ UNCHANGED <<list, wait_update, slots, connected, deviceVars, netVars,
                 probe>>

(* The prober is created with the list and started; its result is ignored. *)
StartProbe ==
  /\ At("StartProbe")
  /\ probe' = "running"
  /\ Returns
  /\ UNCHANGED <<list, wait_update, objectVars, deviceVars, netVars>>

-----------------------------------------------------------------------------
(* The capture thread.                                                     *)
OnFrame ==
  /\ capturing /\ connected /\ ~frame
  /\ frame' = TRUE
  /\ UNCHANGED <<mainVars, wait_update, objectVars, capturing, netVars, probe>>

FrameDone ==
  /\ frame
  /\ frame' = FALSE
  /\ UNCHANGED <<mainVars, wait_update, objectVars, capturing, netVars, probe>>

-----------------------------------------------------------------------------
(* net_thread.                                                             *)
Message(m) == net = "idle" /\ messages # <<>> /\ Head(messages) = m

StartUpdating ==
  /\ Message("StartUpdating")
  /\ messages' = Append(Tail(messages), "Update")
  /\ Returns
  /\ UNCHANGED <<list, wait_update, objectVars, deviceVars, net, sentFirst,
                 networks_, changed, found, torn, probe>>

(* Updates that wait are cancelled; nothing else waits behind a call of    *)
(* main, which has not returned.                                           *)
StopUpdating ==
  /\ Message("StopUpdating")
  /\ messages' = <<>>
  /\ Returns
  /\ UNCHANGED <<list, wait_update, objectVars, deviceVars, net, sentFirst,
                 networks_, changed, found, torn, probe>>

(* UpdateNetworksOnce.  A failure emits SignalError: OnError of 08 logs,   *)
(* 09 has no slot for it.  The next update is scheduled either way.        *)
UpdateFails ==
  /\ Message("Update")
  /\ messages' = Append(Tail(messages), "Update")
  /\ UNCHANGED <<mainVars, wait_update, objectVars, deviceVars, net, sentFirst,
                 networks_, changed, found, torn, probe>>

MergeNetworkList ==
  /\ Message("Update")
  /\ messages' = Tail(messages)
  /\ net' = "merge"
  /\ torn' = (torn \/ (At("GetNetworks") /\ inside))
  /\ UNCHANGED <<mainVars, wait_update, objectVars, deviceVars, sentFirst,
                 networks_, changed, found, probe>>

Merged ==
  /\ net = "merge"
  /\ \E new \in SUBSET Networks :
       /\ networks_' = new
       /\ changed' = (new # networks_)
       /\ found' = (found \/ new # {})
  /\ net' = "signal"
  /\ UNCHANGED <<mainVars, wait_update, objectVars, deviceVars, messages,
                 sentFirst, torn, probe>>

(* SignalNetworksChanged calls OnNetworksChanged, which sets the event.    *)
OnNetworksChanged == wait_update' = (wait_update \/ connected)

SignalNetworksChanged ==
  /\ net = "signal"
  /\ IF changed \/ ~sentFirst
     THEN OnNetworksChanged /\ sentFirst' = TRUE
     ELSE UNCHANGED <<wait_update, sentFirst>>
  /\ net' = "idle"
  /\ messages' = Append(messages, "Update")
  /\ UNCHANGED <<mainVars, objectVars, deviceVars, networks_, changed, found,
                 torn, probe>>

(* The probe ends with a result: StopTrial prints it, and the statistics   *)
(* when it is a success.                                                   *)
StopTrial ==
  /\ probe = "running"
  /\ probe' = "finished"
  /\ UNCHANGED <<mainVars, wait_update, objectVars, deviceVars, netVars>>

NetThreadExits ==
  /\ net = "idle" /\ messages = <<>>
  /\ At("Stop") /\ inside
  /\ net' = "exited"
  /\ UNCHANGED <<mainVars, wait_update, objectVars, deviceVars, messages,
                 sentFirst, networks_, changed, found, torn, probe>>

-----------------------------------------------------------------------------
Main ==
  \/ MayFail \/ CreateModule \/ Initialize \/ ConnectSlots
  \/ StartCapture \/ Sleep \/ StopCapture
  \/ Invoke \/ Wait \/ EnterGetNetworks \/ LeaveGetNetworks
  \/ GetAnyAddressNetworks \/ Stop \/ StartProbe
  \/ DeleteSlots \/ DeleteSource

NetThread ==
  \/ StartUpdating \/ StopUpdating \/ UpdateFails \/ MergeNetworkList
  \/ Merged \/ SignalNetworksChanged \/ StopTrial \/ NetThreadExits

Terminated == Ended /\ ~ENABLED NetThread /\ UNCHANGED vars

Next == Main \/ NetThread \/ OnFrame \/ FrameDone \/ Terminated

Spec == Init /\ [][Next]_vars

(* The threads run; nothing is assumed of the result of an enumeration,    *)
(* and a device need not deliver a frame.                                  *)
FairSpec == Spec /\ WF_vars(Main) /\ WF_vars(NetThread) /\ WF_vars(FrameDone)

-----------------------------------------------------------------------------
(* Properties.                                                             *)

(* The programs come to an end, 09 to its last wait: 06 and 07 always, 08  *)
(* and 09 once an enumeration has found a network.  The signal that ends   *)
(* their wait without limit is not lost between the connection of the      *)
(* slots and the start, also when earlier enumerations failed or found     *)
(* nothing, and nobody waits for ever for a thread.  A program whose copy  *)
(* was torn may have died.                                                 *)
DemoEnds ==
  found \/ program \in {VideoDemo, AudioDemo}
    ~> Ended \/ At("WaitForever") \/ torn

(* The object that is called back exists as long as a callback can run:    *)
(* main has stopped the source before it destroys its sink or slots.       *)
CalledBackAlive == frame \/ (net = "signal" /\ connected) => slots = "alive"

(* A source at rest is destroyed: no update is running or waiting, and the *)
(* device is not capturing, also after an early return.                    *)
SourceAtRest ==
  source = "deleted" => /\ ~capturing /\ ~frame
                        /\ net \in {"idle", "exited"} /\ messages = <<>>
                        /\ program = NetworkDemo => net = "exited"

(* Main, which owns both, destroys neither the source nor what it calls    *)
(* back while the source is at work.                                       *)
OwnedUntilAtRest == TypeOK /\ CalledBackAlive /\ SourceAtRest
=============================================================================
