----------------------------- MODULE MCSigslot ------------------------------
(* Instances of Sigslot for model checking: programs that use it.          *)
EXTENDS Sigslot, TLC

CONSTANTS main, worker,   \* threads
          a, b, c, d,     \* slots, d a copy
          x, y, z         \* signals, z a copy

Connect(s, o)    == [op |-> "connect", sig |-> s, slot |-> o]
Disconnect(s, o) == [op |-> "disconnect", sig |-> s, slot |-> o]
Emit(s)          == [op |-> "emit", sig |-> s]
Clear(s)         == [op |-> "disconnect_all", sig |-> s]
DeleteSignal(s)  == [op |-> "~signal", sig |-> s]
Leave(o)         == [op |-> "slot_disconnect_all", slot |-> o]
DeleteSlot(o)    == [op |-> "~has_slots", slot |-> o]
CopySlotTo(o, n)   == [op |-> "copy_slot", slot |-> o, copy |-> n]
CopySignalTo(s, n) == [op |-> "copy_signal", sig |-> s, copy |-> n]
Set              == [op |-> "set"]
Wait             == [op |-> "wait"]

Quiet == [o \in Slots |-> <<>>]

Local(scripts) == [policy |-> "multi_threaded_local", script |-> scripts,
                   reaction |-> Quiet]
Single(calls, reactions) ==
  [policy |-> "single_threaded", script |-> main :> calls @@ worker :> <<>>,
   reaction |-> reactions @@ Quiet]

(* 04_rtc_sigslot: mySignal is x, mySlot1 is a, mySlot2 is b.              *)
Demo ==
  Local(main   :> <<Connect(x, b), Wait, DeleteSlot(b), Emit(x),
                    DeleteSlot(a), DeleteSignal(x)>>
     @@ worker :> <<Connect(x, a), Set>>)

(* Two threads that connect, disconnect and delete each its own slot, and  *)
(* emit; main also copies its slot.  Main copies and deletes the signals   *)
(* when the worker is done.  A slot is connected to a signal once.         *)
MaxCalls == 2

OneEach(q) == \A i, k \in DOMAIN q :
  q[i] = q[k] /\ q[i].op \in {"connect", "copy_slot"} => i = k

OwnCalls(o, more) ==
  LET calls == {Emit(x), Leave(o)} \cup {Connect(s, o) : s \in {x, y}}
                                   \cup {Disconnect(s, o) : s \in {x, y}}
                                   \cup more
  IN  UNION {{q \in [1..n -> calls] : OneEach(q)} : n \in 0..MaxCalls}

LocalPrograms ==
  {Demo} \cup
  {Local(main   :> (m \o <<DeleteSlot(a), Wait, CopySignalTo(x, z), Emit(z),
                           DeleteSignal(x), DeleteSignal(y), DeleteSignal(z)>>)
      @@ worker :> (<<Connect(x, b)>> \o w \o <<DeleteSlot(b), Set>>))
     : m \in OwnCalls(a, {CopySlotTo(a, d)}),
       w \in {q \in OwnCalls(b, {}) : OneEach(<<Connect(x, b)>> \o q)}}

(* One thread; three connections are called twice while the slots delete,  *)
(* disconnect or copy themselves or each other.  A slot connected twice is *)
(* not disconnected by name.                                               *)
Called == {a, b, c}
Deletes == {<<>>, <<Clear(x)>>, <<CopySlotTo(a, d)>>}
             \cup {<<Leave(o)>> : o \in Called}
             \cup {<<DeleteSlot(o)>> : o \in Called}

Reactions(order) ==
  IF order[1] = order[3] THEN Deletes
  ELSE Deletes \cup {<<Disconnect(x, o)>> : o \in Called}

SinglePrograms ==
  UNION {{Single(<<Connect(x, q[1]), Connect(x, q[2]), Connect(x, q[3]),
                   Emit(x), Emit(x), DeleteSlot(b), DeleteSignal(x),
                   DeleteSlot(a)>>, r) : r \in [Called -> Reactions(q)]}
           : q \in {<<a, b, c>>, <<a, b, a>>}}

AllPrograms == LocalPrograms \cup SinglePrograms

(* A signal deleted by one thread while another one deletes a slot that is *)
(* connected to it.                                                        *)
DeletePrograms ==
  {Local(main   :> <<Connect(x, a), Wait, DeleteSignal(x)>>
      @@ worker :> <<Set, DeleteSlot(a)>>)}

(* 05_rtc_socket, Echo: x and y are SignalClose and SignalReadPacket of    *)
(* its socket.  Its callback OnClose deletes it, and with it the socket    *)
(* and the two signals.                                                    *)
EchoPrograms ==
  {Single(<<Connect(y, a), Connect(x, a), Emit(x)>>,
          a :> <<DeleteSignal(x), DeleteSignal(y), DeleteSlot(a)>>)}
=============================================================================
