------------------------------ MODULE Sigslot -------------------------------
(***************************************************************************)
(* Signals and slots (webrtc/include/rtc/rtc_base/third_party/sigslot/     *)
(* sigslot.h), as the programs of this repository use them.                *)
(*                                                                         *)
(* A signal keeps a list of connections, a has_slots object the set of     *)
(* signals that may call it, and each operation changes both sides.  The   *)
(* two objects are protected by the mutexes of their threading policies,   *)
(* taken one after the other: a step of this module lies between two       *)
(* acquisitions.  The mutexes are not recursive.                           *)
(*                                                                         *)
(* A program is a script for every thread, and for every slot the calls    *)
(* that it makes itself, on the same thread, while a signal calls it.  Its *)
(* policy is single_threaded, without mutexes, or multi_threaded_local,    *)
(* where every signal and every slot has one.                              *)
(***************************************************************************)
EXTENDS Naturals, FiniteSets, Sequences, Functions

CONSTANTS
  Threads,
  Signals,
  Slots,
  Copies,    \* the signals and slots that come to be by copy construction
  NoThread,
  End,       \* m_connected_slots.end()
  Programs   \* records of a policy, the scripts of the threads and the
             \* reactions of the slots

Objects == Signals \cup Slots
Policies == {"single_threaded", "multi_threaded_local"}

(* A connection is a node of a signal's list; id tells several connections *)
(* of one slot apart.                                                      *)
Connections == [slot : Slots, id : Nat]

ObjectCalls ==
  [op : {"connect", "disconnect"}, sig : Signals, slot : Slots]
  \cup [op : {"emit", "disconnect_all", "~signal"}, sig : Signals]
  \cup [op : {"slot_disconnect_all", "~has_slots"}, slot : Slots]
  \cup [op : {"copy_signal"}, sig : Signals, copy : Signals \cap Copies]
  \cup [op : {"copy_slot"}, slot : Slots, copy : Slots \cap Copies]
Calls == ObjectCalls \cup [op : {"wait", "set"}]

ASSUME SigslotAssumption ==
  /\ NoThread \notin Threads
  /\ Signals \cap Slots = {} /\ IsFiniteSet(Signals)
  /\ Copies \subseteq Objects
  /\ End \notin Connections
  /\ \A p \in Programs : /\ p.policy \in Policies
                         /\ p.script \in [Threads -> Seq(Calls)]
                         /\ p.reaction \in [Slots -> Seq(ObjectCalls)]

VARIABLES
  m_connected_slots,   \* member of a signal: its connections, in order
  m_current_iterator,  \* member of a signal: the connection emit calls next, or End
  m_senders,           \* member of has_slots
  policy,              \* mt_policy
  owner,               \* the thread that holds the mutex of an object
  alive,               \* the objects that exist
  script,              \* the calls a thread has still to make
  reaction,            \* the calls a slot makes when it is called
  stack,               \* the calls a thread is in, the innermost first
  event                \* the rtc::Event of the program is set

objectVars == <<m_connected_slots, m_current_iterator, m_senders, alive>>
programVars == <<script, reaction, policy, event>>
vars == <<objectVars, owner, stack, programVars>>

(* A call under way: at says what it does next, todo whom it visits next   *)
(* or, of an emission, the connections called, the running one first.      *)
Frames == [call : ObjectCalls, at : {"start", "loop", "slot"},
           todo : Seq(Objects \cup Connections)]
Frame(c) == [call |-> c, at |-> "start", todo |-> <<>>]

TypeOK ==
  /\ m_connected_slots \in [Signals -> Seq(Connections)]
  /\ m_current_iterator \in [Signals -> Connections \cup {End}]
  /\ m_senders \in [Slots -> SUBSET Signals]
  /\ policy \in Policies
  /\ owner \in [Objects -> Threads \cup {NoThread}]
  /\ alive \subseteq Objects
  /\ script \in [Threads -> Seq(Calls)]
  /\ reaction \in [Slots -> Seq(ObjectCalls)]
  /\ stack \in [Threads -> Seq(Frames)]
  /\ event \in BOOLEAN

Init ==
  /\ m_connected_slots = [s \in Signals |-> <<>>]
  /\ m_current_iterator = [s \in Signals |-> End]
  /\ m_senders = [s \in Slots |-> {}]
  /\ owner = [o \in Objects |-> NoThread]
  /\ alive = Objects \ Copies
  /\ \E p \in Programs :
       policy = p.policy /\ script = p.script /\ reaction = p.reaction
  /\ stack = [t \in Threads |-> <<>>]
  /\ event = FALSE

-----------------------------------------------------------------------------
(* lock_block.                                                             *)
Free(o) == policy = "single_threaded" \/ owner[o] = NoThread

Hold(o, t) == IF policy = "single_threaded" THEN owner
              ELSE [owner EXCEPT ![o] = t]

Lock(o, t) == Free(o) /\ owner' = Hold(o, t)
Unlock(o)  == owner' = Hold(o, NoThread)

(* The innermost call of t is an op and is about to do at.                 *)
In(t, op, at) ==
  /\ stack[t] # <<>>
  /\ Head(stack[t]).call.op = op
  /\ Head(stack[t]).at = at

Call(t) == Head(stack[t]).call
Todo(t) == Head(stack[t]).todo
Goto(t, at, todo) ==
  stack' = [stack EXCEPT ![t] =
              <<[call |-> Call(t), at |-> at, todo |-> todo]>> \o Tail(@)]
Return(t) == stack' = [stack EXCEPT ![t] = Tail(@)]

(* A program makes no call on an object it has deleted.                    *)
Named(c)   == {c[f] : f \in DOMAIN c \ {"op"}}
MayCall(c) == /\ {c[f] : f \in DOMAIN c \ {"op", "copy"}} \subseteq alive
              /\ "copy" \in DOMAIN c => c.copy \notin alive

(* The elements of q at the positions in keep, in their order (the one     *)
(* member of this set).                                                    *)
Ascending(S) ==
  {f \in [1..Cardinality(S) -> S] :
     Range(f) = S /\ \A i, j \in DOMAIN f : i < j => f[i] < f[j]}
Selections(q, keep) == {[k \in DOMAIN f |-> q[f[k]]] : f \in Ascending(keep)}

(* The connections disconnect and do_slot_disconnect erase.                *)
Matches(q, slot)    == {n \in Range(q) : n.slot = slot}
FirstMatch(q, slot) == {q[i] : i \in {i \in DOMAIN q :
                          q[i].slot = slot /\ \A k \in 1..(i - 1) : q[k].slot # slot}}

(* What becomes of an iterator at cur when gone is erased from q: if its   *)
(* connection goes, it moves to the next one that is left.                 *)
IteratorAfterStays(cur, q, gone) == cur

IteratorAfter(cur, q, gone) ==
  LET left == {i \in DOMAIN q : q[i] \notin gone /\ \E k \in 1..i : q[k] = cur}
  IN  IF cur \notin gone THEN cur
      ELSE IF left = {} THEN End
      ELSE q[CHOOSE i \in left : \A k \in left : i <= k]

EraseFrom(s, gone) ==
  LET q == m_connected_slots[s]
  IN  /\ \E r \in Selections(q, {i \in DOMAIN q : q[i] \notin gone}) :
           m_connected_slots' = [m_connected_slots EXCEPT ![s] = r]
      /\ m_current_iterator' =
           [m_current_iterator EXCEPT ![s] = IteratorAfter(@, q, gone)]

-----------------------------------------------------------------------------
(* connect: the signal's list, then the slot's set.                        *)
NewConnections(q, slot) ==
  {n \in [slot : {slot}, id : 1..(Len(q) + 1)] :
     /\ n \notin Range(q)
     /\ \A k \in 1..(n.id - 1) : [slot |-> slot, id |-> k] \in Range(q)}

ConnectSignal(t) ==
  /\ In(t, "connect", "start")
  /\ Lock(Call(t).sig, t)
  /\ \E n \in NewConnections(m_connected_slots[Call(t).sig], Call(t).slot) :
       m_connected_slots' =
         [m_connected_slots EXCEPT ![Call(t).sig] = Append(@, n)]
  /\ Goto(t, "slot", <<Call(t).slot>>)
  /\ UNCHANGED <<m_current_iterator, m_senders, alive, programVars>>

(* do_signal_connect.                                                      *)
ConnectSlot(t) ==
  /\ In(t, "connect", "slot")
  /\ Free(Call(t).slot)
  /\ m_senders' = [m_senders EXCEPT ![Call(t).slot] = @ \cup {Call(t).sig}]
  /\ Unlock(Call(t).sig)
  /\ Return(t)
  /\ UNCHANGED <<m_connected_slots, m_current_iterator, alive, programVars>>

(* disconnect: the first connection of the slot, if there is one.          *)
DisconnectSignal(t) ==
  /\ In(t, "disconnect", "start")
  /\ Free(Call(t).sig)
  /\ LET gone == FirstMatch(m_connected_slots[Call(t).sig], Call(t).slot)
     IN  IF gone = {}
         THEN Return(t) /\ UNCHANGED <<objectVars, owner>>
         ELSE /\ owner' = Hold(Call(t).sig, t)
              /\ EraseFrom(Call(t).sig, gone)
              /\ Goto(t, "slot", <<Call(t).slot>>)
              /\ UNCHANGED <<m_senders, alive>>
  /\ UNCHANGED programVars

(* do_signal_disconnect.                                                   *)
DisconnectSlot(t) ==
  /\ In(t, "disconnect", "slot")
  /\ Free(Call(t).slot)
  /\ m_senders' = [m_senders EXCEPT ![Call(t).slot] = @ \ {Call(t).sig}]
  /\ Unlock(Call(t).sig)
  /\ Return(t)
  /\ UNCHANGED <<m_connected_slots, m_current_iterator, alive, programVars>>

-----------------------------------------------------------------------------
(* disconnect_all of a signal, and ~_signal_base, which calls it.          *)
ClearOps == {"disconnect_all", "~signal"}

ClearLock(t) ==
  /\ \E op \in ClearOps : In(t, op, "start")
  /\ Lock(Call(t).sig, t)
  /\ Goto(t, "loop", <<>>)
  /\ UNCHANGED <<objectVars, programVars>>

ClearPop(t) ==
  /\ \E op \in ClearOps : In(t, op, "loop")
  /\ m_connected_slots[Call(t).sig] # <<>>
  /\ m_connected_slots' = [m_connected_slots EXCEPT ![Call(t).sig] = Tail(@)]
  /\ Goto(t, "slot", <<Head(m_connected_slots[Call(t).sig]).slot>>)
  /\ UNCHANGED <<m_current_iterator, m_senders, alive, owner, programVars>>

ClearSlot(t) ==
  /\ \E op \in ClearOps : In(t, op, "slot")
  /\ Free(Head(Todo(t)))
  /\ m_senders' = [m_senders EXCEPT ![Head(Todo(t))] = @ \ {Call(t).sig}]
  /\ Goto(t, "loop", <<>>)
  /\ UNCHANGED <<m_connected_slots, m_current_iterator, alive, owner, programVars>>

ClearDone(t) ==
  /\ \E op \in ClearOps : In(t, op, "loop")
  /\ m_connected_slots[Call(t).sig] = <<>>
  /\ m_current_iterator' = [m_current_iterator EXCEPT ![Call(t).sig] = End]
  /\ alive' = IF Call(t).op = "~signal" THEN alive \ {Call(t).sig} ELSE alive
  /\ Unlock(Call(t).sig)
  /\ Return(t)
  /\ UNCHANGED <<m_connected_slots, m_senders, programVars>>

-----------------------------------------------------------------------------
(* disconnect_all of a slot, and ~has_slots, which calls it.  The set is   *)
(* swapped out and its signals visited in the order of their addresses.    *)
LeaveOps == {"slot_disconnect_all", "~has_slots"}

Orders(S) == Bijection(1..Cardinality(S), S)

LeaveLock(t) ==
  /\ \E op \in LeaveOps : In(t, op, "start")
  /\ Lock(Call(t).slot, t)
  /\ Goto(t, "loop", <<>>)
  /\ UNCHANGED <<objectVars, programVars>>

LeaveSwap(t) ==
  /\ \E op \in LeaveOps : In(t, op, "loop")
  /\ Todo(t) = <<>>
  /\ m_senders[Call(t).slot] # {}
  /\ \E q \in Orders(m_senders[Call(t).slot]) : Goto(t, "loop", q)
  /\ m_senders' = [m_senders EXCEPT ![Call(t).slot] = {}]
  /\ UNCHANGED <<m_connected_slots, m_current_iterator, alive, owner, programVars>>

(* do_slot_disconnect.                                                     *)
LeaveErase(q, slot) == Matches(q, slot)

LeaveSignalUnlocked(t) ==
  /\ \E op \in LeaveOps : In(t, op, "loop")
  /\ Todo(t) # <<>>
  /\ EraseFrom(Head(Todo(t)),
               LeaveErase(m_connected_slots[Head(Todo(t))], Call(t).slot))
  /\ Goto(t, "loop", Tail(Todo(t)))
  /\ UNCHANGED <<m_senders, alive, owner, programVars>>

LeaveSignal(t) ==
  /\ \E op \in LeaveOps : In(t, op, "loop")
  /\ Todo(t) # <<>>
  /\ Free(Head(Todo(t)))
  /\ EraseFrom(Head(Todo(t)),
               LeaveErase(m_connected_slots[Head(Todo(t))], Call(t).slot))
  /\ Goto(t, "loop", Tail(Todo(t)))
  /\ UNCHANGED <<m_senders, alive, owner, programVars>>

LeaveDone(t) ==
  /\ \E op \in LeaveOps : In(t, op, "loop")
  /\ Todo(t) = <<>>
  /\ m_senders[Call(t).slot] = {}
  /\ alive' = IF Call(t).op = "~has_slots" THEN alive \ {Call(t).slot} ELSE alive
  /\ Unlock(Call(t).slot)
  /\ Return(t)
  /\ UNCHANGED <<m_connected_slots, m_current_iterator, m_senders, programVars>>

-----------------------------------------------------------------------------
(* emit: the mutex of the signal is held while the slots are called.       *)
EmitLock(t) ==
  /\ In(t, "emit", "start")
  /\ Lock(Call(t).sig, t)
  /\ m_current_iterator' =
       [m_current_iterator EXCEPT
          ![Call(t).sig] = IF m_connected_slots[Call(t).sig] = <<>> THEN End
                           ELSE Head(m_connected_slots[Call(t).sig])]
  /\ Goto(t, "loop", <<>>)
  /\ UNCHANGED <<m_connected_slots, m_senders, alive, programVars>>

EmitDoneLocked(t) ==
  /\ In(t, "emit", "loop")
  /\ m_current_iterator[Call(t).sig] = End
  /\ Return(t)
  /\ UNCHANGED <<objectVars, owner, programVars>>

(* The iterator moves on before the slot is called.                        *)
Advance(cur, q) ==
  LET next == {i \in DOMAIN q : i > 1 /\ q[i - 1] = cur}
  IN  IF next = {} THEN End ELSE q[CHOOSE i \in next : TRUE]

EmitCall(t) ==
  /\ In(t, "emit", "loop")
  /\ LET s   == Call(t).sig
         cur == m_current_iterator[s]
     IN  /\ cur # End
         /\ m_current_iterator' =
              [m_current_iterator EXCEPT ![s] = Advance(@, m_connected_slots[s])]
         /\ Goto(t, "slot", <<cur>> \o Todo(t))
  /\ UNCHANGED <<m_connected_slots, m_senders, alive, owner, programVars>>

(* The callback ends with the calls it makes.                              *)
Callback(t) ==
  /\ In(t, "emit", "slot")
  /\ LET calls == reaction[Head(Todo(t)).slot]
     IN  \E made \in Selections(calls, {k \in DOMAIN calls : MayCall(calls[k])}) :
           stack' = [stack EXCEPT
             ![t] = [k \in DOMAIN made |-> Frame(made[k])]
                      \o <<[Head(@) EXCEPT !.at = "loop"]>> \o Tail(@)]
  /\ UNCHANGED <<objectVars, owner, programVars>>

EmitDone(t) ==
  /\ In(t, "emit", "loop")
  /\ m_current_iterator[Call(t).sig] = End
  /\ Unlock(Call(t).sig)
  /\ Return(t)
  /\ UNCHANGED <<objectVars, programVars>>

-----------------------------------------------------------------------------
(* The copy constructors.  Each holds the mutex of the new object only and *)
(* visits the peers of the old one, which nobody changes meanwhile.        *)
CopyOps == {"copy_signal", "copy_slot"}

CopyLock(t) ==
  /\ \E op \in CopyOps : In(t, op, "start")
  /\ Lock(Call(t).copy, t)
  /\ alive' = alive \cup {Call(t).copy}
  /\ IF Call(t).op = "copy_signal"
     THEN Goto(t, "loop", m_connected_slots[Call(t).sig])
     ELSE \E q \in Orders(m_senders[Call(t).slot]) : Goto(t, "loop", q)
  /\ UNCHANGED <<m_connected_slots, m_current_iterator, m_senders, programVars>>

(* Of a signal: signal_connect, then the connection is added to the copy.  *)
CopySignal(t) ==
  /\ In(t, "copy_signal", "loop")
  /\ Todo(t) # <<>>
  /\ Free(Head(Todo(t)).slot)
  /\ m_senders' = [m_senders EXCEPT ![Head(Todo(t)).slot] = @ \cup {Call(t).copy}]
  /\ m_connected_slots' =
       [m_connected_slots EXCEPT ![Call(t).copy] = Append(@, Head(Todo(t)))]
  /\ Goto(t, "loop", Tail(Todo(t)))
  /\ UNCHANGED <<m_current_iterator, alive, owner, programVars>>

(* do_slot_duplicate: every connection of the old slot once more at the    *)
(* end of the list, for the copy.                                          *)
DuplicatesOfOld(q, old, new) ==
  {q \o r : r \in Selections(q, {i \in DOMAIN q : q[i].slot = old})}

Duplicates(q, old, new) ==
  {q \o [k \in DOMAIN r |-> [r[k] EXCEPT !.slot = new]]
     : r \in Selections(q, {i \in DOMAIN q : q[i].slot = old})}

(* Of a slot: slot_duplicate, then the signal is added to the copy's set.  *)
CopySlotForgets(t) ==
  /\ In(t, "copy_slot", "loop")
  /\ Todo(t) # <<>>
  /\ Free(Head(Todo(t)))
  /\ \E q \in Duplicates(m_connected_slots[Head(Todo(t))], Call(t).slot, Call(t).copy) :
       m_connected_slots' = [m_connected_slots EXCEPT ![Head(Todo(t))] = q]
  /\ Goto(t, "loop", Tail(Todo(t)))
  /\ UNCHANGED <<m_current_iterator, m_senders, alive, owner, programVars>>

CopySlot(t) ==
  /\ In(t, "copy_slot", "loop")
  /\ Todo(t) # <<>>
  /\ Free(Head(Todo(t)))
  /\ \E q \in Duplicates(m_connected_slots[Head(Todo(t))], Call(t).slot, Call(t).copy) :
       m_connected_slots' = [m_connected_slots EXCEPT ![Head(Todo(t))] = q]
  /\ m_senders' = [m_senders EXCEPT ![Call(t).copy] = @ \cup {Head(Todo(t))}]
  /\ Goto(t, "loop", Tail(Todo(t)))
  /\ UNCHANGED <<m_current_iterator, alive, owner, programVars>>

CopyDone(t) ==
  /\ \E op \in CopyOps : In(t, op, "loop")
  /\ Todo(t) = <<>>
  /\ Unlock(Call(t).copy)
  /\ Return(t)
  /\ UNCHANGED <<objectVars, programVars>>

-----------------------------------------------------------------------------
(* The thread takes its next call; rtc::Event is external.                 *)
TakeCall(t) ==
  /\ stack[t] = <<>> /\ script[t] # <<>>
  /\ \/ /\ Head(script[t]).op = "set"
        /\ event' = TRUE
        /\ UNCHANGED stack
     \/ /\ Head(script[t]).op = "wait"
        /\ event
        /\ UNCHANGED <<event, stack>>
     \/ /\ Head(script[t]).op \notin {"set", "wait"}
        /\ stack' = IF MayCall(Head(script[t]))
                     THEN [stack EXCEPT ![t] = <<Frame(Head(script[t]))>>]
                     ELSE stack
        /\ UNCHANGED event
  /\ script' = [script EXCEPT ![t] = Tail(@)]
  /\ UNCHANGED <<objectVars, owner, reaction, policy>>

Step(t) ==
  \/ TakeCall(t)
  \/ ConnectSignal(t) \/ ConnectSlot(t)
  \/ DisconnectSignal(t) \/ DisconnectSlot(t)
  \/ ClearLock(t) \/ ClearPop(t) \/ ClearSlot(t) \/ ClearDone(t)
  \/ LeaveLock(t) \/ LeaveSwap(t) \/ LeaveSignal(t) \/ LeaveDone(t)
  \/ CopyLock(t) \/ CopySignal(t) \/ CopySlot(t) \/ CopyDone(t)
  \/ EmitLock(t) \/ EmitCall(t) \/ Callback(t) \/ EmitDone(t)

Next == \E t \in Threads : Step(t)

SafetySpec == Init /\ [][Next]_vars

(* Every thread runs on unless it waits for a mutex or for the event.      *)
Spec == SafetySpec /\ \A t \in Threads : WF_vars(Step(t))

-----------------------------------------------------------------------------
(* The objects the innermost call of t uses in its next step.              *)
Uses(t) ==
  IF stack[t] = <<>> THEN {}
  ELSE LET f == Head(stack[t])
       IN  CASE f.call.op = "emit" /\ f.at = "loop" ->
                  {f.call.sig} \cup {n.slot : n \in {m_current_iterator[f.call.sig]} \ {End}}
             [] f.call.op = "emit" /\ f.at = "slot" -> {f.call.sig, Head(f.todo).slot}
             [] f.call.op \in LeaveOps     -> {f.call.slot} \cup Range(f.todo)
             [] f.call.op = "copy_slot"    -> Range(f.todo)
             [] f.call.op = "copy_signal"  -> {n.slot : n \in Range(f.todo)}
             [] OTHER                      -> {f.call.sig} \cup Range(f.todo)

(* No call under way reaches an object that is gone: a signal calls only   *)
(* slots that exist, and they exist until their callbacks are done, also   *)
(* when a slot is deleted from a callback or by another thread during the  *)
(* emission, and no destructor visits a peer that went first.              *)
OnlyLiveObjects == \A t \in Threads : Uses(t) \subseteq alive

Callees(s) == {n.slot : n \in Range(m_connected_slots[s])}

(* The objects a call under way is changing.                               *)
Busy ==
  LET frames == UNION {Range(stack[t]) : t \in Threads}
  IN  UNION {Named(f.call) : f \in {g \in frames : g.call.op # "emit"}}

(* The two sides of a connection agree unless a call is changing them: a   *)
(* slot that exists is in the list of exactly the signals that it has in   *)
(* m_senders, and neither names an object that is gone.                    *)
SidesAgree ==
  /\ TypeOK
  /\ \A s \in (Signals \cap alive) \ Busy : \A o \in Slots \ Busy :
       o \in Callees(s) <=> (o \in alive /\ s \in m_senders[o])
  /\ \A o \in (Slots \cap alive) \ Busy : m_senders[o] \ Busy \subseteq alive

(* An emission calls every connection in its turn once: its iterator is in *)
(* the list or at the end of it, and of the connections that are left      *)
(* exactly those before the iterator have been called, once, whatever      *)
(* callbacks disconnected, deleted or copied meanwhile.                    *)
Passed(q, cur, i) == \A k \in 1..i : q[k] # cur

EmitCallsEachOnce ==
  \A t \in Threads : In(t, "emit", "loop") =>
    LET q   == m_connected_slots[Call(t).sig]
        cur == m_current_iterator[Call(t).sig]
    IN  /\ cur \in Range(q) \cup {End}
        /\ \A i \in DOMAIN q : q[i].slot \notin Copies =>
             (q[i] \in Range(Todo(t)) <=> Passed(q, cur, i))
        /\ \A i, k \in DOMAIN Todo(t) :
             Todo(t)[i] = Todo(t)[k] /\ Todo(t)[i].slot \notin Copies => i = k

(* The mutex the next step of t needs.                                     *)
Wants(t) ==
  IF stack[t] = <<>> THEN {}
  ELSE LET f == Head(stack[t])
       IN  CASE f.at = "slot" /\ f.call.op # "emit" -> {Head(f.todo)}
             [] f.at = "start" /\ f.call.op \in LeaveOps -> {f.call.slot}
             [] f.at = "start" /\ f.call.op \in CopyOps -> {f.call.copy}
             [] f.at = "start" -> {f.call.sig}
             [] f.call.op = "copy_signal" /\ f.todo # <<>> -> {Head(f.todo).slot}
             [] f.call.op \in LeaveOps \cup {"copy_slot"} /\ f.todo # <<>> -> {Head(f.todo)}
             [] OTHER -> {}

(* "Objects using signals and slots can be safely created and destroyed    *)
(* from any thread, even when connections exist": no threads wait for each *)
(* other's mutexes in a circle.                                            *)
NoCircularWait ==
  \A T \in (SUBSET Threads) \ {{}} :
    \E t \in T : \A o \in Wants(t) : Free(o) \/ owner[o] \notin T

(* Rules for the users of signals and slots; the properties above hold of  *)
(* the programs that keep them.  Some follow from the scripts, others      *)
(* depend on what the library does: whether a call meets a deleted object, *)
(* and how often a slot is connected once copies have been made.           *)

(* A call is made on objects that exist, a copy at a place that is free.   *)
LiveCalls ==
  \A t \in Threads : stack[t] # <<>> /\ Head(stack[t]).at = "start" => MayCall(Call(t))

(* Objects with the policy single_threaded are used by a thread at a time. *)
OneThread ==
  policy = "single_threaded" =>
    \A t, u \in Threads : stack[t] # <<>> /\ stack[u] # <<>> => t = u

(* A callback does not connect to, emit or delete a signal that is calling.*)
NoReentry ==
  \A t \in Threads : \A i, j \in DOMAIN stack[t] :
    /\ i < j
    /\ stack[t][j].call.op = "emit" /\ stack[t][j].at # "start"
    /\ stack[t][i].call.op \in {"connect", "emit", "~signal"}
    => stack[t][i].call.sig # stack[t][j].call.sig

(* What two threads may do at a time: a slot is named by the calls of one, *)
(* a signal that is deleted or copied by no other call, nothing changes    *)
(* the slots of a signal that is copied, nor clears the signals of a slot  *)
(* that is.                                                                *)
Apart(c, d) ==
  /\ Named(c) \cap Named(d) \cap Slots = {}
  /\ c.op \in {"~signal", "copy_signal"} => Named(c) \cap Named(d) = {}
  /\ c.op = "copy_signal" => Callees(c.sig) \cap Named(d) = {}
  /\ c.op = "copy_slot" /\ d.op \in ClearOps => d.sig \notin m_senders[c.slot]

Separate ==
  \A t, u \in Threads : t # u =>
    \A f \in Range(stack[t]), g \in Range(stack[u]) : Apart(f.call, g.call)

(* A slot is connected to a signal once, or, with one thread, is at least  *)
(* not disconnected by name.                                               *)
Once(q, o) == \A i, k \in DOMAIN q : q[i].slot = o /\ q[k].slot = o => i = k
ConnectedOnce ==
  /\ policy # "single_threaded" =>
       \A s \in Signals, o \in Slots : Once(m_connected_slots[s], o)
  /\ \A t \in Threads : In(t, "disconnect", "start") =>
       Once(m_connected_slots[Call(t).sig], Call(t).slot)

(* The calls of the programs keep all of them, in every interleaving.      *)
Rules == LiveCalls /\ OneThread /\ NoReentry /\ Separate /\ ConnectedOnce

(* Every call returns and every thread comes to the end of its script: no  *)
(* mutex is kept, and the loop of disconnect_all ends although others      *)
(* connect and emit meanwhile.                                             *)
ScriptsFinish == <>(\A t \in Threads : stack[t] = <<>> /\ script[t] = <<>>)
=============================================================================
