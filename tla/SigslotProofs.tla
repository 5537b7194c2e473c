--------------------------- MODULE SigslotProofs ----------------------------
(***************************************************************************)
(* Proofs about Sigslot, for any threads, signals, slots and programs: the *)
(* types hold of every program, the rest of those that keep the Rules.     *)
(*                                                                         *)
(* SlotInv is inductive.  It says which mutex every call under way holds,  *)
(* between which two steps the two sides of a connection may differ, what  *)
(* each call relies on until its next step, and where the iterator of an   *)
(* emission is.  A step is played against the calls that go on beside it:  *)
(* the emissions that enclose it, on its own thread, and the calls of the  *)
(* other threads, which the mutexes and the Rules keep apart from it.      *)
(***************************************************************************)
EXTENDS Sigslot, WellFoundedInduction, FiniteSetTheorems, SequenceTheorems, TLAPS

Multi == policy # "single_threaded"

(* The calls of t that have begun.  Only the innermost one can be in a     *)
(* step; the others are emissions that wait for a callback.                *)
Begun(f)  == f.at # "start"
Active(t) == {f \in Range(stack[t]) : Begun(f)}
Rest(t)   == IF stack[t] = <<>> THEN {} ELSE Range(Tail(stack[t]))
Below(t)  == {f \in Rest(t) : Begun(f)}

(* All calls that have begun, and those that go on beside the innermost    *)
(* call of t.                                                              *)
Acts      == UNION {Active(t) : t \in Threads}
Others(t) == Below(t) \cup UNION {Active(u) : u \in Threads \ {t}}

(* The object whose mutex a call holds.                                    *)
Guarded(c) == CASE c.op \in LeaveOps -> c.slot
                [] c.op \in CopyOps  -> c.copy
                [] OTHER             -> c.sig

FrameOK(f) ==
  LET op == f.call.op
  IN  /\ f \in Frames
      /\ f.at = "start" => f.todo = <<>>
      /\ f.at = "slot" => op \in {"connect", "disconnect", "emit"} \cup ClearOps
      /\ f.at = "loop" => op \in {"emit"} \cup ClearOps \cup LeaveOps \cup CopyOps
      /\ f.at = "slot" /\ op \in {"connect", "disconnect"} => f.todo = <<f.call.slot>>
      /\ f.at = "slot" /\ op \in ClearOps => \E o \in Slots : f.todo = <<o>>
      /\ f.at = "loop" /\ op \in ClearOps => f.todo = <<>>
      /\ op \in LeaveOps \cup {"copy_slot"} => f.todo \in Seq(Signals)
      /\ op \in {"emit", "copy_signal"} => f.todo \in Seq(Connections)
      /\ op = "emit" /\ f.at = "slot" => f.todo # <<>>

Waiting(f) == f.at = "start" \/ (f.at = "loop" /\ f.call.op = "emit")

(* What a call under way looks like.                                       *)
Shape ==
  \A t \in Threads :
    /\ \A f \in Range(stack[t]) : FrameOK(f)
    /\ \A f \in Rest(t) : Waiting(f)

(* A call that has begun holds its mutex, and guards another object than   *)
(* the calls it was made from.                                             *)
Exclusive(c) == Multi \/ c.op \in {"connect", "emit", "~signal", "copy_signal"}
Nested(q) ==
  \A i, j \in DOMAIN q :
    i < j /\ Begun(q[i]) /\ Begun(q[j]) /\ Exclusive(q[i].call)
    => Guarded(q[i].call) # Guarded(q[j].call)
Locked ==
  \A t \in Threads :
    /\ Multi => \A f \in Active(t) : owner[Guarded(f.call)] = t
    /\ Nested(stack[t])

(* An object that is gone knows no peer.                                   *)
Dead ==
  /\ \A o \in Slots \ alive : m_senders[o] = {}
  /\ \A s \in Signals \ alive : m_connected_slots[s] = <<>>

(* Calls between their two sides.                                          *)
Doing(op, s, o) ==
  \E f \in Acts : f.call.op = op /\ f.call.sig = s /\ f.call.slot = o
Clearing(s) ==
  \E f \in Acts : f.call.op \in ClearOps /\ f.call.sig = s
Popped(s, o) ==
  \E f \in Acts : f.call.op \in ClearOps /\ f.call.sig = s /\ o \in Range(f.todo)
Leaving(s, o) ==
  \E f \in Acts : f.call.op \in LeaveOps /\ f.call.slot = o /\ s \in Range(f.todo)

(* A slot in the list of a signal exists, and knows the signal unless a    *)
(* call is between the two sides; and the other way round.                 *)
Listed ==
  \A s \in Signals : \A o \in Callees(s) :
    /\ o \in alive
    /\ \/ s \in m_senders[o] \/ Doing("connect", s, o) \/ Leaving(s, o)
       \/ ~Multi /\ Clearing(s)
Known ==
  \A o \in Slots : \A s \in m_senders[o] :
    /\ s \in alive
    /\ o \in Callees(s) \/ Doing("disconnect", s, o) \/ Popped(s, o)

(* No list has a node twice.                                               *)
Distinct == \A s \in Signals : IsInjective(m_connected_slots[s])

(* What a call relies on until its next step.                              *)
ConnectLive(c) == c.sig \in alive /\ c.slot \in alive /\ c.slot \in Callees(c.sig)
DisconnectLive(c) == c.sig \in alive /\ c.slot \in alive /\ c.slot \notin Callees(c.sig)
ClearLive(c, todo) ==
  /\ c.sig \in alive
  /\ \A o \in Range(todo) :
       /\ o \in alive
       /\ Multi => /\ o \notin Callees(c.sig)
                   /\ c.sig \in m_senders[o] \/ Leaving(c.sig, o)
LeaveLive(c, todo) ==
  /\ c.slot \in alive
  /\ IsInjective(todo)
  /\ todo # <<>> => m_senders[c.slot] = {}
  /\ \A s \in Range(todo) : s \in alive /\ (c.slot \in Callees(s) \/ Popped(s, c.slot))
CopySlotLive(c, todo) ==
  /\ c.copy \in alive /\ c.slot # c.copy
  /\ IsInjective(todo)
  /\ Range(todo) \subseteq m_senders[c.slot]
  /\ Range(todo) \cap m_senders[c.copy] = {}
CopySignalLive(c, todo) ==
  /\ c.copy \in alive /\ c.sig # c.copy
  /\ IsInjective(todo)
  /\ Range(todo) \subseteq Range(m_connected_slots[c.sig])
  /\ Range(todo) \cap Range(m_connected_slots[c.copy]) = {}
EmitLive(c, at, todo) ==
  /\ c.sig \in alive
  /\ at = "slot" => Head(todo) \in Range(m_connected_slots[c.sig])

FrameLive(f) ==
  /\ f.call.op = "connect" => ConnectLive(f.call)
  /\ f.call.op = "disconnect" => DisconnectLive(f.call)
  /\ f.call.op \in ClearOps => ClearLive(f.call, f.todo)
  /\ f.call.op \in LeaveOps => LeaveLive(f.call, f.todo)
  /\ f.call.op = "copy_slot" => CopySlotLive(f.call, f.todo)
  /\ f.call.op = "copy_signal" => CopySignalLive(f.call, f.todo)
  /\ f.call.op = "emit" => EmitLive(f.call, f.at, f.todo)
FramesLive == \A f \in Acts : FrameLive(f)

(* An emission has called exactly the connections before its iterator,     *)
(* unless a callback is clearing the signal, and none of them twice.       *)
CalledOnce(called) ==
  \A i, k \in DOMAIN called :
    called[i] = called[k] /\ called[i].slot \notin Copies => i = k
InTurn(q, cur, called) ==
  /\ cur \in Range(q) \cup {End}
  /\ \A i \in DOMAIN q : q[i].slot \notin Copies =>
       (q[i] \in Range(called) <=> Passed(q, cur, i))
Emits(f) ==
  f.call.op = "emit" =>
    /\ CalledOnce(f.todo)
    /\ \/ Clearing(f.call.sig)
       \/ InTurn(m_connected_slots[f.call.sig], m_current_iterator[f.call.sig], f.todo)
Emitting == \A f \in Acts : Emits(f)

SidesInv == Dead /\ Listed /\ Known /\ Distinct
SlotInv  == TypeOK /\ Shape /\ Locked /\ SidesInv /\ FramesLive /\ Emitting

-----------------------------------------------------------------------------
(* Calls and frames, field by field.                                       *)

(* What the fields of a call are.                                          *)
LEMMA CallFields ==
  ASSUME NEW c \in ObjectCalls
  PROVE  /\ c.op \in {"connect", "disconnect", "emit", "copy_signal", "copy_slot"}
                       \cup ClearOps \cup LeaveOps
         /\ c.op \in {"connect", "disconnect"} => c.sig \in Signals /\ c.slot \in Slots
         /\ c.op \in {"emit"} \cup ClearOps => c.sig \in Signals
         /\ c.op \in LeaveOps => c.slot \in Slots
         /\ c.op = "copy_signal" => c.sig \in Signals /\ c.copy \in Signals \cap Copies
         /\ c.op = "copy_slot" => c.slot \in Slots /\ c.copy \in Slots \cap Copies
BY DEF ObjectCalls, ClearOps, LeaveOps

(* The objects a call names.                                               *)
LEMMA NamedFields ==
  ASSUME NEW c \in ObjectCalls
  PROVE  /\ c.op \in {"connect", "disconnect"} => Named(c) = {c.sig, c.slot}
         /\ c.op \in {"emit"} \cup ClearOps => Named(c) = {c.sig}
         /\ c.op \in LeaveOps => Named(c) = {c.slot}
         /\ c.op = "copy_signal" => Named(c) = {c.sig, c.copy}
         /\ c.op = "copy_slot" => Named(c) = {c.slot, c.copy}
         /\ MayCall(c) =>
              /\ c.op \in {"connect", "disconnect"} => c.sig \in alive /\ c.slot \in alive
              /\ c.op \in {"emit"} \cup ClearOps => c.sig \in alive
              /\ c.op \in LeaveOps => c.slot \in alive
              /\ c.op = "copy_signal" => c.sig \in alive /\ c.copy \notin alive
              /\ c.op = "copy_slot" => c.slot \in alive /\ c.copy \notin alive
BY DEF ObjectCalls, ClearOps, LeaveOps, Named, MayCall

-----------------------------------------------------------------------------
(* Sequences.                                                              *)

(* A set of natural numbers that is not empty has a least element.         *)
LEMMA LeastExists ==
  ASSUME NEW S, S \subseteq Nat, S # {}
  PROVE  \E i \in S : \A k \in S : i <= k
<1>1. PICK i \in S : \A k \in S : ~ (<<k, i>> \in OpToRel(<, Nat))
  BY NatLessThanWellFounded, WFMin
<1>2. \A k \in S : ~ (k < i)
  BY <1>1 DEF OpToRel
<1> QED
  BY <1>2

(* A sequence with one more element in front.                              *)
LEMMA RangeCons ==
  ASSUME NEW S, NEW x \in S, NEW q \in Seq(S)
  PROVE  <<x>> \o q \in Seq(S) /\ Range(<<x>> \o q) = {x} \cup Range(q)
<1>1. /\ <<x>> \o q \in Seq(S) /\ DOMAIN (<<x>> \o q) = 1..(Len(q) + 1)
      /\ (<<x>> \o q)[1] = x
      /\ \A i \in DOMAIN q : i + 1 \in DOMAIN (<<x>> \o q) /\ (<<x>> \o q)[i + 1] = q[i]
      /\ \A i \in DOMAIN (<<x>> \o q) : i # 1 => i - 1 \in DOMAIN q /\ (<<x>> \o q)[i] = q[i - 1]
  OBVIOUS
<1> DEFINE z == <<x>> \o q
<1> HIDE DEF z
<1>2. /\ DOMAIN z = 1..(Len(q) + 1) /\ z[1] = x
      /\ \A i \in DOMAIN q : i + 1 \in DOMAIN z /\ z[i + 1] = q[i]
      /\ \A i \in DOMAIN z : i # 1 => i - 1 \in DOMAIN q /\ z[i] = q[i - 1]
  BY <1>1 DEF z
<1>3. 1 \in DOMAIN z
  BY <1>2
<1>4. Range(z) = {x} \cup Range(q)
  BY <1>2, <1>3 DEF Range
<1> QED
  BY <1>1, <1>4 DEF z

(* The positions a selection from q is made of.                            *)
Places(q, keep, r, f) ==
  /\ f \in [DOMAIN r -> keep]
  /\ \A k \in DOMAIN r : r[k] = q[f[k]]
  /\ \A i \in keep : \E k \in DOMAIN r : f[k] = i
  /\ \A i, j \in DOMAIN r : i < j => f[i] < f[j]

(* What a selection from q is.                                             *)
LEMMA SelectionOf ==
  ASSUME NEW S, NEW q \in Seq(S), NEW keep, keep \subseteq DOMAIN q,
         NEW r \in Selections(q, keep)
  PROVE  /\ r \in Seq(S)
         /\ Range(r) = {q[i] : i \in keep}
         /\ \E f : Places(q, keep, r, f)
         /\ IsInjective(q) => IsInjective(r)
<1>1. PICK f \in Ascending(keep) : r = [k \in DOMAIN f |-> q[f[k]]]
  BY DEF Selections
<1>2. /\ DOMAIN f = 1..Cardinality(keep)
      /\ f \in [1..Cardinality(keep) -> keep]
      /\ Range(f) = keep
      /\ \A i, j \in DOMAIN f : i < j => f[i] < f[j]
  BY DEF Ascending
<1>3. Cardinality(keep) \in Nat
  <2>1. IsFiniteSet(DOMAIN q)
    BY FS_Interval
  <2> QED
    BY <2>1, FS_Subset, FS_CardinalityType
<1>4. r \in Seq(S) /\ DOMAIN r = DOMAIN f
  BY <1>1, <1>2, <1>3
<1>5. \A i \in keep : \E k \in DOMAIN r : f[k] = i
  BY <1>2, <1>4 DEF Range
<1>6. \A k \in DOMAIN r : f[k] \in keep /\ r[k] = q[f[k]]
  BY <1>1, <1>2, <1>4
<1>7. Range(r) = {q[i] : i \in keep}
  BY <1>5, <1>6 DEF Range
<1>8. IsInjective(q) => IsInjective(r)
  <2> SUFFICES ASSUME IsInjective(q), NEW i \in DOMAIN r, NEW j \in DOMAIN r, r[i] = r[j]
               PROVE  i = j
    BY DEF IsInjective
  <2>1. f[i] = f[j]
    BY <1>6 DEF IsInjective
  <2>2. ~(i < j) /\ ~(j < i)
    BY <1>2, <1>4, <1>6, <2>1
  <2> QED
    BY <1>2, <1>3, <1>4, <2>2
<1>9. Places(q, keep, r, f)
  BY <1>2, <1>4, <1>5, <1>6 DEF Places
<1> QED
  BY <1>4, <1>7, <1>8, <1>9

-----------------------------------------------------------------------------
(* The stack of a thread.                                                  *)

(* The innermost call and the others.                                      *)
LEMMA StackParts ==
  ASSUME TypeOK, NEW t \in Threads, stack[t] # <<>>
  PROVE  /\ Head(stack[t]) \in Frames
         /\ Call(t) \in ObjectCalls
         /\ Todo(t) \in Seq(Objects \cup Connections)
         /\ Tail(stack[t]) \in Seq(Frames)
         /\ Head(stack[t]) \in Range(stack[t])
         /\ Range(stack[t]) = {Head(stack[t])} \cup Rest(t)
         /\ Active(t) = {f \in {Head(stack[t])} : Begun(f)} \cup Below(t)
<1>1. stack[t] \in Seq(Frames)
  BY DEF TypeOK
<1>2. /\ Head(stack[t]) \in Frames
      /\ Tail(stack[t]) \in Seq(Frames)
      /\ Head(stack[t]) = stack[t][1] /\ 1 \in DOMAIN stack[t]
      /\ \A i \in DOMAIN Tail(stack[t]) :
           i + 1 \in DOMAIN stack[t] /\ Tail(stack[t])[i] = stack[t][i + 1]
      /\ \A i \in DOMAIN stack[t] :
           i = 1 \/ (i - 1 \in DOMAIN Tail(stack[t]) /\ Tail(stack[t])[i - 1] = stack[t][i])
  BY <1>1
<1>3. Call(t) \in ObjectCalls /\ Todo(t) \in Seq(Objects \cup Connections)
  BY <1>2 DEF Call, Todo, Frames
<1>4. Range(stack[t]) = {Head(stack[t])} \cup Rest(t)
  <2>1. Rest(t) = Range(Tail(stack[t]))
    BY DEF Rest
  <2>2. ASSUME NEW f \in Range(stack[t])
        PROVE  f = Head(stack[t]) \/ f \in Range(Tail(stack[t]))
    <3>1. PICK i \in DOMAIN stack[t] : f = stack[t][i]
      BY DEF Range
    <3> QED
      BY <1>2, <3>1 DEF Range
  <2>3. ASSUME NEW f \in Range(Tail(stack[t]))
        PROVE  f \in Range(stack[t])
    <3>1. PICK i \in DOMAIN Tail(stack[t]) : f = Tail(stack[t])[i]
      BY DEF Range
    <3> QED
      BY <1>2, <3>1 DEF Range
  <2>4. Head(stack[t]) \in Range(stack[t])
    BY <1>2 DEF Range
  <2> QED
    BY <2>1, <2>2, <2>3, <2>4
<1> QED
  BY <1>2, <1>3, <1>4 DEF Active, Below

(* A call goes on to its next step.                                        *)
LEMMA GotoStep ==
  ASSUME TypeOK, NEW t \in Threads, stack[t] # <<>>,
         NEW at \in {"loop", "slot"}, NEW todo \in Seq(Objects \cup Connections),
         Goto(t, at, todo)
  PROVE  LET g == [call |-> Call(t), at |-> at, todo |-> todo]
         IN  /\ stack' \in [Threads -> Seq(Frames)]
             /\ \A u \in Threads \ {t} : stack'[u] = stack[u]
             /\ stack'[t] # <<>> /\ Head(stack'[t]) = g /\ Begun(g)
             /\ Range(stack'[t]) = {g} \cup Rest(t)
             /\ Rest(t)' = Rest(t)
             /\ Active(t)' = {g} \cup Below(t)
             /\ Below(t)' = Below(t)
<1> DEFINE f == Head(stack[t])
           g == [call |-> Call(t), at |-> at, todo |-> todo]
<1>1. stack \in [Threads -> Seq(Frames)]
  BY DEF TypeOK
<1>2. f \in Frames /\ Tail(stack[t]) \in Seq(Frames)
  BY StackParts
<1>3. g \in Frames
  BY StackParts DEF Frames
<1>4. stack' = [stack EXCEPT ![t] = <<g>> \o Tail(stack[t])]
  BY <1>3, <1>1 DEF Goto
<1> HIDE DEF g
<1>5. <<g>> \o Tail(stack[t]) \in Seq(Frames) /\ <<g>> \o Tail(stack[t]) # <<>>
      /\ Head(<<g>> \o Tail(stack[t])) = g
      /\ Tail(<<g>> \o Tail(stack[t])) = Tail(stack[t])
  BY <1>2, <1>3
<1>6. stack' \in [Threads -> Seq(Frames)] /\ \A u \in Threads \ {t} : stack'[u] = stack[u]
  BY <1>1, <1>4, <1>5
<1>7. stack'[t] = <<g>> \o Tail(stack[t])
  BY <1>1, <1>4
<1>8. stack'[t] # <<>> /\ Head(stack'[t]) = g /\ Rest(t)' = Rest(t)
  BY <1>5, <1>7 DEF Rest
<1>9. Range(stack'[t]) = {g} \cup Rest(t)
  <2>0. <<g>> \in Seq(Frames)
    BY <1>3
  <2>1. Range(<<g>> \o Tail(stack[t])) = Range(<<g>>) \cup Range(Tail(stack[t]))
    BY <1>2, <2>0, RangeConcatenation
  <2>2. Range(<<g>>) = {g}
    BY DEF Range
  <2> QED
    BY <1>7, <2>1, <2>2 DEF Rest
<1>10. Begun(g)
  BY DEF g, Begun
<1> QED
  BY <1>6, <1>8, <1>9, <1>10 DEF Active, Below, g

(* A call returns.                                                         *)
LEMMA ReturnStep ==
  ASSUME TypeOK, NEW t \in Threads, stack[t] # <<>>, Return(t)
  PROVE  /\ stack' \in [Threads -> Seq(Frames)]
         /\ \A u \in Threads \ {t} : stack'[u] = stack[u]
         /\ stack'[t] = Tail(stack[t])
         /\ Range(stack'[t]) = Rest(t)
         /\ Rest(t)' \subseteq Rest(t)
         /\ Active(t)' = Below(t)
         /\ Below(t)' \subseteq Below(t)
<1>1. stack \in [Threads -> Seq(Frames)] /\ Tail(stack[t]) \in Seq(Frames)
  BY StackParts DEF TypeOK
<1>2. stack' \in [Threads -> Seq(Frames)] /\ stack'[t] = Tail(stack[t])
      /\ \A u \in Threads \ {t} : stack'[u] = stack[u]
  BY <1>1 DEF Return
<1>3. Range(stack'[t]) = Rest(t)
  BY <1>2 DEF Rest
<1>4. Rest(t)' \subseteq Rest(t)
  <2>1. CASE stack'[t] = <<>>
    BY <2>1 DEF Rest
  <2>2. CASE stack'[t] # <<>>
    <3>1. \A i \in DOMAIN Tail(stack'[t]) :
            i + 1 \in DOMAIN stack'[t] /\ Tail(stack'[t])[i] = stack'[t][i + 1]
      BY <1>2, <2>2
    <3>2. Range(Tail(stack'[t])) \subseteq Range(stack'[t])
      BY <3>1 DEF Range
    <3> QED
      BY <1>3, <2>2, <3>2 DEF Rest
  <2> QED
    BY <2>1, <2>2
<1> QED
  BY <1>2, <1>3, <1>4 DEF Active, Below

(* A callback makes its calls: they come before the emission.              *)
LEMMA CallbackStep ==
  ASSUME TypeOK, Shape, NEW t \in Threads, Callback(t)
  PROVE  LET g == [call |-> Call(t), at |-> "loop", todo |-> Todo(t)]
         IN  /\ stack' \in [Threads -> Seq(Frames)]
             /\ \A u \in Threads \ {t} : stack'[u] = stack[u]
             /\ \E p \in Seq(Frames) :
                  /\ stack'[t] = p \o (<<g>> \o Tail(stack[t]))
                  /\ Range(p) \subseteq {Frame(c) : c \in ObjectCalls}
                  /\ Range(stack'[t]) = Range(p) \cup ({g} \cup Rest(t))
             /\ g \in Frames
             /\ Active(t)' = {g} \cup Below(t)
<1> DEFINE f == Head(stack[t])
           g == [call |-> Call(t), at |-> "loop", todo |-> Todo(t)]
           calls == reaction[Head(Todo(t)).slot]
<1>1. stack[t] # <<>> /\ Call(t).op = "emit" /\ f.at = "slot" /\ stack \in [Threads -> Seq(Frames)]
  BY DEF Callback, In, Call, TypeOK
<1>2. f \in Frames /\ Tail(stack[t]) \in Seq(Frames) /\ Call(t) \in ObjectCalls
      /\ Todo(t) \in Seq(Objects \cup Connections) /\ f \in Range(stack[t])
  BY <1>1, StackParts
<1>3. g \in Frames
  BY <1>2 DEF Frames
<1>4. [f EXCEPT !.at = "loop"] = g
  BY <1>2 DEF Frames, Call, Todo
<1>5. calls \in Seq(ObjectCalls)
  <2>1. Todo(t) \in Seq(Connections) /\ Todo(t) # <<>>
    BY <1>1, <1>2 DEF Shape, FrameOK, Call, Todo
  <2>2. Head(Todo(t)) \in Connections
    BY <2>1
  <2>3. Head(Todo(t)).slot \in Slots
    BY <2>2 DEF Connections
  <2> QED
    BY <2>3 DEF TypeOK
<1>6. PICK made \in Selections(calls, {k \in DOMAIN calls : MayCall(calls[k])}) :
           stack' = [stack EXCEPT
             ![t] = [k \in DOMAIN made |-> Frame(made[k])]
                      \o <<[Head(@) EXCEPT !.at = "loop"]>> \o Tail(@)]
  BY DEF Callback
<1> DEFINE p == [k \in DOMAIN made |-> Frame(made[k])]
           r == Tail(stack[t])
<1>7. made \in Seq(ObjectCalls)
  BY <1>5, <1>6, SelectionOf
<1>8. \A c \in ObjectCalls : Frame(c) \in Frames
  BY DEF Frame, Frames
<1>9. p \in Seq(Frames) /\ Range(p) \subseteq {Frame(c) : c \in ObjectCalls}
  <2>1. \A k \in DOMAIN made : made[k] \in ObjectCalls
    BY <1>7
  <2>2. p \in Seq(Frames)
    BY <1>7, <1>8, <2>1
  <2> QED
    BY <2>1, <2>2 DEF Range
<1> HIDE DEF p, g, calls
<1>10. r \in Seq(Frames) /\ <<g>> \in Seq(Frames) /\ <<g>> \o r \in Seq(Frames)
  BY <1>2, <1>3
<1> HIDE DEF r
<1>11. (p \o <<g>>) \o r = p \o (<<g>> \o r)
  BY <1>9, <1>10, ConcatAssociative
<1>12. stack' = [stack EXCEPT ![t] = p \o (<<g>> \o r)]
  BY <1>1, <1>4, <1>6, <1>11 DEF p, r
<1>13. p \o (<<g>> \o r) \in Seq(Frames)
  BY <1>9, <1>10
<1>14. /\ stack' \in [Threads -> Seq(Frames)]
       /\ \A u \in Threads \ {t} : stack'[u] = stack[u]
       /\ stack'[t] = p \o (<<g>> \o r)
  BY <1>1, <1>12, <1>13
<1>15. Range(stack'[t]) = Range(p) \cup ({g} \cup Rest(t))
  <2>1. Range(p \o (<<g>> \o r)) = Range(p) \cup Range(<<g>> \o r)
    <3> DEFINE z == <<g>> \o r
    <3>1. z \in Seq(Frames)
      BY <1>10
    <3> HIDE DEF z
    <3>2. Range(p \o z) = Range(p) \cup Range(z)
      BY <1>9, <3>1, RangeConcatenation
    <3> QED
      BY <3>2 DEF z
  <2>2. Range(<<g>> \o r) = Range(<<g>>) \cup Range(r)
    BY <1>2, <1>10, RangeConcatenation
  <2>3. Range(<<g>>) = {g}
    BY DEF Range
  <2> QED
    BY <1>1, <1>14, <2>1, <2>2, <2>3 DEF Rest, r
<1>16. Active(t)' = {g} \cup Below(t)
  <2>1. Begun(g) /\ \A h \in Range(p) : ~Begun(h)
    BY <1>9 DEF g, Begun, Frame
  <2> QED
    BY <1>15, <2>1 DEF Active, Below
<1> QED
  BY <1>3, <1>9, <1>14, <1>15, <1>16 DEF g, r

(* A thread takes the next call of its script.                             *)
LEMMA TakeStep ==
  ASSUME TypeOK, NEW t \in Threads, TakeCall(t)
  PROVE  /\ stack' \in [Threads -> Seq(Frames)]
         /\ script' \in [Threads -> Seq(Calls)] /\ event' \in BOOLEAN
         /\ \A u \in Threads \ {t} : stack'[u] = stack[u]
         /\ stack'[t] = stack[t] \/ \E c \in ObjectCalls : stack'[t] = <<Frame(c)>>
         /\ Active(t) = {} /\ Active(t)' = {} /\ Rest(t)' = {}
<1>1. /\ stack \in [Threads -> Seq(Frames)] /\ script \in [Threads -> Seq(Calls)]
      /\ stack[t] = <<>> /\ script[t] # <<>>
  BY DEF TypeOK, TakeCall
<1>2. Head(script[t]) \in Calls /\ Tail(script[t]) \in Seq(Calls)
  BY <1>1
<1>3. script' \in [Threads -> Seq(Calls)] /\ event' \in BOOLEAN
  BY <1>1, <1>2 DEF TakeCall, TypeOK
<1>4. ASSUME Head(script[t]).op \notin {"set", "wait"}
      PROVE  Head(script[t]) \in ObjectCalls /\ <<Frame(Head(script[t]))>> \in Seq(Frames)
  <2>1. Head(script[t]) \in ObjectCalls
    BY <1>2, <1>4 DEF Calls
  <2> QED
    BY <2>1 DEF Frame, Frames
<1>5. stack' = stack
      \/ (Head(script[t]).op \notin {"set", "wait"} /\ stack' = [stack EXCEPT ![t] = <<Frame(Head(script[t]))>>])
  BY DEF TakeCall
<1>6. /\ stack' \in [Threads -> Seq(Frames)]
      /\ \A u \in Threads \ {t} : stack'[u] = stack[u]
      /\ stack'[t] = stack[t] \/ \E c \in ObjectCalls : stack'[t] = <<Frame(c)>>
  <2>1. CASE stack' = stack
    BY <1>1, <2>1
  <2>2. CASE Head(script[t]).op \notin {"set", "wait"}
             /\ stack' = [stack EXCEPT ![t] = <<Frame(Head(script[t]))>>]
    BY <1>1, <1>4, <2>2
  <2> QED
    BY <1>5, <2>1, <2>2
<1>7. \A c : Range(<<Frame(c)>>) = {Frame(c)} /\ Tail(<<Frame(c)>>) = <<>> /\ ~Begun(Frame(c))
  BY DEF Range, Frame, Begun
<1>8. Range(<<>>) = {}
  BY DEF Range
<1>9. Active(t) = {}
  BY <1>1, <1>8 DEF Active
<1>10. Active(t)' = {} /\ Rest(t)' = {}
  <2>1. CASE stack'[t] = <<>>
    BY <1>8, <2>1 DEF Active, Rest
  <2>2. CASE \E c \in ObjectCalls : stack'[t] = <<Frame(c)>>
    BY <1>7, <1>8, <2>2 DEF Active, Rest
  <2> QED
    BY <1>1, <1>6, <2>1, <2>2
<1> QED
  BY <1>3, <1>6, <1>9, <1>10

-----------------------------------------------------------------------------
(* The calls beside the innermost one of t.                                *)

(* The emission h waits for a callback from which t makes its call.        *)
Enclosing(t, h) ==
  /\ h.call.op = "emit" /\ h.at = "loop"
  /\ Multi => owner[h.call.sig] = t
  /\ Call(t).op \in {"connect", "emit", "~signal"} => Call(t).sig # h.call.sig
  /\ Begun(Head(stack[t])) /\ (Multi \/ Call(t).op = "copy_signal") =>
       Guarded(Call(t)) # h.call.sig

(* The call h of another thread goes on beside the one of t.               *)
Beside(t, h) ==
  /\ Multi
  /\ Apart(Call(t), h.call) /\ Apart(h.call, Call(t))
  /\ owner[Guarded(h.call)] \notin {t, NoThread}

(* The object a call guards.                                               *)
LEMMA GuardedFields ==
  ASSUME NEW c \in ObjectCalls
  PROVE  /\ Guarded(c) \in Objects
         /\ c.op \in LeaveOps => Guarded(c) = c.slot
         /\ c.op \in CopyOps => Guarded(c) = c.copy
         /\ c.op \in {"connect", "disconnect", "emit"} \cup ClearOps => Guarded(c) = c.sig
BY DEF ObjectCalls, Guarded, LeaveOps, CopyOps, ClearOps, Objects

(* The calls that have begun are the innermost one of t, if it has, and    *)
(* the others.                                                             *)
LEMMA ActsParts ==
  ASSUME TypeOK, NEW t \in Threads, stack[t] # <<>>
  PROVE  Acts = {f \in {Head(stack[t])} : Begun(f)} \cup Others(t)
BY StackParts DEF Acts, Others

(* The same after a step of t.                                             *)
LEMMA ActsAfter ==
  ASSUME NEW t \in Threads, NEW X, Active(t)' = X \cup Below(t),
         \A u \in Threads \ {t} : stack'[u] = stack[u]
  PROVE  Acts' = X \cup Others(t)
<1>1. \A u \in Threads \ {t} : Active(u)' = Active(u)
  BY DEF Active
<1> QED
  BY <1>1 DEF Acts, Others

(* A call below the innermost one has a place in the stack.                *)
LEMMA RestIndex ==
  ASSUME TypeOK, NEW t \in Threads, stack[t] # <<>>, NEW h \in Rest(t)
  PROVE  /\ 1 \in DOMAIN stack[t] /\ stack[t][1] = Head(stack[t])
         /\ \E j \in DOMAIN stack[t] : 1 < j /\ stack[t][j] = h
<1>1. stack[t] \in Seq(Frames)
  BY DEF TypeOK
<1>2. PICK i \in DOMAIN Tail(stack[t]) : h = Tail(stack[t])[i]
  BY DEF Rest, Range
<1>3. i + 1 \in DOMAIN stack[t] /\ 1 < i + 1 /\ stack[t][i + 1] = h
  BY <1>1, <1>2
<1> QED
  BY <1>1, <1>3

(* What is known of them.                                                  *)
LEMMA OtherCalls ==
  ASSUME SlotInv, Rules, NEW t \in Threads, stack[t] # <<>>, NEW h \in Others(t)
  PROVE  /\ h \in Acts /\ FrameOK(h) /\ Begun(h) /\ FrameLive(h) /\ Emits(h)
         /\ h.call \in ObjectCalls
         /\ Enclosing(t, h) \/ Beside(t, h)
<1>1. TypeOK /\ Shape /\ Locked
  BY DEF SlotInv
<1>2. h \in Acts
  BY <1>1, ActsParts
<1>3. FrameLive(h) /\ Emits(h)
  BY <1>2 DEF SlotInv, FramesLive, Emitting
<1>4. CASE h \in Below(t)
  <2>1. h \in Range(stack[t]) /\ h \in Rest(t) /\ Begun(h)
    BY <1>1, <1>4, StackParts DEF Below
  <2>2. FrameOK(h) /\ h.call.op = "emit" /\ h.at = "loop"
    BY <1>1, <2>1 DEF Shape, Waiting, Begun
  <2>3. h.call \in ObjectCalls
    BY <2>2 DEF FrameOK, Frames
  <2>4. Guarded(h.call) = h.call.sig
    BY <2>2, <2>3, GuardedFields
  <2>5. PICK j \in DOMAIN stack[t] : 1 < j /\ stack[t][j] = h
    BY <1>1, <2>1, RestIndex
  <2>6. 1 \in DOMAIN stack[t] /\ stack[t][1] = Head(stack[t])
    BY <1>1, <2>1, RestIndex
  <2>7. Multi => owner[h.call.sig] = t
    BY <1>1, <2>1, <2>4 DEF Locked, Active
  <2>8. Call(t).op \in {"connect", "emit", "~signal"} => Call(t).sig # h.call.sig
    BY <2>2, <2>5, <2>6 DEF Rules, NoReentry, Call
  <2>9. Begun(Head(stack[t])) /\ (Multi \/ Call(t).op = "copy_signal") =>
          Guarded(Call(t)) # h.call.sig
    BY <1>1, <2>1, <2>4, <2>5, <2>6 DEF Locked, Nested, Exclusive, Call
  <2> QED
    BY <1>2, <1>3, <2>1, <2>2, <2>3, <2>7, <2>8, <2>9 DEF Enclosing
<1>5. CASE h \notin Below(t)
  <2>1. PICK u \in Threads \ {t} : h \in Active(u)
    BY <1>5 DEF Others
  <2>2. h \in Range(stack[u]) /\ Begun(h)
    BY <2>1 DEF Active
  <2>3. FrameOK(h) /\ h.call \in ObjectCalls
    BY <1>1, <2>2 DEF Shape, FrameOK, Frames
  <2>4. stack[u] # <<>>
    BY <2>2 DEF Range
  <2>5. Multi
    BY <2>4 DEF Multi, Rules, OneThread
  <2>6. owner[Guarded(h.call)] = u /\ u # NoThread
    BY <1>1, <2>1, <2>5, SigslotAssumption DEF Locked
  <2>7. Head(stack[t]) \in Range(stack[t])
    BY <1>1, StackParts
  <2>8. Apart(Call(t), h.call) /\ Apart(h.call, Call(t))
    BY <2>2, <2>7 DEF Rules, Separate, Call
  <2> QED
    BY <1>2, <1>3, <2>2, <2>3, <2>5, <2>6, <2>8 DEF Beside
<1> QED
  BY <1>4, <1>5

-----------------------------------------------------------------------------
(* The list and the iterator of a signal.                                  *)

(* Where the iterator goes when connections are erased.                    *)
LEMMA IteratorAfterIs ==
  ASSUME NEW q \in Seq(Connections), NEW cur, NEW gone
  PROVE  LET left == {i \in DOMAIN q : q[i] \notin gone /\ \E k \in 1..i : q[k] = cur}
             next == IteratorAfter(cur, q, gone)
         IN  /\ cur \notin gone => next = cur
             /\ cur \in gone /\ left = {} => next = End
             /\ cur \in gone /\ left # {} => \E i \in left : next = q[i] /\ \A k \in left : i <= k
<1> DEFINE left == {i \in DOMAIN q : q[i] \notin gone /\ \E k \in 1..i : q[k] = cur}
<1>1. left # {} => \E i \in left : \A k \in left : i <= k
  <2>1. left \subseteq Nat
    OBVIOUS
  <2> HIDE DEF left
  <2> QED
    BY <2>1, LeastExists
<1>2. IteratorAfter(cur, q, gone) =
        IF cur \notin gone THEN cur
        ELSE IF left = {} THEN End
        ELSE q[CHOOSE i \in left : \A k \in left : i <= k]
  BY DEF IteratorAfter
<1> HIDE DEF left
<1>3. left # {} =>
        /\ (CHOOSE i \in left : \A k \in left : i <= k) \in left
        /\ \A k \in left : (CHOOSE i \in left : \A m \in left : i <= m) <= k
  BY <1>1
<1> DEFINE first == CHOOSE i \in left : \A k \in left : i <= k
<1>4. left # {} => first \in left /\ \A k \in left : first <= k
  BY <1>3
<1>5. cur \in gone /\ left # {} => IteratorAfter(cur, q, gone) = q[first]
  BY <1>2
<1> HIDE DEF first
<1>6. cur \in gone /\ left # {} =>
        \E i \in left : IteratorAfter(cur, q, gone) = q[i] /\ \A k \in left : i <= k
  BY <1>4, <1>5
<1> QED
  BY <1>2, <1>6 DEF left

(* What is left when connections are erased.                               *)
LEMMA EraseLeaves ==
  ASSUME NEW q \in Seq(Connections), NEW gone,
         NEW r \in Selections(q, {i \in DOMAIN q : q[i] \notin gone})
  PROVE  r \in Seq(Connections) /\ Range(r) = Range(q) \ gone /\ (IsInjective(q) => IsInjective(r))
<1> DEFINE keep == {i \in DOMAIN q : q[i] \notin gone}
<1>1. Range(r) = {q[i] : i \in keep} /\ r \in Seq(Connections) /\ (IsInjective(q) => IsInjective(r))
  <2>1. keep \subseteq DOMAIN q
    OBVIOUS
  <2> HIDE DEF keep
  <2>2. r \in Selections(q, keep)
    BY DEF keep
  <2> QED
    BY <2>1, <2>2, SelectionOf
<1> QED
  BY <1>1 DEF Range

(* An emission in its turn stays so when connections are erased.           *)
LEMMA EraseInTurn ==
  ASSUME NEW q \in Seq(Connections), IsInjective(q), NEW gone, End \notin gone,
         NEW r \in Selections(q, {i \in DOMAIN q : q[i] \notin gone}),
         NEW cur, NEW called, InTurn(q, cur, called)
  PROVE  InTurn(r, IteratorAfter(cur, q, gone), called)
<1> DEFINE keep == {i \in DOMAIN q : q[i] \notin gone}
           left == {i \in DOMAIN q : q[i] \notin gone /\ \E k \in 1..i : q[k] = cur}
           next == IteratorAfter(cur, q, gone)
<1>1. r \in Seq(Connections) /\ Range(r) = Range(q) \ gone
  BY EraseLeaves
<1>2. PICK f \in [DOMAIN r -> keep] :
        /\ \A k \in DOMAIN r : r[k] = q[f[k]]
        /\ \A i \in keep : \E k \in DOMAIN r : f[k] = i
        /\ \A i, j \in DOMAIN r : i < j => f[i] < f[j]
  <2>1. keep \subseteq DOMAIN q
    OBVIOUS
  <2> HIDE DEF keep
  <2>2. r \in Selections(q, keep)
    BY DEF keep
  <2>3. \E f : Places(q, keep, r, f)
    BY <2>1, <2>2, SelectionOf
  <2> QED
    BY <2>3 DEF Places
<1>3. /\ cur \notin gone => next = cur
      /\ cur \in gone /\ left = {} => next = End
      /\ cur \in gone /\ left # {} => \E i \in left : next = q[i] /\ \A k \in left : i <= k
  BY IteratorAfterIs
<1> HIDE DEF next
<1>4. cur \in Range(q) \cup {End}
  BY DEF InTurn
<1>5. next \in Range(r) \cup {End}
  <2>1. CASE cur \notin gone
    BY <1>1, <1>3, <1>4, <2>1
  <2>2. CASE cur \in gone /\ left = {}
    BY <1>3, <2>2
  <2>3. CASE cur \in gone /\ left # {}
    <3>1. PICK i \in left : next = q[i]
      BY <1>3, <2>3
    <3> QED
      BY <1>1, <3>1 DEF Range
  <2> QED
    BY <2>1, <2>2, <2>3
<1>6. \A k \in DOMAIN r : f[k] \in DOMAIN q /\ f[k] \in Nat /\ q[f[k]] \notin gone /\ k \in Nat
  <2>1. \A k \in DOMAIN r : f[k] \in keep /\ k \in Nat
    BY <1>1, <1>2
  <2> QED
    BY <2>1
<1>7. \A j, k \in DOMAIN r : j <= k <=> f[j] <= f[k]
  BY <1>2, <1>6
<1>8. ASSUME NEW k \in DOMAIN r
      PROVE  Passed(r, next, k) <=> Passed(q, cur, f[k])
  <2>0. f[k] \in DOMAIN q /\ f[k] \in Nat /\ q[f[k]] \notin gone /\ k \in Nat
        /\ \A m \in 1..k : m \in DOMAIN r /\ f[m] <= f[k]
    <3>1. \A m \in 1..k : m \in DOMAIN r /\ m <= k
      BY <1>1
    <3> QED
      BY <1>6, <1>7, <3>1
  <2>1. CASE cur \notin gone
    <3>1. ASSUME Passed(q, cur, f[k]), NEW m \in 1..k
          PROVE  r[m] # next
      <4>1. f[m] \in 1..f[k]
        BY <2>0, <1>6
      <4> QED
        BY <1>2, <1>3, <2>0, <2>1, <3>1, <4>1 DEF Passed
    <3>2. ASSUME Passed(r, next, k), NEW m \in 1..f[k]
          PROVE  q[m] # cur
      <4> SUFFICES ASSUME q[m] = cur PROVE FALSE
        OBVIOUS
      <4>1. m \in DOMAIN q
        BY <2>0
      <4>2. PICK j \in DOMAIN r : f[j] = m
        BY <1>2, <2>1, <4>1
      <4>3. j \in 1..k
        BY <1>1, <1>7, <2>0, <4>2
      <4> QED
        BY <1>2, <1>3, <2>1, <3>2, <4>2, <4>3 DEF Passed
    <3> QED
      BY <3>1, <3>2 DEF Passed
  <2>2. CASE cur \in gone /\ left = {}
    <3>1. \A m \in 1..k : r[m] # End
      <4>1. \A m \in 1..k : r[m] \in Connections
        BY <1>1, <2>0
      <4> QED
        BY <4>1, SigslotAssumption
    <3>2. f[k] \notin left
      BY <2>2
    <3> QED
      BY <1>3, <2>0, <2>2, <3>1, <3>2 DEF Passed
  <2>3. CASE cur \in gone /\ left # {}
    <3>1. PICK i \in left : next = q[i] /\ \A m \in left : i <= m
      BY <1>3, <2>3
    <3>2. i \in DOMAIN q /\ i \in Nat /\ q[i] \notin gone /\ \E m \in 1..i : q[m] = cur
      OBVIOUS
    <3>3. PICK j \in DOMAIN r : f[j] = i
      BY <1>2, <3>2
    <3>4. Passed(q, cur, f[k]) <=> f[k] < i
      <4>1. ASSUME f[k] < i PROVE Passed(q, cur, f[k])
        <5>1. f[k] \notin left
          BY <3>1, <3>2, <2>0, <4>1
        <5> QED
          BY <2>0, <5>1 DEF Passed
      <4>2. ASSUME Passed(q, cur, f[k]) PROVE f[k] < i
        <5>1. PICK m \in 1..i : q[m] = cur
          BY <3>2
        <5>2. ~(m <= f[k])
          BY <4>2, <5>1, <2>0 DEF Passed
        <5> QED
          BY <2>0, <3>2, <5>2
      <4> QED
        BY <4>1, <4>2
    <3>5. Passed(r, next, k) <=> k < j
      <4>1. \A m \in 1..k : r[m] = next <=> m = j
        <5>1. \A m \in 1..k : r[m] = q[f[m]] /\ f[m] \in DOMAIN q
          BY <1>2, <1>6, <2>0
        <5>2. \A m \in 1..k : q[f[m]] = q[i] <=> f[m] = i
          BY <3>2, <5>1 DEF IsInjective
        <5>3. \A m \in 1..k : f[m] = f[j] <=> m = j
          BY <1>6, <1>7, <2>0, <3>3
        <5> QED
          BY <3>1, <3>3, <5>1, <5>2, <5>3
      <4>2. j \in Nat /\ 1 <= j /\ k \in Nat
        BY <1>1, <1>6, <2>0, <3>3
      <4>3. ASSUME k < j PROVE Passed(r, next, k)
        BY <4>1, <4>2, <4>3 DEF Passed
      <4>4. ASSUME Passed(r, next, k), ~(k < j) PROVE FALSE
        <5>1. j \in 1..k
          BY <4>2, <4>4
        <5> QED
          BY <4>1, <4>4, <5>1 DEF Passed
      <4> QED
        BY <4>3, <4>4
    <3>6. k < j <=> f[k] < i
      BY <1>6, <1>7, <2>0, <3>2, <3>3
    <3> QED
      BY <3>4, <3>5, <3>6
  <2> QED
    BY <2>1, <2>2, <2>3
<1>9. ASSUME NEW k \in DOMAIN r, r[k].slot \notin Copies
      PROVE  r[k] \in Range(called) <=> Passed(r, next, k)
  <2>1. f[k] \in DOMAIN q /\ r[k] = q[f[k]]
    BY <1>2, <1>6
  <2>2. r[k] \in Range(called) <=> Passed(q, cur, f[k])
    BY <1>9, <2>1 DEF InTurn
  <2> QED
    BY <1>8, <2>2
<1>10. InTurn(r, next, called)
  BY <1>5, <1>9 DEF InTurn
<1> QED
  BY <1>10 DEF next

(* The connection after cur.                                               *)
LEMMA AdvanceIs ==
  ASSUME NEW q \in Seq(Connections), NEW cur
  PROVE  \/ /\ Advance(cur, q) = End
            /\ \A i \in DOMAIN q : i > 1 => q[i - 1] # cur
         \/ \E i \in DOMAIN q : i > 1 /\ q[i - 1] = cur /\ Advance(cur, q) = q[i]
<1> DEFINE next == {i \in DOMAIN q : i > 1 /\ q[i - 1] = cur}
           one  == CHOOSE i \in next : TRUE
<1>1. Advance(cur, q) = IF next = {} THEN End ELSE q[one]
  BY DEF Advance
<1>2. next # {} => one \in next
  <2> HIDE DEF next
  <2> QED
    OBVIOUS
<1> HIDE DEF one
<1> QED
  BY <1>1, <1>2

(* An emission in its turn stays so when it calls the next connection.     *)
LEMMA AdvanceInTurn ==
  ASSUME NEW q \in Seq(Connections), IsInjective(q), NEW cur, cur # End,
         NEW called \in Seq(Connections), InTurn(q, cur, called), CalledOnce(called)
  PROVE  /\ cur \in Range(q)
         /\ <<cur>> \o called \in Seq(Connections)
         /\ InTurn(q, Advance(cur, q), <<cur>> \o called)
         /\ CalledOnce(<<cur>> \o called)
<1> DEFINE next == Advance(cur, q)
           all  == <<cur>> \o called
<1>1. PICK a \in DOMAIN q : q[a] = cur
  BY DEF InTurn, Range
<1>2. cur \in Connections /\ cur \in Range(q)
  BY <1>1 DEF Range
<1>3. /\ all \in Seq(Connections)
      /\ DOMAIN all = 1..(Len(called) + 1)
      /\ all[1] = cur
      /\ \A i \in DOMAIN called : all[i + 1] = called[i] /\ i + 1 \in DOMAIN all
      /\ \A i \in DOMAIN all : i # 1 => i - 1 \in DOMAIN called /\ all[i] = called[i - 1]
  BY <1>2
<1>4. Range(all) = {cur} \cup Range(called)
  BY <1>2, RangeCons
<1> HIDE DEF all
<1>5. \A i \in DOMAIN q : q[i] = cur <=> i = a
  BY <1>1 DEF IsInjective
<1>6. \A i \in DOMAIN q : Passed(q, cur, i) <=> i < a
  BY <1>1, <1>5 DEF Passed
<1>7. \/ next = End /\ a + 1 \notin DOMAIN q
      \/ a + 1 \in DOMAIN q /\ next = q[a + 1]
  <2>1. CASE next = End /\ \A i \in DOMAIN q : i > 1 => q[i - 1] # cur
    <3>1. a + 1 \in DOMAIN q => a + 1 > 1 /\ q[(a + 1) - 1] = cur
      BY <1>1
    <3> QED
      BY <2>1, <3>1
  <2>2. CASE \E i \in DOMAIN q : i > 1 /\ q[i - 1] = cur /\ next = q[i]
    <3>1. PICK i \in DOMAIN q : i > 1 /\ q[i - 1] = cur /\ next = q[i]
      BY <2>2
    <3>2. i - 1 \in DOMAIN q
      BY <3>1
    <3>3. i - 1 = a
      BY <1>5, <3>1, <3>2
    <3> QED
      BY <3>1, <3>3
  <2> QED
    BY <2>1, <2>2, AdvanceIs
<1> HIDE DEF next
<1>8. next \in Range(q) \cup {End}
  BY <1>7 DEF Range
<1>9. ASSUME NEW i \in DOMAIN q
      PROVE  Passed(q, next, i) <=> i <= a
  <2>1. \A k \in 1..i : k \in DOMAIN q /\ q[k] \in Connections /\ q[k] # End
    BY SigslotAssumption
  <2>2. CASE next = End /\ a + 1 \notin DOMAIN q
    BY <1>1, <2>1, <2>2 DEF Passed
  <2>3. CASE a + 1 \in DOMAIN q /\ next = q[a + 1]
    <3>1. \A k \in 1..i : q[k] = next <=> k = a + 1
      BY <2>1, <2>3 DEF IsInjective
    <3>2. i \in Nat /\ a \in Nat
      BY <1>1
    <3> QED
      BY <3>1, <3>2 DEF Passed
  <2> QED
    BY <1>7, <2>2, <2>3
<1>10. InTurn(q, next, all)
  <2>1. ASSUME NEW i \in DOMAIN q, q[i].slot \notin Copies
        PROVE  q[i] \in Range(all) <=> Passed(q, next, i)
    <3>1. q[i] \in Range(called) <=> i < a
      BY <1>6, <2>1 DEF InTurn
    <3>2. q[i] \in Range(all) <=> i = a \/ i < a
      BY <1>4, <1>5, <3>1
    <3> QED
      BY <1>1, <1>9, <3>2
  <2> QED
    BY <1>8, <2>1 DEF InTurn
<1>11. CalledOnce(all)
  <2>1. cur.slot \notin Copies => cur \notin Range(called)
    BY <1>1, <1>6 DEF InTurn
  <2>2. \A i \in DOMAIN called : called[i] \in Range(called)
    BY DEF Range
  <2> SUFFICES ASSUME NEW i \in DOMAIN all, NEW k \in DOMAIN all,
                      all[i] = all[k], all[i].slot \notin Copies
               PROVE  i = k
    BY DEF CalledOnce
  <2>3. CASE i = 1 \/ k = 1
    BY <1>3, <2>1, <2>2, <2>3
  <2>4. CASE i # 1 /\ k # 1
    <3>1. i - 1 = k - 1
      BY <1>3, <2>4 DEF CalledOnce
    <3> QED
      BY <1>3, <3>1
  <2> QED
    BY <2>3, <2>4
<1> QED
  BY <1>2, <1>3, <1>10, <1>11 DEF next, all

(* disconnect and do_slot_disconnect erase connections of a signal.        *)
LEMMA EraseStep ==
  ASSUME TypeOK, NEW s \in Signals, NEW gone, End \notin gone, EraseFrom(s, gone)
  PROVE  /\ m_connected_slots' \in [Signals -> Seq(Connections)]
         /\ m_current_iterator' \in [Signals -> Connections \cup {End}]
         /\ \A z \in Signals \ {s} : /\ m_connected_slots'[z] = m_connected_slots[z]
                                     /\ m_current_iterator'[z] = m_current_iterator[z]
         /\ Range(m_connected_slots'[s]) = Range(m_connected_slots[s]) \ gone
         /\ IsInjective(m_connected_slots[s]) =>
              /\ IsInjective(m_connected_slots'[s])
              /\ \A called : InTurn(m_connected_slots[s], m_current_iterator[s], called) =>
                             InTurn(m_connected_slots'[s], m_current_iterator'[s], called)
<1> DEFINE q == m_connected_slots[s]
           cur == m_current_iterator[s]
<1>1. /\ m_connected_slots \in [Signals -> Seq(Connections)]
      /\ m_current_iterator \in [Signals -> Connections \cup {End}]
      /\ q \in Seq(Connections) /\ cur \in Connections \cup {End}
  BY DEF TypeOK
<1>2. PICK r \in Selections(q, {i \in DOMAIN q : q[i] \notin gone}) :
        m_connected_slots' = [m_connected_slots EXCEPT ![s] = r]
  BY DEF EraseFrom
<1>3. m_current_iterator' = [m_current_iterator EXCEPT ![s] = IteratorAfter(cur, q, gone)]
  BY <1>1 DEF EraseFrom
<1>4. r \in Seq(Connections) /\ Range(r) = Range(q) \ gone /\ (IsInjective(q) => IsInjective(r))
  BY <1>1, EraseLeaves
<1>5. IteratorAfter(cur, q, gone) \in Connections \cup {End}
  BY <1>1, IteratorAfterIs
<1>6. \A called : IsInjective(q) /\ InTurn(q, cur, called) => InTurn(r, IteratorAfter(cur, q, gone), called)
  BY <1>1, EraseInTurn
<1> HIDE DEF q, cur
<1>7. m_connected_slots'[s] = r /\ m_current_iterator'[s] = IteratorAfter(cur, q, gone)
  BY <1>1, <1>2, <1>3
<1>8. /\ m_connected_slots' \in [Signals -> Seq(Connections)]
      /\ m_current_iterator' \in [Signals -> Connections \cup {End}]
      /\ \A z \in Signals \ {s} : /\ m_connected_slots'[z] = m_connected_slots[z]
                                  /\ m_current_iterator'[z] = m_current_iterator[z]
  BY <1>1, <1>2, <1>3, <1>4, <1>5
<1> QED
  BY <1>4, <1>6, <1>7, <1>8 DEF q, cur

-----------------------------------------------------------------------------
(* Types and the shape of the stacks.                                      *)

(* The innermost call of t.                                                *)
LEMMA HeadOK ==
  ASSUME TypeOK, Shape, NEW t \in Threads, stack[t] # <<>>
  PROVE  /\ FrameOK(Head(stack[t])) /\ Call(t) \in ObjectCalls
         /\ Head(stack[t]).call = Call(t) /\ Head(stack[t]).todo = Todo(t)
         /\ Call(t).op \in LeaveOps \cup {"copy_slot"} => Todo(t) \in Seq(Signals)
         /\ Call(t).op \in {"emit", "copy_signal"} => Todo(t) \in Seq(Connections)
         /\ Guarded(Call(t)) \in Objects
BY StackParts, GuardedFields DEF Shape, FrameOK, Call, Todo

(* Only the stack of t changes.                                            *)
LEMMA ShapeAfter ==
  ASSUME Shape, NEW t \in Threads, \A u \in Threads \ {t} : stack'[u] = stack[u],
         \A f \in Range(stack'[t]) : FrameOK(f), \A f \in Rest(t)' : Waiting(f)
  PROVE  Shape'
<1> SUFFICES ASSUME NEW u \in Threads
             PROVE  /\ \A f \in Range(stack'[u]) : FrameOK(f)
                    /\ \A f \in Rest(u)' : Waiting(f)
  BY DEF Shape, FrameOK, Waiting
<1>1. CASE u = t
  BY <1>1
<1>2. CASE u # t
  <2>1. stack'[u] = stack[u] /\ Rest(u)' = Rest(u)
    BY <1>2 DEF Rest
  <2> QED
    BY <2>1 DEF Shape
<1> QED
  BY <1>1, <1>2

(* The innermost call goes on.                                             *)
LEMMA GotoShape ==
  ASSUME TypeOK, Shape, NEW t \in Threads, stack[t] # <<>>,
         NEW at \in {"loop", "slot"}, NEW todo, Goto(t, at, todo),
         FrameOK([call |-> Call(t), at |-> at, todo |-> todo])
  PROVE  Shape' /\ stack' \in [Threads -> Seq(Frames)]
<1> DEFINE g == [call |-> Call(t), at |-> at, todo |-> todo]
<1>1. todo \in Seq(Objects \cup Connections)
  BY DEF FrameOK, Frames
<1>2. /\ stack' \in [Threads -> Seq(Frames)]
      /\ \A u \in Threads \ {t} : stack'[u] = stack[u]
      /\ Range(stack'[t]) = {g} \cup Rest(t)
      /\ Rest(t)' = Rest(t)
  BY <1>1, GotoStep
<1>3. \A f \in Rest(t) : FrameOK(f) /\ Waiting(f)
  BY StackParts DEF Shape
<1>4. FrameOK(g)
  OBVIOUS
<1> HIDE DEF g
<1>5. (\A f \in Range(stack'[t]) : FrameOK(f)) /\ \A f \in Rest(t)' : Waiting(f)
  BY <1>2, <1>3, <1>4
<1> QED
  BY <1>2, <1>5, ShapeAfter

(* The innermost call returns.                                             *)
LEMMA ReturnShape ==
  ASSUME TypeOK, Shape, NEW t \in Threads, stack[t] # <<>>, Return(t)
  PROVE  Shape' /\ stack' \in [Threads -> Seq(Frames)]
<1>1. /\ stack' \in [Threads -> Seq(Frames)]
      /\ \A u \in Threads \ {t} : stack'[u] = stack[u]
      /\ Range(stack'[t]) = Rest(t)
      /\ Rest(t)' \subseteq Rest(t)
  BY ReturnStep
<1>2. \A f \in Rest(t) : FrameOK(f) /\ Waiting(f)
  BY StackParts DEF Shape
<1>3. (\A f \in Range(stack'[t]) : FrameOK(f)) /\ \A f \in Rest(t)' : Waiting(f)
  BY <1>1, <1>2
<1> QED
  BY <1>1, <1>3, ShapeAfter

(* A callback makes its calls.                                             *)
LEMMA CallbackShape ==
  ASSUME TypeOK, Shape, NEW t \in Threads, Callback(t)
  PROVE  Shape' /\ stack' \in [Threads -> Seq(Frames)]
<1> DEFINE g == [call |-> Call(t), at |-> "loop", todo |-> Todo(t)]
<1>1. /\ stack' \in [Threads -> Seq(Frames)]
      /\ \A u \in Threads \ {t} : stack'[u] = stack[u]
      /\ g \in Frames
  BY CallbackStep
<1>2. PICK p \in Seq(Frames) :
        /\ stack'[t] = p \o (<<g>> \o Tail(stack[t]))
        /\ Range(p) \subseteq {Frame(c) : c \in ObjectCalls}
        /\ Range(stack'[t]) = Range(p) \cup ({g} \cup Rest(t))
  BY CallbackStep
<1>3. stack[t] # <<>> /\ Call(t).op = "emit"
  BY DEF Callback, In, Call
<1>4. FrameOK(Head(stack[t])) /\ Call(t) \in ObjectCalls /\ Todo(t) \in Seq(Connections)
  BY <1>3, HeadOK
<1>5. FrameOK(g) /\ Waiting(g)
  BY <1>1, <1>3, <1>4 DEF FrameOK, Waiting, ClearOps, LeaveOps, CopyOps
<1>6. \A f \in Rest(t) : FrameOK(f) /\ Waiting(f)
  BY <1>3, StackParts DEF Shape
<1>7. \A c \in ObjectCalls : FrameOK(Frame(c)) /\ Waiting(Frame(c))
  BY DEF FrameOK, Waiting, Frame, Frames
<1> HIDE DEF g
<1>8. \A f \in Range(stack'[t]) : FrameOK(f) /\ Waiting(f)
  BY <1>2, <1>5, <1>6, <1>7
<1>9. Rest(t)' \subseteq Range(stack'[t])
  <2>1. stack'[t] \in Seq(Frames)
    BY <1>1
  <2>2. stack'[t] # <<>> => \A i \in DOMAIN Tail(stack'[t]) :
          i + 1 \in DOMAIN stack'[t] /\ Tail(stack'[t])[i] = stack'[t][i + 1]
    BY <2>1
  <2> QED
    BY <2>2 DEF Rest, Range
<1>10. (\A f \in Range(stack'[t]) : FrameOK(f)) /\ \A f \in Rest(t)' : Waiting(f)
  BY <1>8, <1>9
<1> QED
  BY <1>1, <1>10, ShapeAfter

(* A thread takes a call.                                                  *)
LEMMA TakeShape ==
  ASSUME TypeOK, Shape, NEW t \in Threads, TakeCall(t)
  PROVE  Shape' /\ TypeOK'
<1>1. /\ stack' \in [Threads -> Seq(Frames)]
      /\ script' \in [Threads -> Seq(Calls)] /\ event' \in BOOLEAN
      /\ \A u \in Threads \ {t} : stack'[u] = stack[u]
      /\ stack'[t] = stack[t] \/ \E c \in ObjectCalls : stack'[t] = <<Frame(c)>>
      /\ Rest(t)' = {}
  BY TakeStep
<1>2. \A f \in Range(stack'[t]) : FrameOK(f)
  <2>1. CASE stack'[t] = stack[t]
    BY <2>1 DEF Shape
  <2>2. CASE \E c \in ObjectCalls : stack'[t] = <<Frame(c)>>
    <3>1. PICK c \in ObjectCalls : stack'[t] = <<Frame(c)>>
      BY <2>2
    <3>2. FrameOK(Frame(c))
      BY DEF FrameOK, Frame, Frames
    <3> HIDE DEF FrameOK
    <3> QED
      BY <3>1, <3>2 DEF Range
  <2> QED
    BY <1>1, <2>1, <2>2
<1>3. Shape'
  BY <1>1, <1>2, ShapeAfter
<1> QED
  BY <1>1, <1>3 DEF TypeOK, TakeCall, objectVars

(* Mutexes are held by threads.                                            *)
LEMMA HoldType ==
  ASSUME TypeOK, NEW o \in Objects, NEW t \in Threads \cup {NoThread}
  PROVE  Hold(o, t) \in [Objects -> Threads \cup {NoThread}]
BY DEF TypeOK, Hold

(* What an order of S is.                                                  *)
LEMMA OrdersType ==
  ASSUME NEW Z, NEW S, IsFiniteSet(Z), S \subseteq Z, NEW q \in Orders(S)
  PROVE  q \in Seq(Z) /\ Range(q) = S /\ IsInjective(q)
<1>1. Cardinality(S) \in Nat
  BY FS_Subset, FS_CardinalityType
<1> QED
  BY <1>1 DEF Orders, Bijection, Injection, Surjection, Range, IsInjective

(* connect and disconnect keep the types.                                  *)
LEMMA ConnectTypes ==
  ASSUME TypeOK, Shape, NEW t \in Threads,
         ConnectSignal(t) \/ ConnectSlot(t) \/ DisconnectSignal(t) \/ DisconnectSlot(t)
  PROVE  TypeOK' /\ Shape'
<1> DEFINE c == Call(t)
<1>1. stack[t] # <<>> /\ c.op \in {"connect", "disconnect"}
  BY DEF ConnectSignal, ConnectSlot, DisconnectSignal, DisconnectSlot, In, Call
<1>2. c \in ObjectCalls /\ c.sig \in Signals /\ c.slot \in Slots /\ c.sig \in Objects
  BY <1>1, HeadOK, CallFields DEF Objects
<1>3. FrameOK([call |-> c, at |-> "slot", todo |-> <<c.slot>>])
  BY <1>1, <1>2 DEF FrameOK, Frames, Objects, ClearOps, LeaveOps
<1>4. /\ Hold(c.sig, t) \in [Objects -> Threads \cup {NoThread}]
      /\ Hold(c.sig, NoThread) \in [Objects -> Threads \cup {NoThread}]
  BY <1>2, HoldType
<1>5. CASE ConnectSignal(t)
  <2>1. PICK n \in NewConnections(m_connected_slots[c.sig], c.slot) :
          m_connected_slots' = [m_connected_slots EXCEPT ![c.sig] = Append(@, n)]
    BY <1>5 DEF ConnectSignal
  <2>2. n \in Connections
    BY <1>2 DEF NewConnections, Connections, TypeOK
  <2>3. m_connected_slots' \in [Signals -> Seq(Connections)]
    BY <1>2, <2>1, <2>2 DEF TypeOK
  <2>4. Shape' /\ stack' \in [Threads -> Seq(Frames)]
    BY <1>1, <1>3, <1>5, GotoShape DEF ConnectSignal
  <2> QED
    BY <1>4, <1>5, <2>3, <2>4 DEF ConnectSignal, TypeOK, Lock, programVars
<1>6. CASE ConnectSlot(t)
  <2>1. Shape' /\ stack' \in [Threads -> Seq(Frames)]
    BY <1>1, <1>6, ReturnShape DEF ConnectSlot
  <2>2. m_senders' \in [Slots -> SUBSET Signals]
    BY <1>2, <1>6 DEF ConnectSlot, TypeOK
  <2> QED
    BY <1>4, <1>6, <2>1, <2>2 DEF ConnectSlot, TypeOK, Unlock, programVars
<1>7. CASE DisconnectSlot(t)
  <2>1. Shape' /\ stack' \in [Threads -> Seq(Frames)]
    BY <1>1, <1>7, ReturnShape DEF DisconnectSlot
  <2>2. m_senders' \in [Slots -> SUBSET Signals]
    BY <1>2, <1>7 DEF DisconnectSlot, TypeOK
  <2> QED
    BY <1>4, <1>7, <2>1, <2>2 DEF DisconnectSlot, TypeOK, Unlock, programVars
<1>8. CASE DisconnectSignal(t)
  <2> DEFINE gone == FirstMatch(m_connected_slots[c.sig], c.slot)
  <2>1. CASE gone = {}
    <3>1. Return(t) /\ UNCHANGED <<objectVars, owner, programVars>>
      BY <1>8, <2>1 DEF DisconnectSignal
    <3>2. Shape' /\ stack' \in [Threads -> Seq(Frames)]
      BY <1>1, <3>1, ReturnShape
    <3> QED
      BY <3>1, <3>2 DEF TypeOK, objectVars, programVars
  <2>2. CASE gone # {}
    <3>1. /\ owner' = Hold(c.sig, t) /\ EraseFrom(c.sig, gone)
          /\ Goto(t, "slot", <<c.slot>>) /\ UNCHANGED <<m_senders, alive, programVars>>
      BY <1>8, <2>2 DEF DisconnectSignal
    <3>2. Shape' /\ stack' \in [Threads -> Seq(Frames)]
      BY <1>1, <1>3, <3>1, GotoShape
    <3>3. End \notin gone
      <4>1. m_connected_slots[c.sig] \in Seq(Connections)
        BY <1>2 DEF TypeOK
      <4>2. gone \subseteq Connections
        BY <4>1 DEF FirstMatch
      <4> QED
        BY <4>2, SigslotAssumption
    <3>4. /\ m_connected_slots' \in [Signals -> Seq(Connections)]
          /\ m_current_iterator' \in [Signals -> Connections \cup {End}]
      BY <1>2, <3>1, <3>3, EraseStep
    <3> QED
      BY <1>4, <3>1, <3>2, <3>4 DEF TypeOK, programVars
  <2> QED
    BY <2>1, <2>2
<1> QED
  BY <1>5, <1>6, <1>7, <1>8

(* disconnect_all of a signal and its destructor keep the types.           *)
LEMMA ClearTypes ==
  ASSUME TypeOK, Shape, NEW t \in Threads,
         ClearLock(t) \/ ClearPop(t) \/ ClearSlot(t) \/ ClearDone(t)
  PROVE  TypeOK' /\ Shape'
<1> DEFINE c == Call(t)
           q == m_connected_slots[c.sig]
<1>1. stack[t] # <<>> /\ c.op \in ClearOps
  BY DEF ClearLock, ClearPop, ClearSlot, ClearDone, In, Call
<1>2. c \in ObjectCalls /\ c.sig \in Signals /\ c.sig \in Objects /\ q \in Seq(Connections)
  BY <1>1, HeadOK, CallFields DEF Objects, TypeOK
<1>3. FrameOK([call |-> c, at |-> "loop", todo |-> <<>>])
  BY <1>1, <1>2 DEF FrameOK, Frames, ClearOps, LeaveOps, CopyOps
<1>4. /\ Hold(c.sig, t) \in [Objects -> Threads \cup {NoThread}]
      /\ Hold(c.sig, NoThread) \in [Objects -> Threads \cup {NoThread}]
  BY <1>2, HoldType
<1>5. CASE ClearLock(t)
  <2>1. Shape' /\ stack' \in [Threads -> Seq(Frames)]
    BY <1>1, <1>3, <1>5, GotoShape DEF ClearLock
  <2> QED
    BY <1>4, <1>5, <2>1 DEF ClearLock, TypeOK, Lock, objectVars, programVars
<1>6. CASE ClearPop(t)
  <2>1. Head(q).slot \in Slots /\ Tail(q) \in Seq(Connections)
    <3>1. q # <<>>
      BY <1>6 DEF ClearPop
    <3>2. Head(q) \in Connections /\ Tail(q) \in Seq(Connections)
      BY <1>2, <3>1
    <3> QED
      BY <3>2 DEF Connections
  <2>2. FrameOK([call |-> c, at |-> "slot", todo |-> <<Head(q).slot>>])
    <3>1. \A o \in Slots : FrameOK([call |-> c, at |-> "slot", todo |-> <<o>>])
      BY <1>1, <1>2 DEF FrameOK, Frames, Objects, ClearOps, LeaveOps, CopyOps
    <3> QED
      BY <2>1, <3>1
  <2>3. Shape' /\ stack' \in [Threads -> Seq(Frames)]
    BY <1>1, <1>6, <2>2, GotoShape DEF ClearPop
  <2>4. m_connected_slots' \in [Signals -> Seq(Connections)]
    BY <1>2, <1>6, <2>1 DEF ClearPop, TypeOK
  <2> QED
    BY <1>6, <2>3, <2>4 DEF ClearPop, TypeOK, programVars
<1>7. CASE ClearSlot(t)
  <2>1. Shape' /\ stack' \in [Threads -> Seq(Frames)]
    BY <1>1, <1>3, <1>7, GotoShape DEF ClearSlot
  <2>2. m_senders' \in [Slots -> SUBSET Signals]
    BY <1>7 DEF ClearSlot, TypeOK
  <2> QED
    BY <1>7, <2>1, <2>2 DEF ClearSlot, TypeOK, programVars
<1>8. CASE ClearDone(t)
  <2>1. Shape' /\ stack' \in [Threads -> Seq(Frames)]
    BY <1>1, <1>8, ReturnShape DEF ClearDone
  <2>2. m_current_iterator' \in [Signals -> Connections \cup {End}] /\ alive' \subseteq Objects
    BY <1>8 DEF ClearDone, TypeOK
  <2> QED
    BY <1>4, <1>8, <2>1, <2>2 DEF ClearDone, TypeOK, Unlock, programVars
<1> QED
  BY <1>5, <1>6, <1>7, <1>8

(* disconnect_all of a slot and its destructor keep the types.             *)
LEMMA LeaveTypes ==
  ASSUME TypeOK, Shape, NEW t \in Threads,
         LeaveLock(t) \/ LeaveSwap(t) \/ LeaveSignal(t) \/ LeaveDone(t)
  PROVE  TypeOK' /\ Shape'
<1> DEFINE c == Call(t)
<1>1. stack[t] # <<>> /\ c.op \in LeaveOps
  BY DEF LeaveLock, LeaveSwap, LeaveSignal, LeaveDone, In, Call
<1>2. c \in ObjectCalls /\ c.slot \in Slots /\ c.slot \in Objects /\ Todo(t) \in Seq(Signals)
  BY <1>1, HeadOK, CallFields DEF Objects
<1>3. \A q \in Seq(Signals) : FrameOK([call |-> c, at |-> "loop", todo |-> q])
  <2>1. Seq(Signals) \subseteq Seq(Objects \cup Connections)
    BY DEF Objects
  <2> QED
    BY <1>1, <1>2, <2>1 DEF FrameOK, Frames, ClearOps, LeaveOps, CopyOps
<1>4. /\ Hold(c.slot, t) \in [Objects -> Threads \cup {NoThread}]
      /\ Hold(c.slot, NoThread) \in [Objects -> Threads \cup {NoThread}]
  BY <1>2, HoldType
<1>5. CASE LeaveLock(t)
  <2>1. Goto(t, "loop", <<>>) /\ <<>> \in Seq(Signals)
    BY <1>5 DEF LeaveLock
  <2>2. Shape' /\ stack' \in [Threads -> Seq(Frames)]
    BY <1>1, <1>3, <2>1, GotoShape
  <2> QED
    BY <1>4, <1>5, <2>2 DEF LeaveLock, TypeOK, Lock, objectVars, programVars
<1>6. CASE LeaveSwap(t)
  <2>1. PICK q \in Orders(m_senders[c.slot]) : Goto(t, "loop", q)
    BY <1>6 DEF LeaveSwap
  <2>2. m_senders[c.slot] \subseteq Signals
    BY <1>2 DEF TypeOK
  <2>3. q \in Seq(Signals)
    BY <2>2, OrdersType, SigslotAssumption
  <2>4. Shape' /\ stack' \in [Threads -> Seq(Frames)]
    BY <1>1, <1>3, <2>1, <2>3, GotoShape
  <2>5. m_senders' \in [Slots -> SUBSET Signals]
    BY <1>6 DEF LeaveSwap, TypeOK
  <2> QED
    BY <1>6, <2>4, <2>5 DEF LeaveSwap, TypeOK, programVars
<1>7. CASE LeaveSignal(t)
  <2> DEFINE s == Head(Todo(t))
             gone == LeaveErase(m_connected_slots[s], c.slot)
  <2>1. s \in Signals /\ Tail(Todo(t)) \in Seq(Signals)
    BY <1>2, <1>7 DEF LeaveSignal
  <2>2. End \notin gone
    <3>1. m_connected_slots[s] \in Seq(Connections)
      BY <2>1 DEF TypeOK
    <3>2. gone \subseteq Connections
      BY <3>1 DEF LeaveErase, Matches, Range
    <3> QED
      BY <3>2, SigslotAssumption
  <2>3. EraseFrom(s, gone) /\ Goto(t, "loop", Tail(Todo(t)))
    BY <1>7 DEF LeaveSignal
  <2>4. Shape' /\ stack' \in [Threads -> Seq(Frames)]
    BY <1>1, <1>3, <2>1, <2>3, GotoShape
  <2>5. /\ m_connected_slots' \in [Signals -> Seq(Connections)]
        /\ m_current_iterator' \in [Signals -> Connections \cup {End}]
    BY <2>1, <2>2, <2>3, EraseStep
  <2> QED
    BY <1>7, <2>4, <2>5 DEF LeaveSignal, TypeOK, programVars
<1>8. CASE LeaveDone(t)
  <2>1. Shape' /\ stack' \in [Threads -> Seq(Frames)]
    BY <1>1, <1>8, ReturnShape DEF LeaveDone
  <2>2. alive' \subseteq Objects
    BY <1>8 DEF LeaveDone, TypeOK
  <2> QED
    BY <1>4, <1>8, <2>1, <2>2 DEF LeaveDone, TypeOK, Unlock, programVars
<1> QED
  BY <1>5, <1>6, <1>7, <1>8

(* Emissions keep the types.                                               *)
LEMMA EmitTypes ==
  ASSUME TypeOK, Shape, NEW t \in Threads,
         EmitLock(t) \/ EmitCall(t) \/ Callback(t) \/ EmitDone(t)
  PROVE  TypeOK' /\ Shape'
<1> DEFINE c == Call(t)
           q == m_connected_slots[c.sig]
           cur == m_current_iterator[c.sig]
<1>1. stack[t] # <<>> /\ c.op = "emit"
  BY DEF EmitLock, EmitCall, Callback, EmitDone, In, Call
<1>2. /\ c \in ObjectCalls /\ c.sig \in Signals /\ c.sig \in Objects /\ q \in Seq(Connections)
      /\ Todo(t) \in Seq(Connections) /\ cur \in Connections \cup {End}
  BY <1>1, HeadOK, CallFields DEF Objects, TypeOK
<1>3. \A todo \in Seq(Connections) : \A at \in {"loop", "slot"} :
        at = "loop" \/ todo # <<>> => FrameOK([call |-> c, at |-> at, todo |-> todo])
  BY <1>1, <1>2 DEF FrameOK, Frames, ClearOps, LeaveOps, CopyOps
<1>4. /\ Hold(c.sig, t) \in [Objects -> Threads \cup {NoThread}]
      /\ Hold(c.sig, NoThread) \in [Objects -> Threads \cup {NoThread}]
  BY <1>2, HoldType
<1>5. CASE EmitLock(t)
  <2>1. Goto(t, "loop", <<>>) /\ <<>> \in Seq(Connections)
    BY <1>5 DEF EmitLock
  <2>2. Shape' /\ stack' \in [Threads -> Seq(Frames)]
    BY <1>1, <1>3, <2>1, GotoShape
  <2>3. q # <<>> => Head(q) \in Connections
    BY <1>2
  <2>4. m_current_iterator' = [m_current_iterator EXCEPT ![c.sig] = IF q = <<>> THEN End ELSE Head(q)]
    BY <1>5 DEF EmitLock
  <2>5. m_current_iterator' \in [Signals -> Connections \cup {End}]
    BY <1>2, <2>3, <2>4 DEF TypeOK
  <2> QED
    BY <1>4, <1>5, <2>2, <2>5 DEF EmitLock, TypeOK, Lock, programVars
<1>6. CASE EmitCall(t)
  <2>1. /\ cur # End
        /\ m_current_iterator' = [m_current_iterator EXCEPT ![c.sig] = Advance(cur, q)]
        /\ Goto(t, "slot", <<cur>> \o Todo(t))
    BY <1>2, <1>6 DEF EmitCall, TypeOK
  <2>2. cur \in Connections
    BY <1>2, <2>1
  <2> HIDE DEF cur
  <2>3. <<cur>> \o Todo(t) \in Seq(Connections) /\ <<cur>> \o Todo(t) # <<>>
    BY <1>2, <2>2
  <2>4. Shape' /\ stack' \in [Threads -> Seq(Frames)]
    BY <1>1, <1>3, <2>1, <2>3, GotoShape
  <2>5. Advance(cur, q) \in Connections \cup {End}
    BY <1>2, AdvanceIs
  <2>6. m_current_iterator' \in [Signals -> Connections \cup {End}]
    BY <2>1, <2>5 DEF TypeOK
  <2> QED
    BY <1>6, <2>4, <2>6 DEF EmitCall, TypeOK, programVars
<1>7. CASE Callback(t)
  <2>1. Shape' /\ stack' \in [Threads -> Seq(Frames)]
    BY <1>7, CallbackShape
  <2> QED
    BY <1>7, <2>1 DEF Callback, TypeOK, objectVars, programVars
<1>8. CASE EmitDone(t)
  <2>1. Shape' /\ stack' \in [Threads -> Seq(Frames)]
    BY <1>1, <1>8, ReturnShape DEF EmitDone
  <2> QED
    BY <1>4, <1>8, <2>1 DEF EmitDone, TypeOK, Unlock, objectVars, programVars
<1> QED
  BY <1>5, <1>6, <1>7, <1>8

(* What a list with the duplicates for a copied slot is.                   *)
LEMMA DuplicatesAre ==
  ASSUME NEW q \in Seq(Connections), NEW old \in Slots, NEW new \in Slots,
         NEW z \in Duplicates(q, old, new)
  PROVE  /\ z \in Seq(Connections)
         /\ \E d \in Seq(Connections) :
              /\ z = q \o d
              /\ Range(d) = {[slot |-> new, id |-> n.id] : n \in {m \in Range(q) : m.slot = old}}
              /\ IsInjective(q) => IsInjective(d)
<1> DEFINE keep == {i \in DOMAIN q : q[i].slot = old}
<1>1. PICK r \in Selections(q, keep) : z = q \o [k \in DOMAIN r |-> [r[k] EXCEPT !.slot = new]]
  BY DEF Duplicates
<1>2. keep \subseteq DOMAIN q
  OBVIOUS
<1> HIDE DEF keep
<1>3. r \in Seq(Connections) /\ Range(r) = {q[i] : i \in keep} /\ (IsInjective(q) => IsInjective(r))
  BY <1>2, SelectionOf
<1>4. Range(r) = {m \in Range(q) : m.slot = old}
  BY <1>3 DEF keep, Range
<1> DEFINE d == [k \in DOMAIN r |-> [r[k] EXCEPT !.slot = new]]
<1>5. \A k \in DOMAIN r : r[k] \in Connections /\ r[k] \in Range(r) /\ r[k].slot = old
  BY <1>3, <1>4 DEF Range
<1>6. \A n \in Connections : /\ [n EXCEPT !.slot = new] = [slot |-> new, id |-> n.id]
                             /\ [slot |-> new, id |-> n.id] \in Connections
                             /\ n = [slot |-> n.slot, id |-> n.id]
  BY DEF Connections
<1>7. DOMAIN d = DOMAIN r /\ \A k \in DOMAIN r : d[k] = [slot |-> new, id |-> r[k].id] /\ d[k] \in Connections
  BY <1>5, <1>6
<1> HIDE DEF d
<1>8. d \in Seq(Connections)
  <2>1. DOMAIN d = 1..Len(r) /\ Len(r) \in Nat
    BY <1>3, <1>7
  <2>2. d = [k \in DOMAIN d |-> d[k]]
    BY DEF d
  <2> QED
    BY <1>7, <2>1, <2>2
<1>9. Range(d) = {[slot |-> new, id |-> n.id] : n \in Range(r)}
  BY <1>7 DEF Range
<1>10. IsInjective(q) => IsInjective(d)
  <2> SUFFICES ASSUME IsInjective(q), NEW j \in DOMAIN d, NEW k \in DOMAIN d, d[j] = d[k]
               PROVE  j = k
    BY DEF IsInjective
  <2>1. r[j].id = r[k].id
    <3>1. d[j].id = r[j].id /\ d[k].id = r[k].id
      BY <1>7
    <3> QED
      BY <3>1
  <2>2. r[j] = r[k]
    <3>1. \A i \in DOMAIN r : r[i] = [slot |-> old, id |-> r[i].id]
      BY <1>5, <1>6, Zenon
    <3>2. j \in DOMAIN r /\ k \in DOMAIN r
      BY <1>7
    <3>3. r[j] = [slot |-> old, id |-> r[j].id] /\ r[k] = [slot |-> old, id |-> r[k].id]
      BY <3>1, <3>2, Zenon
    <3> QED
      BY <2>1, <3>3, Zenon
  <2> QED
    BY <1>3, <1>7, <2>2 DEF IsInjective
<1>11. z = q \o d
  BY <1>1 DEF d
<1> QED
  BY <1>4, <1>8, <1>9, <1>10, <1>11

(* The copy constructors keep the types.                                   *)
LEMMA CopyTypes ==
  ASSUME TypeOK, Shape, NEW t \in Threads,
         CopyLock(t) \/ CopySignal(t) \/ CopySlot(t) \/ CopyDone(t)
  PROVE  TypeOK' /\ Shape'
<1> DEFINE c == Call(t)
<1>1. stack[t] # <<>> /\ c.op \in CopyOps
  BY DEF CopyLock, CopySignal, CopySlot, CopyDone, In, Call, CopyOps
<1>2. /\ c \in ObjectCalls /\ c.copy \in Objects
      /\ c.op = "copy_signal" => c.sig \in Signals /\ c.copy \in Signals /\ Todo(t) \in Seq(Connections)
      /\ c.op = "copy_slot" => c.slot \in Slots /\ c.copy \in Slots /\ Todo(t) \in Seq(Signals)
  BY <1>1, HeadOK, CallFields DEF Objects, CopyOps
<1>3. /\ c.op = "copy_signal" =>
           \A q \in Seq(Connections) : FrameOK([call |-> c, at |-> "loop", todo |-> q])
      /\ c.op = "copy_slot" =>
           \A q \in Seq(Signals) : FrameOK([call |-> c, at |-> "loop", todo |-> q])
  <2>1. Seq(Signals) \subseteq Seq(Objects \cup Connections)
        /\ Seq(Connections) \subseteq Seq(Objects \cup Connections)
    BY DEF Objects
  <2> QED
    BY <1>1, <1>2, <2>1 DEF FrameOK, Frames, ClearOps, LeaveOps, CopyOps
<1>4. /\ Hold(c.copy, t) \in [Objects -> Threads \cup {NoThread}]
      /\ Hold(c.copy, NoThread) \in [Objects -> Threads \cup {NoThread}]
  BY <1>2, HoldType
<1>5. CASE CopyLock(t)
  <2>1. Shape' /\ stack' \in [Threads -> Seq(Frames)]
    <3>1. CASE c.op = "copy_signal"
      <4>1. Goto(t, "loop", m_connected_slots[c.sig]) /\ m_connected_slots[c.sig] \in Seq(Connections)
        BY <1>2, <1>5, <3>1 DEF CopyLock, TypeOK
      <4> QED
        BY <1>1, <1>3, <3>1, <4>1, GotoShape
    <3>2. CASE c.op = "copy_slot"
      <4>1. PICK q \in Orders(m_senders[c.slot]) : Goto(t, "loop", q)
        BY <1>5, <3>2 DEF CopyLock
      <4>2. m_senders[c.slot] \subseteq Signals
        BY <1>2, <3>2 DEF TypeOK
      <4>3. q \in Seq(Signals)
        BY <4>2, OrdersType, SigslotAssumption
      <4> QED
        BY <1>1, <1>3, <3>2, <4>1, <4>3, GotoShape
    <3> QED
      BY <1>1, <3>1, <3>2 DEF CopyOps
  <2>2. alive' \subseteq Objects
    BY <1>2, <1>5 DEF CopyLock, TypeOK
  <2> QED
    BY <1>4, <1>5, <2>1, <2>2 DEF CopyLock, TypeOK, Lock, programVars
<1>6. CASE CopySignal(t)
  <2>1. c.op = "copy_signal" /\ Todo(t) # <<>>
    BY <1>6 DEF CopySignal, In, Call
  <2>2. Head(Todo(t)) \in Connections /\ Tail(Todo(t)) \in Seq(Connections)
    BY <1>2, <2>1
  <2>3. Goto(t, "loop", Tail(Todo(t)))
    BY <1>6 DEF CopySignal
  <2>4. Shape' /\ stack' \in [Threads -> Seq(Frames)]
    BY <1>1, <1>3, <2>1, <2>2, <2>3, GotoShape
  <2>5. m_connected_slots' \in [Signals -> Seq(Connections)]
    BY <1>2, <1>6, <2>1, <2>2 DEF CopySignal, TypeOK
  <2>6. m_senders' \in [Slots -> SUBSET Signals]
    BY <1>2, <1>6, <2>1 DEF CopySignal, TypeOK
  <2> QED
    BY <1>6, <2>4, <2>5, <2>6 DEF CopySignal, TypeOK, programVars
<1>7. CASE CopySlot(t)
  <2> DEFINE s == Head(Todo(t))
  <2>1. c.op = "copy_slot" /\ Todo(t) # <<>>
    BY <1>7 DEF CopySlot, In, Call
  <2>2. s \in Signals /\ Tail(Todo(t)) \in Seq(Signals) /\ m_connected_slots[s] \in Seq(Connections)
    <3>1. s \in Signals /\ Tail(Todo(t)) \in Seq(Signals)
      BY <1>2, <2>1
    <3> QED
      BY <3>1 DEF TypeOK
  <2>3. Goto(t, "loop", Tail(Todo(t)))
    BY <1>7 DEF CopySlot
  <2>4. Shape' /\ stack' \in [Threads -> Seq(Frames)]
    BY <1>1, <1>3, <2>1, <2>2, <2>3, GotoShape
  <2>5. PICK z \in Duplicates(m_connected_slots[s], c.slot, c.copy) :
          m_connected_slots' = [m_connected_slots EXCEPT ![s] = z]
    BY <1>7 DEF CopySlot
  <2>6. z \in Seq(Connections)
    BY <1>2, <2>1, <2>2, DuplicatesAre
  <2>7. m_connected_slots' \in [Signals -> Seq(Connections)]
    BY <2>5, <2>6 DEF TypeOK
  <2>8. m_senders' \in [Slots -> SUBSET Signals]
    BY <1>7, <2>2 DEF CopySlot, TypeOK
  <2> QED
    BY <1>7, <2>4, <2>7, <2>8 DEF CopySlot, TypeOK, programVars
<1>8. CASE CopyDone(t)
  <2>1. Shape' /\ stack' \in [Threads -> Seq(Frames)]
    BY <1>1, <1>8, ReturnShape DEF CopyDone
  <2> QED
    BY <1>4, <1>8, <2>1 DEF CopyDone, TypeOK, Unlock, objectVars, programVars
<1> QED
  BY <1>5, <1>6, <1>7, <1>8

(* Every step keeps the types and the shape of the stacks.                 *)
LEMMA TypesStep ==
  ASSUME TypeOK, Shape, [Next]_vars
  PROVE  TypeOK' /\ Shape'
<1>1. CASE UNCHANGED vars
  BY <1>1 DEF vars, objectVars, programVars, TypeOK, Shape, FrameOK, Waiting, Rest
<1>2. CASE Next
  <2>1. PICK t \in Threads : Step(t)
    BY <1>2 DEF Next
  <2> QED
    BY <2>1, TakeShape, ConnectTypes, ClearTypes, LeaveTypes, EmitTypes, CopyTypes DEF Step
<1> QED
  BY <1>1, <1>2

(* A program begins with empty stacks.                                     *)
LEMMA InitTypes ==
  ASSUME Init
  PROVE  TypeOK /\ Shape /\ \A t \in Threads : stack[t] = <<>>
<1>1. PICK p \in Programs : policy = p.policy /\ script = p.script /\ reaction = p.reaction
  BY DEF Init
<1>2. policy \in Policies /\ script \in [Threads -> Seq(Calls)] /\ reaction \in [Slots -> Seq(ObjectCalls)]
  BY <1>1, SigslotAssumption
<1>3. TypeOK
  <2>1. /\ m_connected_slots \in [Signals -> Seq(Connections)]
        /\ m_current_iterator \in [Signals -> Connections \cup {End}]
        /\ m_senders \in [Slots -> SUBSET Signals]
    BY DEF Init
  <2>2. owner \in [Objects -> Threads \cup {NoThread}] /\ stack \in [Threads -> Seq(Frames)]
    BY DEF Init
  <2>3. alive \subseteq Objects /\ event \in BOOLEAN
    BY DEF Init
  <2> QED
    BY <1>2, <2>1, <2>2, <2>3 DEF TypeOK
<1>4. \A t \in Threads : stack[t] = <<>> /\ Range(stack[t]) = {} /\ Rest(t) = {}
  BY DEF Init, Range, Rest
<1> QED
  BY <1>3, <1>4 DEF Shape

(* Signals, slots and the calls under way keep their types, whatever the   *)
(* program does, in bounds or not.                                         *)
THEOREM SlotTypes == SafetySpec => []TypeOK
<1>1. Init => TypeOK /\ Shape
  BY InitTypes
<1>2. TypeOK /\ Shape /\ [Next]_vars => (TypeOK /\ Shape)'
  BY TypesStep
<1> QED
  BY <1>1, <1>2, PTL DEF SafetySpec

-----------------------------------------------------------------------------
(* The mutexes.                                                            *)

(* The places of the calls after a step of the innermost one.              *)
LEMMA GotoIndex ==
  ASSUME TypeOK, NEW t \in Threads, stack[t] # <<>>, NEW at, NEW todo, Goto(t, at, todo)
  PROVE  /\ stack[t] \in Seq(Frames) /\ 1 \in DOMAIN stack[t] /\ stack[t][1] = Head(stack[t])
         /\ DOMAIN stack'[t] = DOMAIN stack[t]
         /\ stack'[t][1] = [call |-> Call(t), at |-> at, todo |-> todo]
         /\ \A i \in DOMAIN stack[t] : i # 1 => stack'[t][i] = stack[t][i]
<1> DEFINE g == [call |-> Call(t), at |-> at, todo |-> todo]
<1>1. stack \in [Threads -> Seq(Frames)] /\ stack[t] \in Seq(Frames)
  BY DEF TypeOK
<1>2. stack'[t] = <<g>> \o Tail(stack[t])
  BY <1>1 DEF Goto
<1> HIDE DEF g
<1> QED
  BY <1>1, <1>2 DEF g

(* The same of a call that returns.                                        *)
LEMMA ReturnIndex ==
  ASSUME TypeOK, NEW t \in Threads, stack[t] # <<>>, Return(t)
  PROVE  \A i \in DOMAIN stack'[t] :
           i \in Nat /\ i + 1 \in DOMAIN stack[t] /\ stack'[t][i] = stack[t][i + 1]
<1>1. stack \in [Threads -> Seq(Frames)] /\ stack[t] \in Seq(Frames)
  BY DEF TypeOK
<1>2. stack'[t] = Tail(stack[t])
  BY <1>1 DEF Return
<1> QED
  BY <1>1, <1>2

(* The same of a callback: the calls it makes have not begun.              *)
LEMMA CallbackIndex ==
  ASSUME TypeOK, Shape, NEW t \in Threads, Callback(t)
  PROVE  \E n \in Nat : \A i \in DOMAIN stack'[t] :
           /\ i \in Nat
           /\ i <= n => ~Begun(stack'[t][i])
           /\ i > n => /\ i - n \in DOMAIN stack[t]
                       /\ stack'[t][i].call = stack[t][i - n].call
                       /\ Begun(stack'[t][i]) => Begun(stack[t][i - n])
<1> DEFINE g == [call |-> Call(t), at |-> "loop", todo |-> Todo(t)]
           r == Tail(stack[t])
<1>1. stack[t] # <<>> /\ Head(stack[t]).at = "slot" /\ stack[t] \in Seq(Frames)
  BY DEF Callback, In, TypeOK
<1>2. g \in Frames
  BY CallbackStep
<1>3. PICK p \in Seq(Frames) :
        /\ stack'[t] = p \o (<<g>> \o r)
        /\ Range(p) \subseteq {Frame(c) : c \in ObjectCalls}
  BY CallbackStep
<1>4. g.call = Head(stack[t]).call /\ Begun(Head(stack[t]))
  BY <1>1 DEF Call, Begun
<1>5. \A i \in DOMAIN p : ~Begun(p[i])
  <2>1. \A i \in DOMAIN p : p[i] \in Range(p)
    BY DEF Range
  <2> QED
    BY <1>3, <2>1 DEF Frame, Begun
<1>6. r \in Seq(Frames) /\ Len(stack[t]) = Len(r) + 1 /\ Head(stack[t]) = stack[t][1]
      /\ \A k \in 1..Len(r) : r[k] = stack[t][k + 1]
  BY <1>1
<1> DEFINE z == <<g>> \o r
<1> HIDE DEF g, r
<1>7. z \in Seq(Frames) /\ Len(z) = Len(stack[t]) /\ z[1] = g
      /\ \A k \in 2..Len(z) : z[k] = stack[t][k]
  <2>1. z \in Seq(Frames) /\ Len(z) = Len(r) + 1 /\ z[1] = g /\ \A k \in 2..Len(z) : z[k] = r[k - 1]
    BY <1>2, <1>6
  <2> HIDE DEF z
  <2> QED
    BY <1>6, <2>1
<1> HIDE DEF z
<1>8. /\ DOMAIN stack'[t] = 1..(Len(p) + Len(z)) /\ Len(p) \in Nat
      /\ \A i \in DOMAIN stack'[t] : /\ i <= Len(p) => stack'[t][i] = p[i] /\ i \in DOMAIN p
                                     /\ i > Len(p) => stack'[t][i] = z[i - Len(p)]
  <2>1. stack'[t] = p \o z
    BY <1>3 DEF z
  <2>2. /\ DOMAIN (p \o z) = 1..(Len(p) + Len(z)) /\ Len(p) \in Nat /\ DOMAIN p = 1..Len(p)
        /\ \A i \in 1..(Len(p) + Len(z)) :
             (p \o z)[i] = IF i <= Len(p) THEN p[i] ELSE z[i - Len(p)]
    BY <1>7
  <2> QED
    BY <2>1, <2>2
<1>9. ASSUME NEW i \in DOMAIN stack'[t], i > Len(p)
      PROVE  /\ i - Len(p) \in DOMAIN stack[t]
             /\ stack'[t][i].call = stack[t][i - Len(p)].call
             /\ Begun(stack'[t][i]) => Begun(stack[t][i - Len(p)])
  <2>1. i - Len(p) \in 1..Len(stack[t]) /\ DOMAIN stack[t] = 1..Len(stack[t])
        /\ stack'[t][i] = z[i - Len(p)]
    BY <1>1, <1>7, <1>8, <1>9
  <2>2. CASE i - Len(p) = 1
    BY <1>4, <1>6, <1>7, <2>1, <2>2
  <2>3. CASE i - Len(p) # 1
    BY <1>7, <2>1, <2>3
  <2> QED
    BY <2>1, <2>2, <2>3
<1>10. ASSUME NEW i \in DOMAIN stack'[t], i <= Len(p)
       PROVE  ~Begun(stack'[t][i])
  BY <1>5, <1>8, <1>10
<1>11. \A i \in DOMAIN stack'[t] : i \in Nat
  BY <1>8
<1> DEFINE n == Len(p)
<1>12. n \in Nat
  BY <1>8
<1>13. \A i \in DOMAIN stack'[t] :
        /\ i \in Nat
        /\ i <= n => ~Begun(stack'[t][i])
        /\ i > n => /\ i - n \in DOMAIN stack[t]
                    /\ stack'[t][i].call = stack[t][i - n].call
                    /\ Begun(stack'[t][i]) => Begun(stack[t][i - n])
  BY <1>9, <1>10, <1>11
<1> HIDE DEF n
<1> QED
  BY <1>12, <1>13

(* The calls that have begun after a step of the innermost one.            *)
LEMMA GotoActs ==
  ASSUME TypeOK, TypeOK', NEW t \in Threads, stack[t] # <<>>,
         NEW at \in {"loop", "slot"}, NEW todo, Goto(t, at, todo)
  PROVE  LET g == [call |-> Call(t), at |-> at, todo |-> todo]
         IN  /\ todo \in Seq(Objects \cup Connections)
             /\ \A u \in Threads \ {t} : stack'[u] = stack[u]
             /\ Active(t)' = {g} \cup Below(t)
             /\ Acts' = {g} \cup Others(t)
<1> DEFINE g == [call |-> Call(t), at |-> at, todo |-> todo]
<1>1. 1 \in DOMAIN stack'[t] /\ stack'[t][1] = g
  BY GotoIndex
<1>2. stack'[t] \in Seq(Frames)
  BY DEF TypeOK
<1> HIDE DEF g
<1>3. g \in Frames
  BY <1>1, <1>2
<1>4. todo \in Seq(Objects \cup Connections)
  BY <1>3 DEF Frames, g
<1>5. (\A u \in Threads \ {t} : stack'[u] = stack[u]) /\ Active(t)' = {g} \cup Below(t)
  BY <1>4, GotoStep DEF g
<1>6. Acts' = {g} \cup Others(t)
  BY <1>5, ActsAfter
<1> QED
  BY <1>4, <1>5, <1>6 DEF g

(* A step of t changes the calls of t, and mutexes nobody else holds.      *)
LEMMA LockedAfter ==
  ASSUME Shape, Locked, NEW t \in Threads, policy' = policy,
         \A u \in Threads \ {t} : stack'[u] = stack[u],
         Nested(stack[t])',
         Multi => \A f \in Active(t)' : owner'[Guarded(f.call)] = t,
         Multi => \A u \in Threads \ {t} : \A o \in Objects : owner[o] = u => owner'[o] = u
  PROVE  Locked'
<1> SUFFICES ASSUME NEW u \in Threads
             PROVE  /\ Multi => \A f \in Active(u)' : owner'[Guarded(f.call)] = u
                    /\ Nested(stack[u])'
  BY DEF Locked, Multi
<1>1. CASE u = t
  BY <1>1
<1>2. CASE u # t
  <2>1. stack'[u] = stack[u] /\ Active(u)' = Active(u)
    BY <1>2 DEF Active
  <2>2. Nested(stack[u])'
    BY <2>1 DEF Locked, Nested, Exclusive, Multi
  <2>3. Multi => \A f \in Active(u)' : owner'[Guarded(f.call)] = u
    <3>1. \A f \in Active(u) : Guarded(f.call) \in Objects
      BY GuardedFields DEF Shape, FrameOK, Frames, Active
    <3> QED
      BY <1>2, <2>1, <3>1 DEF Locked
  <2> QED
    BY <2>2, <2>3
<1> QED
  BY <1>1, <1>2

(* A call begins.                                                          *)
LEMMA LockedEnter ==
  ASSUME TypeOK, TypeOK', Shape, Locked, NEW t \in Threads, stack[t] # <<>>, policy' = policy,
         NEW at \in {"loop", "slot"}, NEW todo, Goto(t, at, todo),
         Free(Guarded(Call(t))), owner' = Hold(Guarded(Call(t)), t),
         \A h \in Below(t) : ~Multi /\ Exclusive(Call(t)) => Guarded(h.call) # Guarded(Call(t))
  PROVE  Locked'
<1> DEFINE o == Guarded(Call(t))
           g == [call |-> Call(t), at |-> at, todo |-> todo]
<1>1. o \in Objects /\ owner \in [Objects -> Threads \cup {NoThread}]
  BY HeadOK DEF TypeOK
<1>2. Multi => owner[o] = NoThread /\ owner' = [owner EXCEPT ![o] = t]
  BY DEF Free, Hold, Multi
<1>3. /\ \A u \in Threads \ {t} : stack'[u] = stack[u]
      /\ Active(t)' = {g} \cup Below(t)
  BY GotoActs
<1>4. \A h \in Below(t) : Multi => owner[Guarded(h.call)] = t
  BY StackParts DEF Locked
<1>5. \A h \in Below(t) : Exclusive(Call(t)) => Guarded(h.call) # o
  BY <1>2, <1>4, SigslotAssumption
<1>6. Multi => owner'[o] = t /\ \A x \in Objects : x # o => owner'[x] = owner[x]
  BY <1>1, <1>2
<1>7. g.call = Call(t)
  OBVIOUS
<1> HIDE DEF o, g
<1>8. Multi => \A f \in Active(t)' : owner'[Guarded(f.call)] = t
  <2>1. \A h \in Below(t) : Guarded(h.call) \in Objects
    BY StackParts, GuardedFields DEF Shape, FrameOK, Frames, Below
  <2> QED
    BY <1>3, <1>4, <1>6, <1>7, <2>1 DEF o
<1>9. Multi => \A u \in Threads \ {t} : \A x \in Objects : owner[x] = u => owner'[x] = u
  BY <1>2, <1>6, SigslotAssumption
<1>10. Nested(stack[t])'
  <2>1. /\ stack[t] \in Seq(Frames) /\ 1 \in DOMAIN stack[t]
        /\ DOMAIN stack'[t] = DOMAIN stack[t]
        /\ stack'[t][1] = g
        /\ \A i \in DOMAIN stack[t] : i # 1 => stack'[t][i] = stack[t][i]
    BY GotoIndex DEF g
  <2>2. ASSUME NEW j \in DOMAIN stack[t], j # 1, Begun(stack[t][j])
        PROVE  stack[t][j] \in Below(t)
    <3>1. j - 1 \in DOMAIN Tail(stack[t]) /\ Tail(stack[t])[j - 1] = stack[t][j]
      BY <2>1, <2>2
    <3> QED
      BY <2>2, <3>1 DEF Below, Rest, Range
  <2> SUFFICES ASSUME NEW i \in DOMAIN stack'[t], NEW j \in DOMAIN stack'[t], i < j,
                      Begun(stack'[t][i]), Begun(stack'[t][j]), Exclusive(stack'[t][i].call)
               PROVE  Guarded(stack'[t][i].call) # Guarded(stack'[t][j].call)
    BY DEF Nested, Exclusive, Multi
  <2>3. j # 1 /\ i \in DOMAIN stack[t] /\ j \in DOMAIN stack[t] /\ stack'[t][j] = stack[t][j]
    BY <2>1
  <2>4. CASE i = 1
    BY <1>5, <1>7, <2>1, <2>2, <2>3, <2>4 DEF o
  <2>5. CASE i # 1
    BY <2>1, <2>3, <2>5 DEF Locked, Nested
  <2> QED
    BY <2>4, <2>5
<1> QED
  BY <1>3, <1>8, <1>9, <1>10, LockedAfter

(* A call that has begun goes on.                                          *)
LEMMA LockedMove ==
  ASSUME TypeOK, TypeOK', Shape, Locked, NEW t \in Threads, stack[t] # <<>>, policy' = policy,
         NEW at \in {"loop", "slot"}, NEW todo, Goto(t, at, todo),
         Begun(Head(stack[t])), owner' = owner
  PROVE  Locked'
<1> DEFINE g == [call |-> Call(t), at |-> at, todo |-> todo]
<1>1. /\ \A u \in Threads \ {t} : stack'[u] = stack[u]
      /\ Active(t)' = {g} \cup Below(t)
  BY GotoActs
<1>2. Head(stack[t]) \in Active(t) /\ Below(t) \subseteq Active(t)
  BY StackParts
<1>3. g.call = Head(stack[t]).call
  BY DEF Call
<1> HIDE DEF g
<1>4. Multi => \A f \in Active(t)' : owner'[Guarded(f.call)] = t
  BY <1>1, <1>2, <1>3 DEF Locked
<1>5. Nested(stack[t])'
  <2>1. /\ stack[t] \in Seq(Frames) /\ 1 \in DOMAIN stack[t] /\ stack[t][1] = Head(stack[t])
        /\ DOMAIN stack'[t] = DOMAIN stack[t]
        /\ stack'[t][1] = g
        /\ \A i \in DOMAIN stack[t] : i # 1 => stack'[t][i] = stack[t][i]
    BY GotoIndex DEF g
  <2>2. \A i \in DOMAIN stack[t] : /\ stack'[t][i].call = stack[t][i].call
                                   /\ Begun(stack'[t][i]) => Begun(stack[t][i])
    BY <1>3, <2>1
  <2> QED
    BY <2>1, <2>2 DEF Locked, Nested, Exclusive, Multi
<1> QED
  BY <1>1, <1>4, <1>5, LockedAfter

(* A call that has begun returns.                                          *)
LEMMA LockedReturn ==
  ASSUME TypeOK, Shape, Locked, NEW t \in Threads, stack[t] # <<>>, policy' = policy,
         Return(t), Begun(Head(stack[t])), owner' = Hold(Guarded(Call(t)), NoThread)
  PROVE  Locked'
<1> DEFINE o == Guarded(Call(t))
<1>1. o \in Objects /\ owner \in [Objects -> Threads \cup {NoThread}]
  BY HeadOK DEF TypeOK
<1>2. Multi => owner' = [owner EXCEPT ![o] = NoThread]
  BY DEF Hold, Multi
<1>3. Multi => \A x \in Objects : x # o => owner'[x] = owner[x]
  BY <1>1, <1>2
<1>4. /\ \A u \in Threads \ {t} : stack'[u] = stack[u]
      /\ Active(t)' = Below(t)
  BY ReturnStep
<1>5. Head(stack[t]) \in Active(t) /\ Below(t) \subseteq Active(t)
  BY StackParts
<1>6. Multi => owner[o] = t
  BY <1>5 DEF Locked, Call
<1>7. ASSUME Multi, NEW h \in Below(t)
      PROVE  Guarded(h.call) # o
  <2>1. h \in Rest(t) /\ Begun(h)
    BY DEF Below
  <2>2. PICK j \in DOMAIN stack[t] : 1 < j /\ stack[t][j] = h
    BY <2>1, RestIndex
  <2>3. 1 \in DOMAIN stack[t] /\ stack[t][1] = Head(stack[t])
    BY <2>1, RestIndex
  <2> QED
    BY <1>7, <2>1, <2>2, <2>3 DEF Locked, Nested, Exclusive, Call
<1> HIDE DEF o
<1>8. Multi => \A f \in Active(t)' : owner'[Guarded(f.call)] = t
  <2>1. \A h \in Below(t) : Guarded(h.call) \in Objects
    BY StackParts, GuardedFields DEF Shape, FrameOK, Frames, Below
  <2> QED
    BY <1>3, <1>4, <1>5, <1>7, <2>1 DEF Locked
<1>9. Multi => \A u \in Threads \ {t} : \A x \in Objects : owner[x] = u => owner'[x] = u
  BY <1>3, <1>6
<1>10. Nested(stack[t])'
  <2>1. \A i \in DOMAIN stack'[t] :
           i \in Nat /\ i + 1 \in DOMAIN stack[t] /\ stack'[t][i] = stack[t][i + 1]
    BY ReturnIndex
  <2> QED
    BY <2>1 DEF Locked, Nested, Exclusive, Multi
<1> QED
  BY <1>4, <1>8, <1>9, <1>10, LockedAfter

(* A call returns that found nothing to do.                                *)
LEMMA LockedSkip ==
  ASSUME TypeOK, Shape, Locked, NEW t \in Threads, stack[t] # <<>>, policy' = policy,
         Return(t), owner' = owner
  PROVE  Locked'
<1>1. /\ \A u \in Threads \ {t} : stack'[u] = stack[u]
      /\ Active(t)' = Below(t)
  BY ReturnStep
<1>2. Below(t) \subseteq Active(t)
  BY StackParts
<1>3. Multi => \A f \in Active(t)' : owner'[Guarded(f.call)] = t
  BY <1>1, <1>2 DEF Locked
<1>4. Nested(stack[t])'
  <2>1. \A i \in DOMAIN stack'[t] :
           i \in Nat /\ i + 1 \in DOMAIN stack[t] /\ stack'[t][i] = stack[t][i + 1]
    BY ReturnIndex
  <2> QED
    BY <2>1 DEF Locked, Nested, Exclusive, Multi
<1> QED
  BY <1>1, <1>3, <1>4, LockedAfter

(* A callback makes its calls.                                             *)
LEMMA LockedCallback ==
  ASSUME TypeOK, Shape, Locked, NEW t \in Threads, Callback(t)
  PROVE  Locked'
<1> DEFINE g == [call |-> Call(t), at |-> "loop", todo |-> Todo(t)]
<1>1. /\ \A u \in Threads \ {t} : stack'[u] = stack[u]
      /\ Active(t)' = {g} \cup Below(t)
  BY CallbackStep
<1>2. /\ stack[t] # <<>> /\ Begun(Head(stack[t])) /\ policy' = policy /\ owner' = owner
  BY DEF Callback, In, Begun, programVars
<1>3. Head(stack[t]) \in Active(t) /\ Below(t) \subseteq Active(t)
  BY <1>2, StackParts
<1>4. g.call = Head(stack[t]).call
  BY DEF Call
<1> HIDE DEF g
<1>5. Multi => \A f \in Active(t)' : owner'[Guarded(f.call)] = t
  BY <1>1, <1>2, <1>3, <1>4 DEF Locked
<1>6. Nested(stack[t])'
  <2>1. PICK n \in Nat : \A i \in DOMAIN stack'[t] :
           /\ i \in Nat
           /\ i <= n => ~Begun(stack'[t][i])
           /\ i > n => /\ i - n \in DOMAIN stack[t]
                       /\ stack'[t][i].call = stack[t][i - n].call
                       /\ Begun(stack'[t][i]) => Begun(stack[t][i - n])
    BY CallbackIndex
  <2> SUFFICES ASSUME NEW i \in DOMAIN stack'[t], NEW j \in DOMAIN stack'[t], i < j,
                      Begun(stack'[t][i]), Begun(stack'[t][j]), Exclusive(stack'[t][i].call)
               PROVE  Guarded(stack'[t][i].call) # Guarded(stack'[t][j].call)
    BY <1>2 DEF Nested, Exclusive, Multi
  <2>2. i > n /\ j > n /\ i - n < j - n
    BY <2>1
  <2> QED
    BY <2>1, <2>2 DEF Locked, Nested
<1> QED
  BY <1>1, <1>2, <1>5, <1>6, LockedAfter

(* A thread takes a call.                                                  *)
LEMMA LockedTake ==
  ASSUME TypeOK, Shape, Locked, NEW t \in Threads, TakeCall(t)
  PROVE  Locked'
<1>1. /\ \A u \in Threads \ {t} : stack'[u] = stack[u]
      /\ stack'[t] = stack[t] \/ \E c \in ObjectCalls : stack'[t] = <<Frame(c)>>
      /\ Active(t)' = {}
  BY TakeStep
<1>2. policy' = policy /\ owner' = owner
  BY DEF TakeCall
<1>3. Nested(stack[t])'
  <2>1. \A c : DOMAIN <<Frame(c)>> = {1}
    OBVIOUS
  <2> QED
    BY <1>1, <1>2, <2>1 DEF Locked, Nested, Exclusive, Multi
<1> QED
  BY <1>1, <1>2, <1>3, LockedAfter

(* A call that has not begun guards another object than those it was made  *)
(* from.                                                                   *)
LEMMA EnterApart ==
  ASSUME SlotInv, Rules, NEW t \in Threads, stack[t] # <<>>, ~Begun(Head(stack[t])),
         NEW h \in Below(t), ~Multi, Exclusive(Call(t))
  PROVE  Guarded(h.call) # Guarded(Call(t))
<1>1. TypeOK /\ Shape
  BY DEF SlotInv
<1>2. h \in Others(t)
  BY DEF Others
<1>3. Enclosing(t, h) /\ FrameLive(h) /\ h.call \in ObjectCalls
  BY <1>2, OtherCalls DEF Beside
<1>4. Guarded(h.call) = h.call.sig /\ h.call.sig \in alive
  BY <1>3, GuardedFields DEF Enclosing, FrameLive, EmitLive
<1>5. Call(t) \in ObjectCalls
  BY <1>1, HeadOK
<1>6. CASE Call(t).op \in {"connect", "emit", "~signal"}
  <2>1. Guarded(Call(t)) = Call(t).sig
    BY <1>5, <1>6, GuardedFields DEF ClearOps
  <2> QED
    BY <1>3, <1>4, <1>6, <2>1 DEF Enclosing
<1>7. CASE Call(t).op = "copy_signal"
  <2>1. Guarded(Call(t)) = Call(t).copy
    BY <1>5, <1>7, GuardedFields DEF CopyOps
  <2>2. MayCall(Call(t))
    BY DEF Rules, LiveCalls, Begun
  <2>3. Call(t).copy \notin alive
    BY <1>5, <1>7, <2>2, NamedFields
  <2> QED
    BY <1>4, <2>1, <2>3
<1> QED
  BY <1>6, <1>7 DEF Exclusive

(* Every step keeps the discipline of the mutexes.                         *)
LEMMA LockedStep ==
  ASSUME SlotInv, Rules, TypeOK', NEW t \in Threads, Step(t)
  PROVE  Locked'
<1> DEFINE c == Call(t)
<1>1. TypeOK /\ Shape /\ Locked
  BY DEF SlotInv
<1>2. policy' = policy
  BY DEF Step, TakeCall, ConnectSignal, ConnectSlot, DisconnectSignal, DisconnectSlot,
         ClearLock, ClearPop, ClearSlot, ClearDone, LeaveLock, LeaveSwap, LeaveSignal, LeaveDone,
         CopyLock, CopySignal, CopySlot, CopyDone, EmitLock, EmitCall, Callback, EmitDone, programVars
<1>3. CASE TakeCall(t)
  BY <1>1, <1>3, LockedTake
<1>4. CASE Callback(t)
  BY <1>1, <1>4, LockedCallback
<1>5. ASSUME stack[t] # <<>>, ~Begun(Head(stack[t])),
             NEW at \in {"loop", "slot"}, NEW todo, Goto(t, at, todo),
             Free(Guarded(c)), owner' = Hold(Guarded(c), t)
      PROVE  Locked'
  <2>1. \A h \in Below(t) : ~Multi /\ Exclusive(c) => Guarded(h.call) # Guarded(c)
    BY <1>5, EnterApart
  <2> QED
    BY <1>1, <1>2, <1>5, <2>1, LockedEnter
<1>6. ASSUME stack[t] # <<>>, Begun(Head(stack[t])),
             NEW at \in {"loop", "slot"}, NEW todo, Goto(t, at, todo), owner' = owner
      PROVE  Locked'
  BY <1>1, <1>2, <1>6, LockedMove
<1>7. ASSUME stack[t] # <<>>, Begun(Head(stack[t])), Return(t), owner' = Hold(Guarded(c), NoThread)
      PROVE  Locked'
  BY <1>1, <1>2, <1>7, LockedReturn
<1>8. ASSUME stack[t] # <<>>
      PROVE  /\ c.op \in LeaveOps => Guarded(c) = c.slot
             /\ c.op \in CopyOps => Guarded(c) = c.copy
             /\ c.op \in {"connect", "disconnect", "emit"} \cup ClearOps => Guarded(c) = c.sig
  BY <1>1, <1>8, HeadOK, GuardedFields
<1> HIDE DEF c
<1>9. CASE ConnectSignal(t)
  <2>1. /\ stack[t] # <<>> /\ ~Begun(Head(stack[t])) /\ c.op = "connect"
        /\ Goto(t, "slot", <<c.slot>>) /\ Free(c.sig) /\ owner' = Hold(c.sig, t)
    BY <1>9 DEF ConnectSignal, In, Call, Begun, Lock, c
  <2> QED
    BY <1>5, <1>8, <2>1
<1>10. CASE ConnectSlot(t) \/ DisconnectSlot(t)
  <2>1. /\ stack[t] # <<>> /\ Begun(Head(stack[t])) /\ c.op \in {"connect", "disconnect"}
        /\ Return(t) /\ owner' = Hold(c.sig, NoThread)
    BY <1>10 DEF ConnectSlot, DisconnectSlot, In, Call, Begun, Unlock, c
  <2> QED
    BY <1>7, <1>8, <2>1
<1>11. CASE DisconnectSignal(t)
  <2>1. /\ stack[t] # <<>> /\ ~Begun(Head(stack[t])) /\ c.op = "disconnect" /\ Free(c.sig)
        /\ \/ Return(t) /\ owner' = owner
           \/ Goto(t, "slot", <<c.slot>>) /\ owner' = Hold(c.sig, t)
    BY <1>11 DEF DisconnectSignal, In, Call, Begun, c
  <2>2. CASE Return(t) /\ owner' = owner
    BY <1>1, <1>2, <2>1, <2>2, LockedSkip
  <2>3. CASE Goto(t, "slot", <<c.slot>>) /\ owner' = Hold(c.sig, t)
    BY <1>5, <1>8, <2>1, <2>3
  <2> QED
    BY <2>1, <2>2, <2>3
<1>12. CASE ClearLock(t) \/ EmitLock(t)
  <2>1. /\ stack[t] # <<>> /\ ~Begun(Head(stack[t])) /\ c.op \in {"emit"} \cup ClearOps
        /\ Goto(t, "loop", <<>>) /\ Free(c.sig) /\ owner' = Hold(c.sig, t)
    BY <1>12 DEF ClearLock, EmitLock, In, Call, Begun, Lock, c
  <2> QED
    BY <1>5, <1>8, <2>1
<1>13. CASE LeaveLock(t)
  <2>1. /\ stack[t] # <<>> /\ ~Begun(Head(stack[t])) /\ c.op \in LeaveOps
        /\ Goto(t, "loop", <<>>) /\ Free(c.slot) /\ owner' = Hold(c.slot, t)
    BY <1>13 DEF LeaveLock, In, Call, Begun, Lock, c
  <2> QED
    BY <1>5, <1>8, <2>1
<1>14. CASE CopyLock(t)
  <2>1. /\ stack[t] # <<>> /\ ~Begun(Head(stack[t])) /\ c.op \in CopyOps
        /\ \E todo : Goto(t, "loop", todo)
        /\ Free(c.copy) /\ owner' = Hold(c.copy, t)
    BY <1>14 DEF CopyLock, In, Call, Begun, Lock, c
  <2> QED
    BY <1>5, <1>8, <2>1
<1>15. CASE ClearPop(t) \/ ClearSlot(t) \/ LeaveSwap(t) \/ LeaveSignal(t) \/ EmitCall(t)
            \/ CopySignal(t) \/ CopySlot(t)
  <2>1. /\ stack[t] # <<>> /\ Begun(Head(stack[t])) /\ owner' = owner
        /\ \E at \in {"loop", "slot"} : \E todo : Goto(t, at, todo)
    BY <1>15 DEF ClearPop, ClearSlot, LeaveSwap, LeaveSignal, EmitCall, CopySignal, CopySlot, In, Begun
  <2> QED
    BY <1>6, <2>1
<1>16. CASE ClearDone(t) \/ EmitDone(t)
  <2>1. /\ stack[t] # <<>> /\ Begun(Head(stack[t])) /\ c.op \in {"emit"} \cup ClearOps
        /\ Return(t) /\ owner' = Hold(c.sig, NoThread)
    BY <1>16 DEF ClearDone, EmitDone, In, Call, Begun, Unlock, c
  <2> QED
    BY <1>7, <1>8, <2>1
<1>17. CASE LeaveDone(t)
  <2>1. /\ stack[t] # <<>> /\ Begun(Head(stack[t])) /\ c.op \in LeaveOps
        /\ Return(t) /\ owner' = Hold(c.slot, NoThread)
    BY <1>17 DEF LeaveDone, In, Call, Begun, Unlock, c
  <2> QED
    BY <1>7, <1>8, <2>1
<1>18. CASE CopyDone(t)
  <2>1. /\ stack[t] # <<>> /\ Begun(Head(stack[t])) /\ c.op \in CopyOps
        /\ Return(t) /\ owner' = Hold(c.copy, NoThread)
    BY <1>18 DEF CopyDone, In, Call, Begun, Unlock, c
  <2> QED
    BY <1>7, <1>8, <2>1
<1> QED
  BY <1>3, <1>4, <1>9, <1>10, <1>11, <1>12, <1>13, <1>14, <1>15, <1>16, <1>17, <1>18 DEF Step

-----------------------------------------------------------------------------
(* What the other calls rely on.                                           *)

(* An emission is in its turn unless a callback of its own, without mutex, *)
(* is clearing the signal.                                                 *)
LEMMA EmissionInTurn ==
  ASSUME SlotInv, Rules, NEW u \in Threads, NEW h \in Active(u), h.call.op = "emit",
         Multi \/ h = Head(stack[u])
  PROVE  /\ CalledOnce(h.todo)
         /\ InTurn(m_connected_slots[h.call.sig], m_current_iterator[h.call.sig], h.todo)
<1>1. TypeOK /\ Shape /\ Locked
  BY DEF SlotInv
<1>2. h \in Range(stack[u]) /\ Begun(h) /\ h \in Acts
  BY DEF Active, Acts
<1>3. stack[u] # <<>>
  BY <1>2 DEF Range
<1>4. h.call \in ObjectCalls
  BY <1>1, <1>2 DEF Shape, FrameOK, Frames
<1>5. Guarded(h.call) = h.call.sig
  BY <1>4, GuardedFields
<1>6. ASSUME NEW k \in Acts, k.call.op \in ClearOps, k.call.sig = h.call.sig
      PROVE  FALSE
  <2>1. PICK v \in Threads : k \in Active(v)
    BY DEF Acts
  <2>2. k \in Range(stack[v]) /\ Begun(k)
    BY <2>1 DEF Active
  <2>3. k.call \in ObjectCalls
    BY <1>1, <2>2 DEF Shape, FrameOK, Frames
  <2>4. Guarded(k.call) = h.call.sig
    BY <1>6, <2>3, GuardedFields
  <2>5. stack[v] # <<>>
    BY <2>2 DEF Range
  <2>6. Multi => owner[h.call.sig] = u /\ owner[h.call.sig] = v
    BY <1>1, <1>5, <2>1, <2>4 DEF Locked
  <2>7. u = v
    BY <1>3, <2>5, <2>6 DEF Rules, OneThread, Multi
  <2>8. k.call.op # "emit"
    BY <1>6 DEF ClearOps
  <2>9. k \notin Rest(u)
    BY <1>1, <2>2, <2>7, <2>8 DEF Shape, Waiting, Begun
  <2>10. k = Head(stack[u])
    BY <1>1, <1>3, <2>2, <2>7, <2>9, StackParts
  <2>11. h \in Rest(u) /\ Multi
    BY <1>1, <1>2, <1>3, <2>8, <2>10, StackParts
  <2>12. PICK j \in DOMAIN stack[u] : 1 < j /\ stack[u][j] = h
    BY <1>1, <1>3, <2>11, RestIndex
  <2>13. 1 \in DOMAIN stack[u] /\ stack[u][1] = k
    BY <1>1, <1>3, <2>10, <2>11, RestIndex
  <2> QED
    BY <1>1, <1>2, <1>5, <2>2, <2>4, <2>11, <2>12, <2>13 DEF Locked, Nested, Exclusive
<1>7. Emits(h)
  BY <1>2 DEF SlotInv, Emitting
<1> QED
  BY <1>6, <1>7 DEF Emits, Clearing

(* A step of t changes the list and the iterator of a signal only with its *)
(* mutex.                                                                  *)
ListsKept(t) ==
  \A s \in Signals :
    Multi /\ owner[s] # NoThread /\ (Begun(Head(stack[t])) => s # Guarded(Call(t))) =>
      /\ m_connected_slots'[s] = m_connected_slots[s]
      /\ m_current_iterator'[s] = m_current_iterator[s]

(* What the step leaves to the call h beside it.                           *)
Leaves(h) ==
  LET c == h.call
  IN  /\ c.op \in ClearOps => \A o \in Range(h.todo) :
           c.sig \in m_senders[o] \/ Leaving(c.sig, o) =>
             c.sig \in m_senders'[o] \/ Leaving(c.sig, o)'
      /\ c.op \in LeaveOps =>
           /\ m_senders'[c.slot] \subseteq m_senders[c.slot]
           /\ \A s \in Range(h.todo) :
                c.slot \in Callees(s) \/ Popped(s, c.slot) =>
                  c.slot \in Callees(s)' \/ Popped(s, c.slot)'
      /\ c.op = "copy_slot" =>
           /\ m_senders[c.slot] \subseteq m_senders'[c.slot]
           /\ m_senders'[c.copy] \subseteq m_senders[c.copy]
      /\ c.op = "copy_signal" =>
           Range(m_connected_slots[c.sig]) \subseteq Range(m_connected_slots'[c.sig])

(* The objects a call relies on.                                           *)
Relies(h) ==
  Named(h.call) \cup (IF h.call.op \in ClearOps \cup LeaveOps THEN Range(h.todo) ELSE {})

(* The calls beside the one of t still have what they rely on.             *)
LEMMA OthersKeep ==
  ASSUME SlotInv, Rules, NEW t \in Threads, stack[t] # <<>>, policy' = policy, NEW h \in Others(t),
         ListsKept(t), alive \cap Relies(h) \subseteq alive',
         Beside(t, h) => Leaves(h),
         Enclosing(t, h) /\ ~Multi =>
           \/ Clearing(h.call.sig)'
           \/ InTurn(m_connected_slots'[h.call.sig], m_current_iterator'[h.call.sig], h.todo)
  PROVE  FrameLive(h)' /\ Emits(h)'
<1> DEFINE c == h.call
<1>1. TypeOK /\ Shape /\ Locked
  BY DEF SlotInv
<1>2. /\ h \in Acts /\ FrameOK(h) /\ Begun(h) /\ FrameLive(h) /\ Emits(h) /\ c \in ObjectCalls
      /\ Enclosing(t, h) \/ Beside(t, h)
  BY OtherCalls
<1>3. \A x \in Signals \cap {Guarded(c)} : Multi =>
        /\ m_connected_slots'[x] = m_connected_slots[x]
        /\ m_current_iterator'[x] = m_current_iterator[x]
  <2>1. CASE Beside(t, h)
    <3>1. Multi /\ Begun(Head(stack[t])) => owner[Guarded(Call(t))] = t
      <4>1. Begun(Head(stack[t])) => Head(stack[t]) \in Active(t)
        BY <1>1, StackParts DEF Active
      <4> QED
        BY <1>1, <4>1 DEF Locked, Call
    <3> QED
      BY <2>1, <3>1 DEF Beside, ListsKept
  <2>2. CASE Enclosing(t, h)
    <3>1. Guarded(c) = c.sig
      BY <1>2, <2>2, GuardedFields DEF Enclosing
    <3>2. t # NoThread
      BY SigslotAssumption
    <3> QED
      BY <2>2, <3>1, <3>2 DEF Enclosing, ListsKept
  <2> QED
    BY <1>2, <2>1, <2>2
<1>4. Multi' <=> Multi
  BY DEF Multi
<1>5. /\ c.op \in {"connect", "disconnect"} => Named(c) = {c.sig, c.slot}
      /\ c.op \in {"emit"} \cup ClearOps => Named(c) = {c.sig}
      /\ c.op \in LeaveOps => Named(c) = {c.slot}
      /\ c.op = "copy_signal" => Named(c) = {c.sig, c.copy}
      /\ c.op = "copy_slot" => Named(c) = {c.slot, c.copy}
  BY <1>2, NamedFields
<1>6. /\ c.op \in {"connect", "disconnect"} => c.sig \in Signals /\ c.slot \in Slots
      /\ c.op \in {"emit"} \cup ClearOps => c.sig \in Signals
      /\ c.op = "copy_signal" => c.sig \in Signals /\ c.copy \in Signals
      /\ c.op \in {"connect", "disconnect", "emit"} \cup ClearOps => Guarded(c) = c.sig
      /\ c.op \in CopyOps => Guarded(c) = c.copy
  BY <1>2, CallFields, GuardedFields
<1>7. c.op # "emit" => Beside(t, h) /\ Multi /\ Leaves(h)
  BY <1>2 DEF Enclosing, Beside
<1> HIDE DEF c
<1>8. c.op = "connect" => ConnectLive(c)'
  BY <1>2, <1>3, <1>5, <1>6, <1>7 DEF ConnectLive, FrameLive, Callees, Relies, c
<1>9. c.op = "disconnect" => DisconnectLive(c)'
  BY <1>2, <1>3, <1>5, <1>6, <1>7 DEF DisconnectLive, FrameLive, Callees, Relies, c
<1>10. c.op \in ClearOps => ClearLive(c, h.todo)'
  <2> SUFFICES ASSUME c.op \in ClearOps PROVE ClearLive(c, h.todo)'
    OBVIOUS
  <2>1. ClearLive(c, h.todo) /\ c.op # "emit" /\ c.op \notin LeaveOps
    BY <1>2 DEF FrameLive, ClearOps, LeaveOps, c
  <2>2. c.sig \in Signals /\ Callees(c.sig)' = Callees(c.sig)
    BY <1>3, <1>6, <1>7, <2>1 DEF Callees
  <2>3. Relies(h) = {c.sig} \cup Range(h.todo)
    BY <1>5 DEF Relies, c
  <2>4. \A o \in Range(h.todo) : c.sig \in m_senders[o] \/ Leaving(c.sig, o) =>
             c.sig \in m_senders'[o] \/ Leaving(c.sig, o)'
    BY <1>7, <2>1 DEF Leaves, c
  <2> QED
    BY <1>4, <2>1, <2>2, <2>3, <2>4 DEF ClearLive
<1>11. c.op \in LeaveOps => LeaveLive(c, h.todo)'
  <2> SUFFICES ASSUME c.op \in LeaveOps PROVE LeaveLive(c, h.todo)'
    OBVIOUS
  <2>1. LeaveLive(c, h.todo) /\ c.op # "emit"
    BY <1>2 DEF FrameLive, LeaveOps, c
  <2>2. Relies(h) = {c.slot} \cup Range(h.todo)
    BY <1>5 DEF Relies, c
  <2>3. /\ m_senders'[c.slot] \subseteq m_senders[c.slot]
        /\ \A s \in Range(h.todo) :
             c.slot \in Callees(s) \/ Popped(s, c.slot) =>
               c.slot \in Callees(s)' \/ Popped(s, c.slot)'
    BY <1>7, <2>1 DEF Leaves, c
  <2> QED
    BY <2>1, <2>2, <2>3 DEF LeaveLive
<1>12. c.op = "copy_slot" => CopySlotLive(c, h.todo)'
  BY <1>2, <1>5, <1>7 DEF CopySlotLive, FrameLive, Leaves, Relies, c
<1>13. c.op = "copy_signal" => CopySignalLive(c, h.todo)'
  <2> SUFFICES ASSUME c.op = "copy_signal" PROVE CopySignalLive(c, h.todo)'
    OBVIOUS
  <2>1. CopySignalLive(c, h.todo) /\ c.copy \in alive'
    BY <1>2, <1>5 DEF FrameLive, CopySignalLive, Relies, c
  <2>2. m_connected_slots'[c.copy] = m_connected_slots[c.copy]
    BY <1>3, <1>6, <1>7 DEF CopyOps
  <2>3. Range(m_connected_slots[c.sig]) \subseteq Range(m_connected_slots'[c.sig])
    BY <1>7 DEF Leaves, c
  <2> QED
    BY <2>1, <2>2, <2>3 DEF CopySignalLive
<1>14. c.op = "emit" => EmitLive(c, h.at, h.todo)'
  <2> SUFFICES ASSUME c.op = "emit" PROVE EmitLive(c, h.at, h.todo)'
    OBVIOUS
  <2>1. EmitLive(c, h.at, h.todo) /\ c.sig \in alive'
    BY <1>2, <1>5 DEF FrameLive, EmitLive, Relies, c
  <2>2. h.at = "slot" => Multi
    BY <1>2 DEF Enclosing, Beside
  <2> QED
    BY <1>3, <1>6, <2>1, <2>2 DEF EmitLive
<1>15. FrameLive(h)'
  BY <1>8, <1>9, <1>10, <1>11, <1>12, <1>13, <1>14 DEF FrameLive, c
<1>16. Emits(h)'
  <2> SUFFICES ASSUME c.op = "emit" PROVE Emits(h)'
    BY DEF Emits, c
  <2>1. CalledOnce(h.todo)
    BY <1>2 DEF Emits, c
  <2>2. CASE Multi
    <3>1. PICK u \in Threads : h \in Active(u)
      BY <1>2 DEF Acts
    <3>2. InTurn(m_connected_slots[c.sig], m_current_iterator[c.sig], h.todo)
      BY <2>2, <3>1, EmissionInTurn DEF c
    <3> QED
      BY <1>3, <1>6, <2>1, <2>2, <3>2 DEF Emits, c
  <2>3. CASE ~Multi
    BY <1>2, <2>1, <2>3 DEF Emits, Beside, c
  <2> QED
    BY <2>2, <2>3
<1> QED
  BY <1>15, <1>16

-----------------------------------------------------------------------------
(* The two sides of the connections, action by action.                     *)
Content == SidesInv /\ FramesLive /\ Emitting

(* Calls that stay between their two sides.                                *)
LEMMA PendingKept ==
  ASSUME \A f \in Acts : f \in Acts' \/ f.call.op \in {"emit"} \cup CopyOps
  PROVE  \A s, o : /\ Doing("connect", s, o) => Doing("connect", s, o)'
                   /\ Doing("disconnect", s, o) => Doing("disconnect", s, o)'
                   /\ Leaving(s, o) => Leaving(s, o)'
                   /\ Popped(s, o) => Popped(s, o)'
                   /\ Clearing(s) => Clearing(s)'
<1>1. \A f \in Acts : f.call.op \in {"connect", "disconnect"} \cup ClearOps \cup LeaveOps => f \in Acts'
  BY DEF CopyOps, ClearOps, LeaveOps
<1> QED
  BY <1>1 DEF Doing, Leaving, Popped, Clearing

(* A step that changes no object.                                          *)
LEMMA QuietStep ==
  ASSUME SlotInv, policy' = policy, UNCHANGED <<m_connected_slots, m_senders, alive>>,
         \A f \in Acts : f \in Acts' \/ f.call.op \in {"emit"} \cup CopyOps
  PROVE  /\ SidesInv'
         /\ \A h \in Acts : FrameLive(h)'
         /\ UNCHANGED m_current_iterator => \A h \in Acts : Emits(h)'
<1>1. \A s, o : /\ Doing("connect", s, o) => Doing("connect", s, o)'
                /\ Doing("disconnect", s, o) => Doing("disconnect", s, o)'
                /\ Leaving(s, o) => Leaving(s, o)'
                /\ Popped(s, o) => Popped(s, o)'
                /\ Clearing(s) => Clearing(s)'
  BY PendingKept
<1>2. \A s : Callees(s)' = Callees(s)
  BY DEF Callees
<1>3. Multi' <=> Multi
  BY DEF Multi
<1>4. Dead' /\ Distinct'
  BY DEF SlotInv, SidesInv, Dead, Distinct
<1>5. Listed'
  BY <1>1, <1>2, <1>3 DEF SlotInv, SidesInv, Listed
<1>6. Known'
  BY <1>1, <1>2 DEF SlotInv, SidesInv, Known
<1>7. ASSUME NEW h \in Acts
      PROVE  FrameLive(h)'
  <2>1. FrameLive(h)
    BY DEF SlotInv, FramesLive
  <2>2. /\ ConnectLive(h.call) => ConnectLive(h.call)'
        /\ DisconnectLive(h.call) => DisconnectLive(h.call)'
    BY <1>2 DEF ConnectLive, DisconnectLive
  <2>3. ClearLive(h.call, h.todo) => ClearLive(h.call, h.todo)'
    BY <1>1, <1>2, <1>3 DEF ClearLive
  <2>4. LeaveLive(h.call, h.todo) => LeaveLive(h.call, h.todo)'
    BY <1>1, <1>2 DEF LeaveLive
  <2>5. /\ CopySlotLive(h.call, h.todo) => CopySlotLive(h.call, h.todo)'
        /\ CopySignalLive(h.call, h.todo) => CopySignalLive(h.call, h.todo)'
        /\ EmitLive(h.call, h.at, h.todo) => EmitLive(h.call, h.at, h.todo)'
    BY DEF CopySlotLive, CopySignalLive, EmitLive
  <2> QED
    BY <2>1, <2>2, <2>3, <2>4, <2>5 DEF FrameLive
<1>8. ASSUME UNCHANGED m_current_iterator, NEW h \in Acts
      PROVE  Emits(h)'
  <2>1. Emits(h)
    BY DEF SlotInv, Emitting
  <2> QED
    BY <1>1, <1>8, <2>1 DEF Emits
<1> QED
  BY <1>4, <1>5, <1>6, <1>7, <1>8 DEF SidesInv

(* The facts each action starts from.                                      *)
LEMMA StepFacts ==
  ASSUME SlotInv, Rules, TypeOK', NEW t \in Threads, stack[t] # <<>>
  PROVE  /\ TypeOK /\ Shape /\ Locked /\ Dead /\ Listed /\ Known /\ Distinct
         /\ Call(t) \in ObjectCalls /\ FrameOK(Head(stack[t]))
         /\ Head(stack[t]).call = Call(t) /\ Head(stack[t]).todo = Todo(t)
         /\ Begun(Head(stack[t])) => /\ Acts = {Head(stack[t])} \cup Others(t)
                                     /\ FrameLive(Head(stack[t]))
                                     /\ Multi => owner[Guarded(Call(t))] = t
         /\ ~Begun(Head(stack[t])) => Acts = Others(t) /\ MayCall(Call(t))
         /\ Return(t) => Acts' = Others(t)
<1>1. TypeOK /\ Shape /\ Locked /\ Dead /\ Listed /\ Known /\ Distinct
  BY DEF SlotInv, SidesInv
<1>2. /\ Call(t) \in ObjectCalls /\ FrameOK(Head(stack[t]))
      /\ Head(stack[t]).call = Call(t) /\ Head(stack[t]).todo = Todo(t)
  BY <1>1, HeadOK
<1>3. ASSUME Begun(Head(stack[t]))
      PROVE  /\ Acts = {Head(stack[t])} \cup Others(t)
             /\ FrameLive(Head(stack[t]))
             /\ Multi => owner[Guarded(Call(t))] = t
  <2>1. Acts = {Head(stack[t])} \cup Others(t)
    BY <1>1, <1>3, ActsParts
  <2>2. Head(stack[t]) \in Active(t)
    BY <1>1, <1>3, StackParts DEF Active
  <2> QED
    BY <1>1, <1>2, <2>1, <2>2 DEF SlotInv, FramesLive, Locked
<1>4. ASSUME ~Begun(Head(stack[t]))
      PROVE  Acts = Others(t) /\ MayCall(Call(t))
  BY <1>1, <1>4, ActsParts DEF Rules, LiveCalls, Begun
<1>5. ASSUME Return(t) PROVE Acts' = Others(t)
  <2>1. Active(t)' = {} \cup Below(t) /\ \A u \in Threads \ {t} : stack'[u] = stack[u]
    BY <1>1, <1>5, ReturnStep
  <2>2. Acts' = {} \cup Others(t)
    BY <2>1, ActsAfter
  <2> QED
    BY <2>2
<1> QED
  BY <1>1, <1>2, <1>3, <1>4, <1>5

(* A thread takes a call, or a call ends that has nothing to undo.         *)
LEMMA QuietKeeps ==
  ASSUME SlotInv, Rules, TypeOK', NEW t \in Threads,
         \/ TakeCall(t) \/ EmitDone(t) \/ CopyDone(t)
         \/ DisconnectSignal(t) /\ Return(t) /\ UNCHANGED objectVars
  PROVE  Content'
<1>1. policy' = policy /\ UNCHANGED objectVars
  BY DEF TakeCall, EmitDone, CopyDone, DisconnectSignal, programVars
<1>2. Acts' \subseteq Acts /\ \A f \in Acts : f \in Acts' \/ f.call.op \in {"emit"} \cup CopyOps
  <2>1. CASE TakeCall(t)
    <3>1. /\ \A u \in Threads \ {t} : stack'[u] = stack[u]
          /\ Active(t) = {} /\ Active(t)' = {}
      BY <2>1, TakeStep DEF SlotInv
    <3>2. \A u \in Threads : Active(u)' = Active(u)
      BY <3>1 DEF Active
    <3> QED
      BY <3>2 DEF Acts
  <2>2. CASE EmitDone(t) \/ CopyDone(t)
    <3>1. stack[t] # <<>> /\ Begun(Head(stack[t])) /\ Return(t) /\ Call(t).op \in {"emit"} \cup CopyOps
      BY <2>2 DEF EmitDone, CopyDone, In, Begun, Call
    <3> QED
      BY <3>1, StepFacts
  <2>3. CASE DisconnectSignal(t) /\ Return(t)
    <3>1. stack[t] # <<>> /\ ~Begun(Head(stack[t]))
      BY <2>3 DEF DisconnectSignal, In, Begun
    <3> QED
      BY <2>3, <3>1, StepFacts
  <2> QED
    BY <2>1, <2>2, <2>3
<1>3. SidesInv' /\ (\A h \in Acts : FrameLive(h)') /\ \A h \in Acts : Emits(h)'
  BY <1>1, <1>2, QuietStep DEF objectVars
<1> QED
  BY <1>2, <1>3 DEF Content, FramesLive, Emitting

(* disconnect_all of a signal or of a slot takes its mutex.                *)
LEMMA LockKeeps ==
  ASSUME SlotInv, Rules, TypeOK', NEW t \in Threads, ClearLock(t) \/ LeaveLock(t)
  PROVE  Content'
<1>0. PICK g : g = [call |-> Call(t), at |-> "loop", todo |-> <<>>]
  OBVIOUS
<1>1. /\ stack[t] # <<>> /\ ~Begun(Head(stack[t])) /\ Call(t).op \in ClearOps \cup LeaveOps
      /\ Goto(t, "loop", <<>>) /\ policy' = policy /\ UNCHANGED objectVars
  BY DEF ClearLock, LeaveLock, In, Begun, Call, programVars
<1>2. TypeOK /\ Call(t) \in ObjectCalls /\ Acts = Others(t) /\ MayCall(Call(t))
  BY <1>1, StepFacts
<1>3. Acts' = {g} \cup Others(t)
  BY <1>0, <1>1, <1>2, GotoActs
<1>4. SidesInv' /\ (\A h \in Acts : FrameLive(h)') /\ \A h \in Acts : Emits(h)'
  BY <1>1, <1>2, <1>3, QuietStep DEF objectVars
<1>5. FrameLive(g)' /\ Emits(g)'
  <2>1. /\ Call(t).op \in ClearOps => Call(t).sig \in alive
        /\ Call(t).op \in LeaveOps => Call(t).slot \in alive
    BY <1>2, NamedFields
  <2>2. Range(<<>>) = {} /\ IsInjective(<<>>)
    BY DEF Range, IsInjective
  <2>3. g.call = Call(t) /\ g.todo = <<>>
    BY <1>0
  <2>4. alive' = alive
    BY <1>1 DEF objectVars
  <2>5. /\ Call(t).op \in ClearOps => ClearLive(g.call, g.todo)'
        /\ Call(t).op \in LeaveOps => LeaveLive(g.call, g.todo)'
    BY <2>1, <2>2, <2>3, <2>4 DEF ClearLive, LeaveLive
  <2> QED
    BY <1>1, <2>3, <2>5 DEF FrameLive, Emits, ClearOps, LeaveOps
<1> QED
  BY <1>2, <1>3, <1>4, <1>5 DEF Content, FramesLive, Emitting

(* Another emission is one of another signal.                              *)
LEMMA OtherEmissions ==
  ASSUME SlotInv, Rules, TypeOK', NEW t \in Threads, stack[t] # <<>>, Call(t).op = "emit",
         ~Begun(Head(stack[t])) => Free(Call(t).sig),
         NEW h \in Others(t), h.call.op = "emit"
  PROVE  h.call.sig \in Signals /\ h.call.sig # Call(t).sig
<1>1. h.call \in ObjectCalls /\ (Enclosing(t, h) \/ Beside(t, h))
  BY OtherCalls
<1>2. Call(t) \in ObjectCalls /\ (Begun(Head(stack[t])) /\ Multi => owner[Guarded(Call(t))] = t)
  BY StepFacts
<1>3. Guarded(h.call) = h.call.sig /\ Guarded(Call(t)) = Call(t).sig /\ h.call.sig \in Signals
  BY <1>1, <1>2, GuardedFields, CallFields
<1>4. CASE Enclosing(t, h)
  BY <1>3, <1>4 DEF Enclosing
<1>5. CASE Beside(t, h)
  BY <1>2, <1>3, <1>5 DEF Beside, Free, Multi
<1> QED
  BY <1>1, <1>4, <1>5

(* emit takes the mutex and sets the iterator to the first connection.     *)
LEMMA EmitLockKeeps ==
  ASSUME SlotInv, Rules, TypeOK', NEW t \in Threads, EmitLock(t)
  PROVE  Content'
<1>0. PICK c, q, g : /\ c = Call(t) /\ q = m_connected_slots[c.sig]
                     /\ g = [call |-> c, at |-> "loop", todo |-> <<>>]
  OBVIOUS
<1>1. /\ stack[t] # <<>> /\ ~Begun(Head(stack[t])) /\ c.op = "emit" /\ Free(c.sig)
      /\ Goto(t, "loop", <<>>) /\ policy' = policy
      /\ UNCHANGED <<m_connected_slots, m_senders, alive>>
      /\ m_current_iterator' =
           [m_current_iterator EXCEPT ![c.sig] = IF q = <<>> THEN End ELSE Head(q)]
  BY <1>0 DEF EmitLock, In, Begun, Call, programVars, Lock
<1>2. TypeOK /\ c \in ObjectCalls /\ Acts = Others(t) /\ MayCall(c)
  BY <1>0, <1>1, StepFacts
<1>3. Acts' = {g} \cup Others(t)
  BY <1>0, <1>1, <1>2, GotoActs
<1>4. SidesInv' /\ \A h \in Acts : FrameLive(h)'
  BY <1>1, <1>2, <1>3, QuietStep
<1>5. c.sig \in Signals /\ c.sig \in alive
  BY <1>1, <1>2, CallFields, NamedFields
<1>6. q \in Seq(Connections) /\ m_current_iterator \in [Signals -> Connections \cup {End}]
  BY <1>0, <1>2, <1>5 DEF TypeOK
<1>7. FrameLive(g)'
  BY <1>0, <1>1, <1>5 DEF FrameLive, EmitLive, ClearOps, LeaveOps
<1>8. Emits(g)'
  <2> DEFINE cur == IF q = <<>> THEN End ELSE Head(q)
  <2>1. m_current_iterator'[c.sig] = cur /\ m_connected_slots'[c.sig] = q
    BY <1>0, <1>1, <1>5, <1>6
  <2>2. DOMAIN <<>> = {} /\ Range(<<>>) = {}
    BY DEF Range
  <2>3. CalledOnce(<<>>)
    BY <2>2 DEF CalledOnce
  <2>4. InTurn(q, cur, <<>>)
    <3>1. CASE q = <<>>
      BY <2>2, <3>1 DEF InTurn
    <3>2. CASE q # <<>>
      <4>1. 1 \in DOMAIN q /\ cur = q[1] /\ DOMAIN q = 1..Len(q)
        BY <1>6, <3>2
      <4>2. cur \in Range(q)
        BY <4>1 DEF Range
      <4>3. \A i \in DOMAIN q : ~Passed(q, cur, i)
        BY <4>1 DEF Passed
      <4> QED
        BY <2>2, <4>2, <4>3 DEF InTurn
    <3> QED
      BY <3>1, <3>2
  <2>5. g.call = c /\ g.todo = <<>>
    BY <1>0
  <2> HIDE DEF cur
  <2> QED
    BY <2>1, <2>3, <2>4, <2>5 DEF Emits
<1>9. ASSUME NEW h \in Others(t)
      PROVE  Emits(h)'
  <2>1. Emits(h) /\ \A s : Clearing(s) => Clearing(s)'
    <3>1. Emits(h)
      BY <1>1, OtherCalls
    <3> QED
      BY <1>2, <1>3, <3>1, PendingKept
  <2>2. h.call.op = "emit" => /\ m_current_iterator'[h.call.sig] = m_current_iterator[h.call.sig]
                              /\ m_connected_slots'[h.call.sig] = m_connected_slots[h.call.sig]
    BY <1>0, <1>1, <1>6, OtherEmissions
  <2> QED
    BY <2>1, <2>2 DEF Emits
<1> QED
  BY <1>2, <1>3, <1>4, <1>7, <1>8, <1>9 DEF Content, FramesLive, Emitting

(* emit moves the iterator on and calls a slot.                            *)
LEMMA EmitCallKeeps ==
  ASSUME SlotInv, Rules, TypeOK', NEW t \in Threads, EmitCall(t)
  PROVE  Content'
<1>0. PICK c, f, q, cur, todo, g :
        /\ c = Call(t) /\ f = Head(stack[t])
        /\ q = m_connected_slots[c.sig] /\ cur = m_current_iterator[c.sig]
        /\ todo = <<cur>> \o Todo(t)
        /\ g = [call |-> c, at |-> "slot", todo |-> todo]
  OBVIOUS
<1>1. /\ stack[t] # <<>> /\ Begun(f) /\ c.op = "emit" /\ cur # End
      /\ Goto(t, "slot", todo) /\ policy' = policy
      /\ UNCHANGED <<m_connected_slots, m_senders, alive>>
      /\ m_current_iterator' = [m_current_iterator EXCEPT ![c.sig] = Advance(@, q)]
  BY <1>0 DEF EmitCall, In, Begun, Call, programVars
<1>2. /\ TypeOK /\ Shape /\ Distinct /\ c \in ObjectCalls /\ Acts = {f} \cup Others(t)
      /\ FrameLive(f) /\ f.call = c /\ f.todo = Todo(t)
  BY <1>0, <1>1, StepFacts
<1>3. Acts' = {g} \cup Others(t)
  BY <1>0, <1>1, <1>2, GotoActs
<1>4. SidesInv' /\ \A h \in Acts : FrameLive(h)'
  BY <1>1, <1>2, <1>3, QuietStep
<1>5. c.sig \in Signals /\ Todo(t) \in Seq(Connections)
  BY <1>0, <1>1, <1>2, CallFields, HeadOK
<1>6. q \in Seq(Connections) /\ IsInjective(q) /\ m_current_iterator \in [Signals -> Connections \cup {End}]
  BY <1>0, <1>2, <1>5 DEF TypeOK, Distinct
<1>7. CalledOnce(Todo(t)) /\ InTurn(q, cur, Todo(t))
  <2>1. f \in Active(t)
    BY <1>0, <1>1, <1>2, StackParts DEF Active
  <2> QED
    BY <1>0, <1>1, <1>2, <2>1, EmissionInTurn
<1>8. cur \in Range(q) /\ InTurn(q, Advance(cur, q), todo) /\ CalledOnce(todo)
  BY <1>0, <1>1, <1>5, <1>6, <1>7, AdvanceInTurn
<1>9. Head(todo) = cur
  BY <1>0, <1>5
<1>10. FrameLive(g)'
  <2>1. c.sig \in alive'
    BY <1>1, <1>2 DEF FrameLive, EmitLive
  <2>2. Head(todo) \in Range(m_connected_slots'[c.sig])
    BY <1>0, <1>1, <1>8, <1>9
  <2>3. g.call = c /\ g.at = "slot" /\ g.todo = todo
    BY <1>0
  <2> QED
    BY <1>1, <2>1, <2>2, <2>3 DEF FrameLive, EmitLive, ClearOps, LeaveOps
<1>11. Emits(g)'
  <2>1. m_current_iterator'[c.sig] = Advance(cur, q) /\ m_connected_slots'[c.sig] = q
    BY <1>0, <1>1, <1>5, <1>6
  <2>2. g.call = c /\ g.todo = todo
    BY <1>0
  <2> QED
    BY <1>8, <2>1, <2>2 DEF Emits
<1>12. ASSUME NEW h \in Others(t)
      PROVE  Emits(h)'
  <2>1. Emits(h) /\ \A s : Clearing(s) => Clearing(s)'
    <3>1. Emits(h)
      BY <1>1, OtherCalls
    <3> QED
      BY <1>1, <1>2, <1>3, <3>1, PendingKept
  <2>2. h.call.op = "emit" => /\ m_current_iterator'[h.call.sig] = m_current_iterator[h.call.sig]
                              /\ m_connected_slots'[h.call.sig] = m_connected_slots[h.call.sig]
    BY <1>0, <1>1, <1>6, OtherEmissions
  <2> QED
    BY <2>1, <2>2 DEF Emits
<1> QED
  BY <1>2, <1>3, <1>4, <1>10, <1>11, <1>12 DEF Content, FramesLive, Emitting

(* The slot makes its calls.                                               *)
LEMMA CallbackKeeps ==
  ASSUME SlotInv, Rules, TypeOK', NEW t \in Threads, Callback(t)
  PROVE  Content'
<1>0. PICK c, f, g : /\ c = Call(t) /\ f = Head(stack[t])
                     /\ g = [call |-> c, at |-> "loop", todo |-> Todo(t)]
  OBVIOUS
<1>1. /\ stack[t] # <<>> /\ Begun(f) /\ c.op = "emit"
      /\ policy' = policy /\ UNCHANGED objectVars
  BY <1>0 DEF Callback, In, Begun, Call, programVars
<1>2. /\ TypeOK /\ Shape /\ c \in ObjectCalls /\ Acts = {f} \cup Others(t)
      /\ FrameLive(f) /\ f.call = c /\ f.todo = Todo(t)
  BY <1>0, <1>1, StepFacts
<1>3. Acts' = {g} \cup Others(t)
  <2>1. (\A u \in Threads \ {t} : stack'[u] = stack[u]) /\ Active(t)' = {g} \cup Below(t)
    BY <1>0, <1>2, CallbackStep
  <2> QED
    BY <2>1, ActsAfter
<1>4. SidesInv' /\ (\A h \in Acts : FrameLive(h)') /\ \A h \in Acts : Emits(h)'
  BY <1>1, <1>2, <1>3, QuietStep DEF objectVars
<1>5. FrameLive(g)'
  BY <1>0, <1>1, <1>2 DEF FrameLive, EmitLive, ClearOps, LeaveOps, objectVars
<1>6. Emits(g)'
  <2>1. Emits(f)'
    BY <1>2, <1>4
  <2>2. g.call = f.call /\ g.todo = f.todo
    BY <1>0, <1>2
  <2> QED
    BY <2>1, <2>2 DEF Emits
<1> QED
  BY <1>2, <1>3, <1>4, <1>5, <1>6 DEF Content, FramesLive, Emitting

(* A connection is added to a list.                                        *)
LEMMA AppendOne ==
  ASSUME NEW S, NEW q \in Seq(S), NEW n \in S
  PROVE  /\ Range(Append(q, n)) = Range(q) \cup {n}
         /\ IsInjective(q) /\ n \notin Range(q) => IsInjective(Append(q, n))
<1> DEFINE r == Append(q, n)
<1>1. /\ DOMAIN r = 1..(Len(q) + 1) /\ DOMAIN q = 1..Len(q) /\ Len(q) \in Nat
      /\ r[Len(q) + 1] = n /\ \A i \in DOMAIN q : r[i] = q[i]
  OBVIOUS
<1> HIDE DEF r
<1>2. \A i \in DOMAIN r : i \in DOMAIN q \/ i = Len(q) + 1
  BY <1>1
<1>3. Range(r) = Range(q) \cup {n}
  <2>1. Len(q) + 1 \in DOMAIN r /\ DOMAIN q \subseteq DOMAIN r
    BY <1>1
  <2> QED
    BY <1>1, <1>2, <2>1 DEF Range
<1>4. ASSUME IsInjective(q), n \notin Range(q) PROVE IsInjective(r)
  <2>1. \A i \in DOMAIN q : q[i] # n
    BY <1>4 DEF Range
  <2> QED
    BY <1>1, <1>2, <1>4, <2>1 DEF IsInjective
<1> QED
  BY <1>3, <1>4 DEF r

(* connect adds a connection to the signal's list.                         *)
LEMMA ConnectSignalKeeps ==
  ASSUME SlotInv, Rules, TypeOK', NEW t \in Threads, ConnectSignal(t)
  PROVE  Content'
<1>0. PICK c, s, o, g : /\ c = Call(t) /\ s = c.sig /\ o = c.slot
                        /\ g = [call |-> c, at |-> "slot", todo |-> <<o>>]
  OBVIOUS
<1>1. /\ stack[t] # <<>> /\ ~Begun(Head(stack[t])) /\ c.op = "connect" /\ Free(s)
      /\ Goto(t, "slot", <<o>>) /\ policy' = policy
      /\ UNCHANGED <<m_current_iterator, m_senders, alive>>
  BY <1>0 DEF ConnectSignal, In, Begun, Call, programVars, Lock
<1>2. PICK n \in NewConnections(m_connected_slots[s], o) :
        m_connected_slots' = [m_connected_slots EXCEPT ![s] = Append(@, n)]
  BY <1>0 DEF ConnectSignal
<1>3. /\ TypeOK /\ Shape /\ Locked /\ Dead /\ Listed /\ Known /\ Distinct
      /\ c \in ObjectCalls /\ Acts = Others(t) /\ MayCall(c)
  BY <1>0, <1>1, StepFacts
<1>4. Acts' = {g} \cup Others(t)
  BY <1>0, <1>1, <1>3, GotoActs
<1>5. s \in Signals /\ o \in Slots /\ s \in alive /\ o \in alive
  BY <1>0, <1>1, <1>3, CallFields, NamedFields
<1>6. /\ m_connected_slots \in [Signals -> Seq(Connections)] /\ m_connected_slots[s] \in Seq(Connections)
  BY <1>3, <1>5 DEF TypeOK
<1>7. n \in Connections /\ n.slot = o /\ n \notin Range(m_connected_slots[s])
  BY <1>5, <1>6 DEF NewConnections, Connections
<1>8. /\ m_connected_slots'[s] = Append(m_connected_slots[s], n)
      /\ \A z \in Signals \ {s} : m_connected_slots'[z] = m_connected_slots[z]
  BY <1>2, <1>5, <1>6
<1>9. Range(m_connected_slots'[s]) = Range(m_connected_slots[s]) \cup {n}
  BY <1>6, <1>7, <1>8, AppendOne
<1>10. \A z \in Signals : Callees(z)' = IF z = s THEN Callees(z) \cup {o} ELSE Callees(z)
  <2>1. Callees(s)' = Callees(s) \cup {o}
    BY <1>7, <1>9 DEF Callees
  <2>2. \A z \in Signals \ {s} : Callees(z)' = Callees(z)
    BY <1>8 DEF Callees
  <2> QED
    BY <2>1, <2>2
<1>11. \A z, x : /\ Doing("connect", z, x) => Doing("connect", z, x)'
                 /\ Doing("disconnect", z, x) => Doing("disconnect", z, x)'
                 /\ Leaving(z, x) => Leaving(z, x)'
                 /\ Popped(z, x) => Popped(z, x)'
                 /\ Clearing(z) => Clearing(z)'
  BY <1>3, <1>4, PendingKept
<1>12. Multi' <=> Multi
  BY <1>1 DEF Multi
<1>13. g.call = c
  BY <1>0
<1>14. Doing("connect", s, o)'
  BY <1>0, <1>1, <1>4, <1>13 DEF Doing
<1>15. Dead'
  BY <1>1, <1>3, <1>5, <1>8 DEF Dead
<1>16. Listed'
  BY <1>1, <1>3, <1>5, <1>10, <1>11, <1>12, <1>14 DEF Listed
<1>17. Known'
  <2>1. m_senders \in [Slots -> SUBSET Signals]
    BY <1>3 DEF TypeOK
  <2> QED
    BY <1>1, <1>3, <1>10, <1>11, <2>1 DEF Known
<1>18. Distinct'
  <2>1. IsInjective(m_connected_slots'[s])
    BY <1>3, <1>5, <1>6, <1>7, <1>8, AppendOne DEF Distinct
  <2> QED
    BY <1>3, <1>8, <2>1 DEF Distinct
<1>19. ASSUME NEW h \in Others(t)
       PROVE  FrameLive(h)' /\ Emits(h)'
  <2>1. h.call \in ObjectCalls /\ Emits(h) /\ FrameOK(h)
    BY <1>1, OtherCalls
  <2>2. ListsKept(t)
    BY <1>1, <1>8 DEF ListsKept, Free, Multi
  <2>3. alive \cap Relies(h) \subseteq alive'
    BY <1>1
  <2>4. ASSUME Beside(t, h) PROVE Leaves(h)
    <3>1. h.call.op \in LeaveOps => Range(h.todo) \subseteq Signals
      BY <2>1 DEF FrameOK, Range
    <3>2. h.call.op = "copy_signal" => h.call.sig \in Signals
      BY <2>1, CallFields
    <3> QED
      BY <1>1, <1>8, <1>9, <1>10, <1>11, <3>1, <3>2 DEF Leaves
  <2>5. ASSUME Enclosing(t, h)
        PROVE  \/ Clearing(h.call.sig)'
               \/ InTurn(m_connected_slots'[h.call.sig], m_current_iterator'[h.call.sig], h.todo)
    <3>1. h.call.op = "emit" /\ h.call.sig # s /\ h.call.sig \in Signals
      BY <1>0, <1>1, <2>1, <2>5, CallFields DEF Enclosing
    <3> QED
      BY <1>1, <1>8, <1>11, <2>1, <3>1 DEF Emits
  <2> QED
    BY <1>1, <2>2, <2>3, <2>4, <2>5, OthersKeep
<1>20. FrameLive(g)' /\ Emits(g)'
  <2>1. ConnectLive(c)'
    BY <1>0, <1>1, <1>5, <1>10 DEF ConnectLive
  <2> QED
    BY <1>1, <1>13, <2>1 DEF FrameLive, Emits, ClearOps, LeaveOps
<1> QED
  BY <1>4, <1>15, <1>16, <1>17, <1>18, <1>19, <1>20 DEF Content, SidesInv, FramesLive, Emitting

(* A signal that is cleared has slots to visit.                            *)
LEMMA ClearTodo ==
  ASSUME NEW h, FrameOK(h), h.call.op \in ClearOps
  PROVE  Range(h.todo) \subseteq Slots
<1>1. h.todo = <<>> \/ \E o \in Slots : h.todo = <<o>>
  BY DEF FrameOK, Frames
<1>2. Range(<<>>) = {} /\ \A o : Range(<<o>>) = {o}
  BY DEF Range
<1> QED
  BY <1>1, <1>2

(* The list of a signal names slots.                                       *)
LEMMA CalleesType ==
  ASSUME TypeOK, NEW z \in Signals
  PROVE  Callees(z) \subseteq Slots
<1>1. m_connected_slots[z] \in Seq(Connections)
  BY DEF TypeOK
<1>2. Range(m_connected_slots[z]) \subseteq Connections
  BY <1>1 DEF Range
<1>3. \A n \in Connections : n.slot \in Slots
  BY DEF Connections
<1> QED
  BY <1>2, <1>3 DEF Callees

(* Only emissions enclose a call: the others go on in other threads.       *)
LEMMA OthersBeside ==
  ASSUME SlotInv, Rules, NEW t \in Threads, stack[t] # <<>>,
         NEW h \in Others(t), h.call.op # "emit"
  PROVE  Beside(t, h)
BY OtherCalls DEF Enclosing

(* connect adds the signal to the slot's set.                              *)
LEMMA ConnectSlotKeeps ==
  ASSUME SlotInv, Rules, TypeOK', NEW t \in Threads, ConnectSlot(t)
  PROVE  Content'
<1>0. PICK c, s, o, f : c = Call(t) /\ s = c.sig /\ o = c.slot /\ f = Head(stack[t])
  OBVIOUS
<1>1. /\ stack[t] # <<>> /\ Begun(f) /\ c.op = "connect"
      /\ Return(t) /\ policy' = policy
      /\ UNCHANGED <<m_connected_slots, m_current_iterator, alive>>
      /\ m_senders' = [m_senders EXCEPT ![o] = @ \cup {s}]
  BY <1>0 DEF ConnectSlot, In, Begun, Call, programVars
<1>2. /\ TypeOK /\ Shape /\ Locked /\ Dead /\ Listed /\ Known /\ Distinct
      /\ c \in ObjectCalls /\ Acts = {f} \cup Others(t) /\ FrameLive(f) /\ f.call = c
      /\ Acts' = Others(t)
  BY <1>0, <1>1, StepFacts
<1>3. s \in Signals /\ o \in Slots /\ s \in alive /\ o \in alive /\ o \in Callees(s)
  BY <1>0, <1>1, <1>2, CallFields DEF FrameLive, ConnectLive
<1>4. m_senders \in [Slots -> SUBSET Signals]
  BY <1>2 DEF TypeOK
<1>5. \A x \in Slots : m_senders'[x] = IF x = o THEN m_senders[x] \cup {s} ELSE m_senders[x]
  BY <1>1, <1>4
<1>6. \A z : Callees(z)' = Callees(z)
  BY <1>1 DEF Callees
<1>7. \A z, x : /\ Doing("connect", z, x) => Doing("connect", z, x)' \/ (z = s /\ x = o)
                /\ Doing("disconnect", z, x) => Doing("disconnect", z, x)'
                /\ Leaving(z, x) => Leaving(z, x)'
                /\ Popped(z, x) => Popped(z, x)'
                /\ Clearing(z) => Clearing(z)'
  BY <1>0, <1>1, <1>2 DEF Doing, Leaving, Popped, Clearing, ClearOps, LeaveOps
<1>8. Multi' <=> Multi
  BY <1>1 DEF Multi
<1>9. Dead'
  BY <1>1, <1>2, <1>3, <1>5 DEF Dead
<1>10. Listed'
  <2>1. \A z \in Signals : Callees(z) \subseteq Slots
    BY <1>2, CalleesType
  <2> SUFFICES ASSUME NEW z \in Signals, NEW x \in Callees(z)
               PROVE  /\ x \in alive
                      /\ \/ z \in m_senders'[x] \/ Doing("connect", z, x)' \/ Leaving(z, x)'
                         \/ ~Multi /\ Clearing(z)'
    BY <1>1, <1>6, <1>8 DEF Listed
  <2>2. x \in Slots
    BY <2>1
  <2>3. m_senders[x] \subseteq m_senders'[x] /\ (x = o => s \in m_senders'[x])
    BY <1>5, <2>2
  <2> QED
    BY <1>2, <1>7, <2>3 DEF Listed
<1>11. Known'
  BY <1>1, <1>2, <1>3, <1>5, <1>6, <1>7 DEF Known
<1>12. Distinct'
  BY <1>1, <1>2 DEF Distinct
<1>13. ASSUME NEW h \in Others(t)
       PROVE  FrameLive(h)' /\ Emits(h)'
  <2>1. h.call \in ObjectCalls /\ Emits(h) /\ FrameOK(h)
    BY <1>1, OtherCalls
  <2>2. ListsKept(t)
    BY <1>1 DEF ListsKept
  <2>3. alive \cap Relies(h) \subseteq alive'
    BY <1>1
  <2>4. ASSUME Beside(t, h) PROVE Leaves(h)
    <3>1. Named(c) = {s, o} /\ Named(c) \cap Named(h.call) \cap Slots = {}
      BY <1>0, <1>1, <1>2, <2>4, NamedFields DEF Beside, Apart
    <3>2. /\ h.call.op \in LeaveOps => h.call.slot \in Slots \ {o}
          /\ h.call.op = "copy_slot" => h.call.slot \in Slots \ {o} /\ h.call.copy \in Slots \ {o}
      BY <1>3, <2>1, <3>1, NamedFields, CallFields
    <3>3. h.call.op \in ClearOps => Range(h.todo) \subseteq Slots
      BY <2>1, ClearTodo
    <3> QED
      BY <1>1, <1>5, <1>6, <1>7, <3>2, <3>3 DEF Leaves
  <2>5. ASSUME Enclosing(t, h)
        PROVE  \/ Clearing(h.call.sig)'
               \/ InTurn(m_connected_slots'[h.call.sig], m_current_iterator'[h.call.sig], h.todo)
    BY <1>1, <1>7, <2>1, <2>5 DEF Emits, Enclosing
  <2> QED
    BY <1>1, <2>2, <2>3, <2>4, <2>5, OthersKeep
<1> QED
  BY <1>2, <1>9, <1>10, <1>11, <1>12, <1>13 DEF Content, SidesInv, FramesLive, Emitting

(* disconnect removes the connection from the signal's list.               *)
LEMMA DisconnectSignalKeeps ==
  ASSUME SlotInv, Rules, TypeOK', NEW t \in Threads, DisconnectSignal(t),
         FirstMatch(m_connected_slots[Call(t).sig], Call(t).slot) # {}
  PROVE  Content'
<1>0. PICK c, s, o, g, gone :
        /\ c = Call(t) /\ s = c.sig /\ o = c.slot
        /\ gone = FirstMatch(m_connected_slots[s], o)
        /\ g = [call |-> c, at |-> "slot", todo |-> <<o>>]
  OBVIOUS
<1>1. /\ stack[t] # <<>> /\ ~Begun(Head(stack[t])) /\ c.op = "disconnect" /\ Free(s)
      /\ Goto(t, "slot", <<o>>) /\ policy' = policy /\ EraseFrom(s, gone)
      /\ UNCHANGED <<m_senders, alive>>
  BY <1>0 DEF DisconnectSignal, In, Begun, Call, programVars
<1>2. /\ TypeOK /\ Shape /\ Locked /\ Dead /\ Listed /\ Known /\ Distinct
      /\ c \in ObjectCalls /\ Acts = Others(t) /\ MayCall(c)
  BY <1>0, <1>1, StepFacts
<1>3. Acts' = {g} \cup Others(t)
  BY <1>0, <1>1, <1>2, GotoActs
<1>4. s \in Signals /\ o \in Slots /\ s \in alive /\ o \in alive
  BY <1>0, <1>1, <1>2, CallFields, NamedFields
<1>5. m_connected_slots[s] \in Seq(Connections) /\ IsInjective(m_connected_slots[s])
  BY <1>2, <1>4 DEF TypeOK, Distinct
<1>6. gone \subseteq Connections /\ \A n \in gone : n.slot = o
  BY <1>0, <1>5 DEF FirstMatch
<1>7. /\ \A z \in Signals \ {s} : /\ m_connected_slots'[z] = m_connected_slots[z]
                                  /\ m_current_iterator'[z] = m_current_iterator[z]
      /\ Range(m_connected_slots'[s]) = Range(m_connected_slots[s]) \ gone
      /\ IsInjective(m_connected_slots'[s])
      /\ \A called : InTurn(m_connected_slots[s], m_current_iterator[s], called) =>
                     InTurn(m_connected_slots'[s], m_current_iterator'[s], called)
  <2>1. End \notin gone
    BY <1>6, SigslotAssumption
  <2> QED
    BY <1>1, <1>2, <1>4, <1>5, <2>1, EraseStep
<1>8. o \notin Callees(s)'
  <2>1. Once(m_connected_slots[s], o)
    BY <1>0, <1>1 DEF Rules, ConnectedOnce, In, Begun, Call, DisconnectSignal
  <2>2. PICK i \in DOMAIN m_connected_slots[s] : m_connected_slots[s][i].slot = o /\ m_connected_slots[s][i] \in gone
    BY <1>0 DEF FirstMatch
  <2>3. \A n \in Range(m_connected_slots[s]) : n.slot = o => n \in gone
    BY <2>1, <2>2 DEF Once, Range
  <2> QED
    BY <1>7, <2>3 DEF Callees
<1>9. \A z \in Signals : Callees(z)' = IF z = s THEN Callees(z) \ {o} ELSE Callees(z)
  <2>1. Callees(s)' = Callees(s) \ {o}
    BY <1>6, <1>7, <1>8 DEF Callees
  <2>2. \A z \in Signals \ {s} : Callees(z)' = Callees(z)
    BY <1>7 DEF Callees
  <2> QED
    BY <2>1, <2>2
<1>10. \A z, x : /\ Doing("connect", z, x) => Doing("connect", z, x)'
                 /\ Doing("disconnect", z, x) => Doing("disconnect", z, x)'
                 /\ Leaving(z, x) => Leaving(z, x)'
                 /\ Popped(z, x) => Popped(z, x)'
                 /\ Clearing(z) => Clearing(z)'
  BY <1>2, <1>3, PendingKept
<1>11. Multi' <=> Multi
  BY <1>1 DEF Multi
<1>12. g.call = c
  BY <1>0
<1>13. Doing("disconnect", s, o)'
  BY <1>0, <1>1, <1>3, <1>12 DEF Doing
<1>14. Dead'
  BY <1>1, <1>2, <1>4, <1>7 DEF Dead
<1>15. Listed'
  BY <1>1, <1>2, <1>4, <1>9, <1>10, <1>11 DEF Listed
<1>16. Known'
  <2>1. m_senders \in [Slots -> SUBSET Signals]
    BY <1>2 DEF TypeOK
  <2> QED
    BY <1>1, <1>2, <1>9, <1>10, <1>13, <2>1 DEF Known
<1>17. Distinct'
  BY <1>2, <1>7 DEF Distinct
<1>18. ASSUME NEW h \in Others(t)
       PROVE  FrameLive(h)' /\ Emits(h)'
  <2>1. h.call \in ObjectCalls /\ Emits(h) /\ FrameOK(h)
    BY <1>1, OtherCalls
  <2>2. ListsKept(t)
    BY <1>1, <1>7 DEF ListsKept, Free, Multi
  <2>3. alive \cap Relies(h) \subseteq alive'
    BY <1>1
  <2>4. ASSUME Beside(t, h) PROVE Leaves(h)
    <3>1. /\ Named(c) = {s, o} /\ Named(c) \cap Named(h.call) \cap Slots = {}
          /\ h.call.op = "copy_signal" => Named(c) \cap Named(h.call) = {}
      BY <1>0, <1>1, <1>2, <2>4, NamedFields DEF Beside, Apart
    <3>2. h.call.op \in LeaveOps => h.call.slot # o /\ Range(h.todo) \subseteq Signals
      BY <1>4, <2>1, <3>1, NamedFields DEF FrameOK, Range
    <3>3. h.call.op = "copy_signal" => h.call.sig \in Signals \ {s}
      BY <2>1, <3>1, NamedFields, CallFields
    <3> QED
      BY <1>1, <1>7, <1>9, <1>10, <3>2, <3>3 DEF Leaves
  <2>5. ASSUME Enclosing(t, h)
        PROVE  \/ Clearing(h.call.sig)'
               \/ InTurn(m_connected_slots'[h.call.sig], m_current_iterator'[h.call.sig], h.todo)
    <3>1. h.call.op = "emit" /\ h.call.sig \in Signals
      BY <2>1, <2>5, CallFields DEF Enclosing
    <3> QED
      BY <1>7, <1>10, <2>1, <3>1 DEF Emits
  <2> QED
    BY <1>1, <2>2, <2>3, <2>4, <2>5, OthersKeep
<1>19. FrameLive(g)' /\ Emits(g)'
  <2>1. DisconnectLive(c)'
    BY <1>0, <1>1, <1>4, <1>8 DEF DisconnectLive
  <2> QED
    BY <1>1, <1>12, <2>1 DEF FrameLive, Emits, ClearOps, LeaveOps
<1> QED
  BY <1>3, <1>14, <1>15, <1>16, <1>17, <1>18, <1>19 DEF Content, SidesInv, FramesLive, Emitting

(* disconnect removes the signal from the slot's set.                      *)
LEMMA DisconnectSlotKeeps ==
  ASSUME SlotInv, Rules, TypeOK', NEW t \in Threads, DisconnectSlot(t)
  PROVE  Content'
<1>0. PICK c, s, o, f : c = Call(t) /\ s = c.sig /\ o = c.slot /\ f = Head(stack[t])
  OBVIOUS
<1>1. /\ stack[t] # <<>> /\ Begun(f) /\ c.op = "disconnect"
      /\ Return(t) /\ policy' = policy
      /\ UNCHANGED <<m_connected_slots, m_current_iterator, alive>>
      /\ m_senders' = [m_senders EXCEPT ![o] = @ \ {s}]
  BY <1>0 DEF DisconnectSlot, In, Begun, Call, programVars
<1>2. /\ TypeOK /\ Shape /\ Locked /\ Dead /\ Listed /\ Known /\ Distinct
      /\ c \in ObjectCalls /\ Acts = {f} \cup Others(t) /\ FrameLive(f) /\ f.call = c
      /\ Acts' = Others(t) /\ (Multi => owner[Guarded(c)] = t)
  BY <1>0, <1>1, StepFacts
<1>3. s \in Signals /\ o \in Slots /\ s \in alive /\ o \in alive /\ o \notin Callees(s) /\ Guarded(c) = s
  BY <1>0, <1>1, <1>2, CallFields, GuardedFields DEF FrameLive, DisconnectLive
<1>4. m_senders \in [Slots -> SUBSET Signals]
  BY <1>2 DEF TypeOK
<1>5. \A x \in Slots : m_senders'[x] = IF x = o THEN m_senders[x] \ {s} ELSE m_senders[x]
  BY <1>1, <1>4
<1>6. \A z : Callees(z)' = Callees(z)
  BY <1>1 DEF Callees
<1>7. \A z, x : /\ Doing("connect", z, x) => Doing("connect", z, x)'
                /\ Doing("disconnect", z, x) => Doing("disconnect", z, x)' \/ (z = s /\ x = o)
                /\ Leaving(z, x) => Leaving(z, x)'
                /\ Popped(z, x) => Popped(z, x)'
                /\ Clearing(z) => Clearing(z)'
  BY <1>0, <1>1, <1>2 DEF Doing, Leaving, Popped, Clearing, ClearOps, LeaveOps
<1>8. Multi' <=> Multi
  BY <1>1 DEF Multi
<1>9. Dead'
  BY <1>1, <1>2, <1>3, <1>5 DEF Dead
<1>10. Listed'
  <2>1. \A z \in Signals : Callees(z) \subseteq Slots
    BY <1>2, CalleesType
  <2> QED
    BY <1>1, <1>2, <1>3, <1>5, <1>6, <1>7, <1>8, <2>1 DEF Listed
<1>11. Known'
  BY <1>1, <1>2, <1>3, <1>5, <1>6, <1>7 DEF Known
<1>12. Distinct'
  BY <1>1, <1>2 DEF Distinct
<1>13. ASSUME NEW h \in Others(t)
       PROVE  FrameLive(h)' /\ Emits(h)'
  <2>1. h.call \in ObjectCalls /\ Emits(h) /\ FrameOK(h)
    BY <1>1, OtherCalls
  <2>2. ListsKept(t)
    BY <1>1 DEF ListsKept
  <2>3. alive \cap Relies(h) \subseteq alive'
    BY <1>1
  <2>4. ASSUME Beside(t, h) PROVE Leaves(h)
    <3>1. Named(c) = {s, o} /\ Named(c) \cap Named(h.call) \cap Slots = {}
      BY <1>0, <1>1, <1>2, <2>4, NamedFields DEF Beside, Apart
    <3>2. /\ h.call.op \in LeaveOps => h.call.slot \in Slots \ {o}
          /\ h.call.op = "copy_slot" => h.call.slot \in Slots \ {o} /\ h.call.copy \in Slots \ {o}
      BY <1>3, <2>1, <3>1, NamedFields, CallFields
    <3>3. h.call.op \in ClearOps => Range(h.todo) \subseteq Slots /\ h.call.sig # s
      BY <1>2, <1>3, <2>1, <2>4, ClearTodo, GuardedFields DEF Beside
    <3> QED
      BY <1>1, <1>5, <1>6, <1>7, <3>2, <3>3 DEF Leaves
  <2>5. ASSUME Enclosing(t, h)
        PROVE  \/ Clearing(h.call.sig)'
               \/ InTurn(m_connected_slots'[h.call.sig], m_current_iterator'[h.call.sig], h.todo)
    BY <1>1, <1>7, <2>1, <2>5 DEF Emits, Enclosing
  <2> QED
    BY <1>1, <2>2, <2>3, <2>4, <2>5, OthersKeep
<1> QED
  BY <1>2, <1>9, <1>10, <1>11, <1>12, <1>13 DEF Content, SidesInv, FramesLive, Emitting

(* The first element of a sequence without repetitions goes.               *)
LEMMA TailOnce ==
  ASSUME NEW S, NEW q \in Seq(S), q # <<>>, IsInjective(q)
  PROVE  /\ Head(q) \in S /\ Head(q) \in Range(q) /\ Tail(q) \in Seq(S)
         /\ Range(Tail(q)) = Range(q) \ {Head(q)}
         /\ IsInjective(Tail(q))
<1> DEFINE r == Tail(q)
           n == Head(q)
<1>1. /\ n \in S /\ r \in Seq(S) /\ 1 \in DOMAIN q /\ q[1] = n
      /\ \A i \in DOMAIN r : i \in Nat /\ i + 1 \in DOMAIN q /\ i + 1 # 1 /\ r[i] = q[i + 1]
      /\ \A i \in DOMAIN q : i \in Nat /\ (i = 1 \/ (i - 1 \in DOMAIN r /\ r[i - 1] = q[i]))
  OBVIOUS
<1> HIDE DEF r, n
<1>2. n \in Range(q)
  BY <1>1 DEF Range
<1>3. Range(r) = Range(q) \ {n}
  <2>1. ASSUME NEW y \in Range(r) PROVE y \in Range(q) \ {n}
    <3>1. PICK i \in DOMAIN r : y = r[i]
      BY DEF Range
    <3>2. i + 1 \in DOMAIN q /\ i + 1 # 1 /\ y = q[i + 1]
      BY <1>1, <3>1
    <3>3. y # q[1]
      BY <1>1, <3>2 DEF IsInjective
    <3> QED
      BY <1>1, <3>2, <3>3 DEF Range
  <2>2. ASSUME NEW y \in Range(q) \ {n} PROVE y \in Range(r)
    <3>1. PICK i \in DOMAIN q : y = q[i]
      BY DEF Range
    <3>2. i # 1
      BY <1>1, <3>1, <2>2
    <3> QED
      BY <1>1, <3>1, <3>2 DEF Range
  <2> QED
    BY <2>1, <2>2
<1>4. IsInjective(r)
  <2> SUFFICES ASSUME NEW i \in DOMAIN r, NEW j \in DOMAIN r, r[i] = r[j]
               PROVE  i = j
    BY DEF IsInjective
  <2>1. i + 1 = j + 1
    BY <1>1 DEF IsInjective
  <2> QED
    BY <1>1, <2>1
<1> QED
  BY <1>1, <1>2, <1>3, <1>4 DEF r, n

(* disconnect_all takes the first connection from the signal's list.       *)
LEMMA ClearPopKeeps ==
  ASSUME SlotInv, Rules, TypeOK', NEW t \in Threads, ClearPop(t)
  PROVE  Content'
<1>0. PICK c, s, f, n, o, g :
        /\ c = Call(t) /\ s = c.sig /\ f = Head(stack[t])
        /\ n = Head(m_connected_slots[s]) /\ o = n.slot
        /\ g = [call |-> c, at |-> "slot", todo |-> <<o>>]
  OBVIOUS
<1>1. /\ stack[t] # <<>> /\ Begun(f) /\ c.op \in ClearOps /\ f.at = "loop"
      /\ Goto(t, "slot", <<o>>) /\ policy' = policy
      /\ UNCHANGED <<m_current_iterator, m_senders, alive>>
      /\ m_connected_slots[s] # <<>>
      /\ m_connected_slots' = [m_connected_slots EXCEPT ![s] = Tail(@)]
  BY <1>0 DEF ClearPop, In, Begun, Call, programVars
<1>2. /\ TypeOK /\ Shape /\ Locked /\ Dead /\ Listed /\ Known /\ Distinct
      /\ c \in ObjectCalls /\ Acts = {f} \cup Others(t) /\ FrameLive(f) /\ f.call = c
      /\ FrameOK(f) /\ (Multi => owner[Guarded(c)] = t)
  BY <1>0, <1>1, StepFacts
<1>3. Acts' = {g} \cup Others(t) /\ g.call = c /\ g.todo = <<o>>
  BY <1>0, <1>1, <1>2, GotoActs
<1>4. s \in Signals /\ Guarded(c) = s /\ s \in alive /\ Range(f.todo) = {}
  <2>1. s \in Signals /\ Guarded(c) = s
    BY <1>0, <1>1, <1>2, CallFields, GuardedFields
  <2>2. f.todo = <<>>
    BY <1>1, <1>2 DEF FrameOK
  <2> QED
    BY <1>0, <1>1, <1>2, <2>1, <2>2 DEF FrameLive, ClearLive, Range
<1>5. /\ m_connected_slots \in [Signals -> Seq(Connections)]
      /\ m_connected_slots[s] \in Seq(Connections) /\ IsInjective(m_connected_slots[s])
  BY <1>2, <1>4 DEF TypeOK, Distinct
<1>6. /\ m_connected_slots'[s] = Tail(m_connected_slots[s])
      /\ \A z \in Signals \ {s} : m_connected_slots'[z] = m_connected_slots[z]
  BY <1>1, <1>4, <1>5
<1>7. /\ n \in Range(m_connected_slots[s]) /\ n \in Connections
      /\ Range(m_connected_slots'[s]) = Range(m_connected_slots[s]) \ {n}
      /\ IsInjective(m_connected_slots'[s])
  BY <1>0, <1>1, <1>5, <1>6, TailOnce
<1>8. o \in Slots /\ o \in Callees(s) /\ o \in alive
  BY <1>0, <1>2, <1>4, <1>7 DEF Callees, Connections, Listed
<1>9. /\ \A z \in Signals \ {s} : Callees(z)' = Callees(z)
      /\ Callees(s)' \subseteq Callees(s) /\ Callees(s) \subseteq Callees(s)' \cup {o}
  BY <1>0, <1>6, <1>7 DEF Callees
<1>10. Multi => o \notin Callees(s)'
  <2> SUFFICES ASSUME Multi, NEW m \in Range(m_connected_slots'[s]), m.slot = o PROVE FALSE
    BY DEF Callees
  <2>1. Once(m_connected_slots[s], o)
    BY <1>4, <1>8 DEF Rules, ConnectedOnce, Multi
  <2>2. m \in Range(m_connected_slots[s]) /\ m # n
    BY <1>7
  <2> QED
    BY <1>0, <1>7, <2>1, <2>2 DEF Once, Range
<1>11. \A z, x : /\ Doing("connect", z, x) => Doing("connect", z, x)'
                 /\ Doing("disconnect", z, x) => Doing("disconnect", z, x)'
                 /\ Leaving(z, x) => Leaving(z, x)'
                 /\ Popped(z, x) => Popped(z, x)'
                 /\ Clearing(z) => Clearing(z)'
  BY <1>1, <1>2, <1>3, <1>4 DEF Doing, Leaving, Popped, Clearing, ClearOps, LeaveOps
<1>12. Multi' <=> Multi
  BY <1>1 DEF Multi
<1>13. Popped(s, o)' /\ Clearing(s)'
  <2>1. Range(<<o>>) = {o}
    BY DEF Range
  <2> QED
    BY <1>0, <1>1, <1>3, <2>1 DEF Popped, Clearing
<1>14. Dead'
  BY <1>1, <1>2, <1>4, <1>6 DEF Dead
<1>15. Listed'
  BY <1>1, <1>2, <1>4, <1>9, <1>11, <1>12 DEF Listed
<1>16. Known'
  <2>1. m_senders \in [Slots -> SUBSET Signals]
    BY <1>2 DEF TypeOK
  <2> QED
    BY <1>1, <1>2, <1>4, <1>9, <1>11, <1>13, <2>1 DEF Known
<1>17. Distinct'
  BY <1>2, <1>6, <1>7 DEF Distinct
<1>18. ASSUME NEW h \in Others(t)
       PROVE  FrameLive(h)' /\ Emits(h)'
  <2>1. h.call \in ObjectCalls /\ Emits(h) /\ FrameOK(h)
    BY <1>1, OtherCalls
  <2>2. ListsKept(t)
    BY <1>0, <1>1, <1>4, <1>6 DEF ListsKept
  <2>3. alive \cap Relies(h) \subseteq alive'
    BY <1>1
  <2>4. ASSUME Beside(t, h) PROVE Leaves(h)
    <3>1. Named(c) = {s} /\ (h.call.op = "copy_signal" => Named(c) \cap Named(h.call) = {})
      BY <1>0, <1>1, <1>2, <2>4, NamedFields DEF Beside, Apart
    <3>2. h.call.op \in LeaveOps => Range(h.todo) \subseteq Signals
      BY <2>1 DEF FrameOK, Range
    <3>3. h.call.op = "copy_signal" => h.call.sig \in Signals \ {s}
      BY <2>1, <3>1, NamedFields, CallFields
    <3> QED
      BY <1>1, <1>6, <1>9, <1>11, <1>13, <3>2, <3>3 DEF Leaves
  <2>5. ASSUME Enclosing(t, h)
        PROVE  \/ Clearing(h.call.sig)'
               \/ InTurn(m_connected_slots'[h.call.sig], m_current_iterator'[h.call.sig], h.todo)
    <3>1. h.call.op = "emit" /\ h.call.sig \in Signals
      BY <2>1, <2>5, CallFields DEF Enclosing
    <3> QED
      BY <1>1, <1>6, <1>11, <1>13, <2>1, <3>1 DEF Emits
  <2> QED
    BY <1>1, <2>2, <2>3, <2>4, <2>5, OthersKeep
<1>19. ~(Multi /\ Doing("connect", s, o))
  <2> SUFFICES ASSUME Multi, NEW k \in Acts, k.call.op = "connect", k.call.sig = s PROVE FALSE
    BY DEF Doing
  <2>1. k \in Others(t)
    BY <1>1, <1>2 DEF ClearOps
  <2>2. Beside(t, k) /\ k.call \in ObjectCalls
    BY <1>1, <2>1, OthersBeside, OtherCalls
  <2> QED
    BY <1>2, <1>4, <2>2, GuardedFields DEF Beside
<1>20. FrameLive(g)' /\ Emits(g)'
  <2>1. Range(<<o>>) = {o}
    BY DEF Range
  <2>2. Multi => s \in m_senders[o] \/ Leaving(s, o)
    BY <1>2, <1>4, <1>8, <1>19 DEF Listed
  <2>3. ClearLive(c, <<o>>)'
    BY <1>0, <1>1, <1>4, <1>8, <1>10, <1>11, <1>12, <2>1, <2>2 DEF ClearLive
  <2> QED
    BY <1>1, <1>3, <2>3 DEF FrameLive, Emits, ClearOps, LeaveOps
<1> QED
  BY <1>3, <1>14, <1>15, <1>16, <1>17, <1>18, <1>20 DEF Content, SidesInv, FramesLive, Emitting

(* disconnect_all removes the signal from the set of the slot it took.     *)
LEMMA ClearSlotKeeps ==
  ASSUME SlotInv, Rules, TypeOK', NEW t \in Threads, ClearSlot(t)
  PROVE  Content'
<1>0. PICK c, s, f, o, g :
        /\ c = Call(t) /\ s = c.sig /\ f = Head(stack[t]) /\ o = Head(Todo(t))
        /\ g = [call |-> c, at |-> "loop", todo |-> <<>>]
  OBVIOUS
<1>1. /\ stack[t] # <<>> /\ Begun(f) /\ c.op \in ClearOps /\ f.at = "slot" /\ Free(o)
      /\ Goto(t, "loop", <<>>) /\ policy' = policy
      /\ UNCHANGED <<m_connected_slots, m_current_iterator, alive>>
      /\ m_senders' = [m_senders EXCEPT ![o] = @ \ {s}]
  BY <1>0 DEF ClearSlot, In, Begun, Call, programVars
<1>2. /\ TypeOK /\ Shape /\ Locked /\ Dead /\ Listed /\ Known /\ Distinct
      /\ c \in ObjectCalls /\ Acts = {f} \cup Others(t) /\ FrameLive(f) /\ f.call = c
      /\ FrameOK(f) /\ (Multi => owner[Guarded(c)] = t) /\ f.todo = Todo(t)
  BY <1>0, <1>1, StepFacts
<1>3. Acts' = {g} \cup Others(t) /\ g.call = c /\ g.todo = <<>>
  BY <1>0, <1>1, <1>2, GotoActs
<1>4. s \in Signals /\ Guarded(c) = s /\ o \in Slots /\ Range(f.todo) = {o}
  <2>1. s \in Signals /\ Guarded(c) = s
    BY <1>0, <1>1, <1>2, CallFields, GuardedFields
  <2>2. PICK x \in Slots : f.todo = <<x>>
    BY <1>1, <1>2 DEF FrameOK
  <2>3. x = o
    BY <1>0, <1>2, <2>2
  <2> QED
    BY <2>1, <2>2, <2>3 DEF Range
<1>5. s \in alive /\ (Multi => o \notin Callees(s))
  BY <1>0, <1>1, <1>2, <1>4 DEF FrameLive, ClearLive
<1>6. m_senders \in [Slots -> SUBSET Signals]
  BY <1>2 DEF TypeOK
<1>7. \A x \in Slots : m_senders'[x] = IF x = o THEN m_senders[x] \ {s} ELSE m_senders[x]
  BY <1>1, <1>6
<1>8. \A z : Callees(z)' = Callees(z)
  BY <1>1 DEF Callees
<1>9. \A z, x : /\ Doing("connect", z, x) => Doing("connect", z, x)'
                /\ Doing("disconnect", z, x) => Doing("disconnect", z, x)'
                /\ Leaving(z, x) => Leaving(z, x)'
                /\ Popped(z, x) => Popped(z, x)' \/ (z = s /\ x = o)
                /\ Clearing(z) => Clearing(z)'
  BY <1>0, <1>1, <1>2, <1>3, <1>4 DEF Doing, Leaving, Popped, Clearing, ClearOps, LeaveOps
<1>10. Multi' <=> Multi
  BY <1>1 DEF Multi
<1>11. Clearing(s)'
  BY <1>0, <1>1, <1>3 DEF Clearing
<1>12. Dead'
  BY <1>1, <1>2, <1>7 DEF Dead
<1>13. Listed'
  <2>1. \A z \in Signals : Callees(z) \subseteq Slots
    BY <1>2, CalleesType
  <2> SUFFICES ASSUME NEW z \in Signals, NEW x \in Callees(z)
               PROVE  /\ x \in alive
                      /\ \/ z \in m_senders'[x] \/ Doing("connect", z, x)' \/ Leaving(z, x)'
                         \/ ~Multi /\ Clearing(z)'
    BY <1>1, <1>8, <1>10 DEF Listed
  <2>2. x \in Slots
    BY <2>1
  <2>3. z \in m_senders[x] => z \in m_senders'[x] \/ (z = s /\ x = o)
    BY <1>7, <2>2
  <2> QED
    BY <1>2, <1>5, <1>9, <1>11, <2>3 DEF Listed
<1>14. Known'
  <2> SUFFICES ASSUME NEW x \in Slots, NEW z \in m_senders'[x]
               PROVE  z \in alive /\ (x \in Callees(z) \/ Doing("disconnect", z, x)' \/ Popped(z, x)')
    BY <1>1, <1>8 DEF Known
  <2>1. z \in m_senders[x] /\ ~(z = s /\ x = o)
    BY <1>7
  <2> QED
    BY <1>2, <1>9, <2>1 DEF Known
<1>15. Distinct'
  BY <1>1, <1>2 DEF Distinct
<1>16. ASSUME NEW h \in Others(t)
       PROVE  FrameLive(h)' /\ Emits(h)'
  <2>1. h.call \in ObjectCalls /\ Emits(h) /\ FrameOK(h)
    BY <1>1, OtherCalls
  <2>2. ListsKept(t)
    BY <1>1 DEF ListsKept
  <2>3. alive \cap Relies(h) \subseteq alive'
    BY <1>1
  <2>4. ASSUME Beside(t, h) PROVE Leaves(h)
    <3>1. h.call.op = "copy_slot" => h.call.slot \in Slots /\ h.call.copy \in Slots /\ s \notin m_senders[h.call.slot]
      BY <1>0, <1>1, <2>1, <2>4, CallFields DEF Beside, Apart
    <3>2. h.call.op \in LeaveOps => h.call.slot \in Slots \ {o}
      BY <1>1, <2>1, <2>4, CallFields, GuardedFields DEF Beside, Free, Multi
    <3>3. h.call.op \in ClearOps => Range(h.todo) \subseteq Slots /\ h.call.sig # s
      BY <1>2, <1>4, <2>1, <2>4, ClearTodo, GuardedFields DEF Beside
    <3> QED
      BY <1>1, <1>7, <1>8, <1>9, <3>1, <3>2, <3>3 DEF Leaves
  <2>5. ASSUME Enclosing(t, h)
        PROVE  \/ Clearing(h.call.sig)'
               \/ InTurn(m_connected_slots'[h.call.sig], m_current_iterator'[h.call.sig], h.todo)
    BY <1>1, <1>9, <2>1, <2>5 DEF Emits, Enclosing
  <2> QED
    BY <1>1, <2>2, <2>3, <2>4, <2>5, OthersKeep
<1>17. FrameLive(g)' /\ Emits(g)'
  <2>1. Range(<<>>) = {}
    BY DEF Range
  <2>2. ClearLive(c, <<>>)'
    BY <1>0, <1>1, <1>5, <2>1 DEF ClearLive
  <2> QED
    BY <1>1, <1>3, <2>2 DEF FrameLive, Emits, ClearOps, LeaveOps
<1> QED
  BY <1>3, <1>12, <1>13, <1>14, <1>15, <1>16, <1>17 DEF Content, SidesInv, FramesLive, Emitting

(* disconnect_all has emptied the list, and a signal is destroyed.         *)
LEMMA ClearDoneKeeps ==
  ASSUME SlotInv, Rules, TypeOK', NEW t \in Threads, ClearDone(t)
  PROVE  Content'
<1>0. PICK c, s, f : c = Call(t) /\ s = c.sig /\ f = Head(stack[t])
  OBVIOUS
<1>1. /\ stack[t] # <<>> /\ Begun(f) /\ c.op \in ClearOps /\ f.at = "loop"
      /\ Return(t) /\ policy' = policy
      /\ UNCHANGED <<m_connected_slots, m_senders>>
      /\ m_connected_slots[s] = <<>>
      /\ m_current_iterator' = [m_current_iterator EXCEPT ![s] = End]
      /\ alive' = IF c.op = "~signal" THEN alive \ {s} ELSE alive
  BY <1>0 DEF ClearDone, In, Begun, Call, programVars
<1>2. /\ TypeOK /\ Shape /\ Locked /\ Dead /\ Listed /\ Known /\ Distinct
      /\ c \in ObjectCalls /\ Acts = {f} \cup Others(t) /\ f.call = c
      /\ FrameOK(f) /\ Acts' = Others(t)
  BY <1>0, <1>1, StepFacts
<1>3. s \in Signals /\ Guarded(c) = s /\ Range(f.todo) = {}
  <2>1. s \in Signals /\ Guarded(c) = s
    BY <1>0, <1>1, <1>2, CallFields, GuardedFields
  <2>2. f.todo = <<>>
    BY <1>1, <1>2 DEF FrameOK
  <2> QED
    BY <2>1, <2>2 DEF Range
<1>4. (\A z : Callees(z)' = Callees(z)) /\ Callees(s) = {}
  BY <1>1 DEF Callees, Range
<1>5. /\ m_current_iterator'[s] = End
      /\ \A z \in Signals \ {s} : m_current_iterator'[z] = m_current_iterator[z]
  BY <1>1, <1>2, <1>3 DEF TypeOK
<1>6. ASSUME c.op = "~signal", NEW h \in Others(t)
      PROVE  s \notin Named(h.call)
  <2>1. h.call \in ObjectCalls /\ (Enclosing(t, h) \/ Beside(t, h))
    BY <1>1, OtherCalls
  <2>2. s \in Named(c)
    BY <1>0, <1>1, <1>2, NamedFields
  <2>3. CASE Beside(t, h)
    BY <1>0, <1>6, <2>2, <2>3 DEF Beside, Apart
  <2>4. CASE Enclosing(t, h)
    BY <1>0, <1>6, <2>1, <2>4, NamedFields DEF Enclosing
  <2> QED
    BY <2>1, <2>3, <2>4
<1>7. \A z, x : /\ Doing("connect", z, x) => Doing("connect", z, x)'
                /\ Doing("disconnect", z, x) => Doing("disconnect", z, x)'
                /\ Leaving(z, x) => Leaving(z, x)'
                /\ Popped(z, x) => Popped(z, x)'
                /\ Clearing(z) => Clearing(z)' \/ z = s
  BY <1>0, <1>1, <1>2, <1>3 DEF Doing, Leaving, Popped, Clearing, ClearOps, LeaveOps
<1>8. ASSUME c.op = "~signal", NEW x
      PROVE  ~Doing("disconnect", s, x) /\ ~Popped(s, x)
  <2>1. ASSUME NEW k \in Acts, k.call.sig = s, k.call.op \in {"disconnect"} \cup ClearOps,
               k.call.op = "disconnect" \/ Range(k.todo) # {}
        PROVE  FALSE
    <3>1. k \in Others(t)
      BY <1>1, <1>2, <1>3, <2>1 DEF ClearOps
    <3>2. k.call \in ObjectCalls
      BY <1>1, <3>1, OtherCalls
    <3>3. s \in Named(k.call)
      BY <2>1, <3>2, NamedFields
    <3> QED
      BY <1>6, <1>8, <3>1, <3>3
  <2> QED
    BY <2>1 DEF Doing, Popped
<1>9. Multi' <=> Multi
  BY <1>1 DEF Multi
<1>10. \A x \in Slots : x \in alive' <=> x \in alive
  BY <1>1, <1>3, SigslotAssumption
<1>11. Dead'
  BY <1>1, <1>2, <1>10 DEF Dead
<1>12. Listed'
  <2>1. \A z \in Signals : Callees(z) \subseteq Slots
    BY <1>2, CalleesType
  <2> QED
    BY <1>1, <1>2, <1>4, <1>7, <1>9, <1>10, <2>1 DEF Listed
<1>13. Known'
  <2> SUFFICES ASSUME NEW x \in Slots, NEW z \in m_senders[x]
               PROVE  z \in alive' /\ (x \in Callees(z) \/ Doing("disconnect", z, x)' \/ Popped(z, x)')
    BY <1>1, <1>4 DEF Known
  <2>1. z \in alive /\ (x \in Callees(z) \/ Doing("disconnect", z, x) \/ Popped(z, x))
    BY <1>2 DEF Known
  <2>2. c.op = "~signal" => z # s
    BY <1>4, <1>8, <2>1
  <2> QED
    BY <1>1, <1>7, <2>1, <2>2
<1>14. Distinct'
  BY <1>1, <1>2 DEF Distinct
<1>15. ASSUME NEW h \in Others(t)
       PROVE  FrameLive(h)' /\ Emits(h)'
  <2>1. h.call \in ObjectCalls /\ Emits(h) /\ FrameOK(h) /\ FrameLive(h)
    BY <1>1, OtherCalls
  <2>2. ListsKept(t)
    BY <1>0, <1>1, <1>3, <1>5 DEF ListsKept
  <2>3. alive \cap Relies(h) \subseteq alive'
    <3>1. c.op = "~signal" /\ h.call.op \in ClearOps => s \notin Range(h.todo)
      BY <1>3, <2>1, ClearTodo, SigslotAssumption
    <3>2. c.op = "~signal" /\ h.call.op \in LeaveOps => s \notin Range(h.todo)
      BY <1>4, <1>8, <2>1 DEF FrameLive, LeaveLive
    <3> QED
      BY <1>1, <1>6, <3>1, <3>2 DEF Relies
  <2>4. ASSUME Beside(t, h) PROVE Leaves(h)
    BY <1>1, <1>4, <1>7 DEF Leaves
  <2>5. ASSUME Enclosing(t, h)
        PROVE  \/ Clearing(h.call.sig)'
               \/ InTurn(m_connected_slots'[h.call.sig], m_current_iterator'[h.call.sig], h.todo)
    <3>1. h.call.op = "emit" /\ h.call.sig \in Signals
      BY <2>1, <2>5, CallFields DEF Enclosing
    <3>2. InTurn(<<>>, End, h.todo)
      BY DEF InTurn
    <3>3. CASE h.call.sig = s
      BY <1>1, <1>5, <3>2, <3>3
    <3>4. CASE h.call.sig # s
      BY <1>1, <1>5, <1>7, <2>1, <3>1, <3>4 DEF Emits
    <3> QED
      BY <3>3, <3>4
  <2> QED
    BY <1>1, <2>2, <2>3, <2>4, <2>5, OthersKeep
<1> QED
  BY <1>2, <1>11, <1>12, <1>13, <1>14, <1>15 DEF Content, SidesInv, FramesLive, Emitting

(* disconnect_all of a slot swaps its set out.                             *)
LEMMA LeaveSwapKeeps ==
  ASSUME SlotInv, Rules, TypeOK', NEW t \in Threads, LeaveSwap(t)
  PROVE  Content'
<1>0. PICK c, o, f : c = Call(t) /\ o = c.slot /\ f = Head(stack[t])
  OBVIOUS
<1>1. /\ stack[t] # <<>> /\ Begun(f) /\ c.op \in LeaveOps /\ f.at = "loop" /\ Todo(t) = <<>>
      /\ policy' = policy /\ m_senders[o] # {}
      /\ UNCHANGED <<m_connected_slots, m_current_iterator, alive>>
      /\ m_senders' = [m_senders EXCEPT ![o] = {}]
  BY <1>0 DEF LeaveSwap, In, Begun, Call, programVars
<1>2. PICK q \in Orders(m_senders[o]) : Goto(t, "loop", q)
  BY <1>0 DEF LeaveSwap
<1>3. /\ TypeOK /\ Shape /\ Locked /\ Dead /\ Listed /\ Known /\ Distinct
      /\ c \in ObjectCalls /\ Acts = {f} \cup Others(t) /\ FrameLive(f) /\ f.call = c
      /\ FrameOK(f) /\ f.todo = <<>>
  BY <1>0, <1>1, StepFacts
<1>4. PICK g : g = [call |-> c, at |-> "loop", todo |-> q]
  OBVIOUS
<1>5. Acts' = {g} \cup Others(t) /\ g.call = c /\ g.todo = q
  BY <1>0, <1>1, <1>2, <1>3, <1>4, GotoActs
<1>6. o \in Slots /\ o \in alive /\ Range(f.todo) = {} /\ m_senders \in [Slots -> SUBSET Signals]
  BY <1>0, <1>1, <1>3, CallFields DEF FrameLive, LeaveLive, TypeOK, Range
<1>7. Range(q) = m_senders[o] /\ IsInjective(q)
  BY <1>6, OrdersType, SigslotAssumption
<1>8. \A x \in Slots : m_senders'[x] = IF x = o THEN {} ELSE m_senders[x]
  BY <1>1, <1>6
<1>9. \A z : Callees(z)' = Callees(z)
  BY <1>1 DEF Callees
<1>10. \A z, x : /\ Doing("connect", z, x) => Doing("connect", z, x)'
                 /\ Doing("disconnect", z, x) => Doing("disconnect", z, x)'
                 /\ Leaving(z, x) => Leaving(z, x)'
                 /\ Popped(z, x) => Popped(z, x)'
                 /\ Clearing(z) => Clearing(z)'
  BY <1>0, <1>1, <1>3, <1>5, <1>6 DEF Doing, Leaving, Popped, Clearing, ClearOps, LeaveOps
<1>11. \A z \in m_senders[o] : Leaving(z, o)'
  BY <1>0, <1>1, <1>5, <1>7 DEF Leaving
<1>12. Multi' <=> Multi
  BY <1>1 DEF Multi
<1>13. Dead'
  BY <1>1, <1>3, <1>8 DEF Dead
<1>14. Listed'
  <2>1. \A z \in Signals : Callees(z) \subseteq Slots
    BY <1>3, CalleesType
  <2> SUFFICES ASSUME NEW z \in Signals, NEW x \in Callees(z)
               PROVE  /\ x \in alive
                      /\ \/ z \in m_senders'[x] \/ Doing("connect", z, x)' \/ Leaving(z, x)'
                         \/ ~Multi /\ Clearing(z)'
    BY <1>1, <1>9, <1>12 DEF Listed
  <2>2. z \in m_senders[x] => z \in m_senders'[x] \/ Leaving(z, x)'
    BY <1>8, <1>11, <2>1
  <2> QED
    BY <1>3, <1>10, <2>2 DEF Listed
<1>15. Known'
  <2> SUFFICES ASSUME NEW x \in Slots, NEW z \in m_senders'[x]
               PROVE  z \in alive /\ (x \in Callees(z) \/ Doing("disconnect", z, x)' \/ Popped(z, x)')
    BY <1>1, <1>9 DEF Known
  <2>1. z \in m_senders[x]
    BY <1>8
  <2> QED
    BY <1>3, <1>10, <2>1 DEF Known
<1>16. Distinct'
  BY <1>1, <1>3 DEF Distinct
<1>17. \A k \in Others(t) : Beside(t, k) => o \notin Named(k.call)
  BY <1>0, <1>1, <1>3, <1>6, NamedFields DEF Beside, Apart
<1>18. ASSUME NEW h \in Others(t)
       PROVE  FrameLive(h)' /\ Emits(h)'
  <2>1. h.call \in ObjectCalls /\ Emits(h) /\ FrameOK(h)
    BY <1>1, OtherCalls
  <2>2. ListsKept(t)
    BY <1>1 DEF ListsKept
  <2>3. alive \cap Relies(h) \subseteq alive'
    BY <1>1
  <2>4. ASSUME Beside(t, h) PROVE Leaves(h)
    <3>1. h.call.op = "copy_slot" => h.call.slot \in Slots \ {o} /\ h.call.copy \in Slots
      BY <1>17, <2>1, <2>4, CallFields, NamedFields
    <3>2. h.call.op \in LeaveOps => h.call.slot \in Slots
      BY <2>1, CallFields
    <3>3. h.call.op \in ClearOps => Range(h.todo) \subseteq Slots
      BY <2>1, ClearTodo
    <3> QED
      BY <1>1, <1>8, <1>9, <1>10, <1>11, <3>1, <3>2, <3>3 DEF Leaves
  <2>5. ASSUME Enclosing(t, h)
        PROVE  \/ Clearing(h.call.sig)'
               \/ InTurn(m_connected_slots'[h.call.sig], m_current_iterator'[h.call.sig], h.todo)
    BY <1>1, <1>10, <2>1, <2>5 DEF Emits, Enclosing
  <2> QED
    BY <1>1, <2>2, <2>3, <2>4, <2>5, OthersKeep
<1>19. \A z : ~Doing("disconnect", z, o)
  <2> SUFFICES ASSUME NEW k \in Acts, k.call.op = "disconnect", k.call.slot = o PROVE FALSE
    BY DEF Doing
  <2>1. k \in Others(t)
    BY <1>1, <1>3 DEF LeaveOps
  <2>2. Beside(t, k) /\ k.call \in ObjectCalls
    BY <1>1, <2>1, OthersBeside, OtherCalls
  <2> QED
    BY <1>17, <2>1, <2>2, NamedFields
<1>20. FrameLive(g)' /\ Emits(g)'
  <2>1. \A z \in Range(q) : z \in alive /\ (o \in Callees(z) \/ Popped(z, o))
    BY <1>3, <1>6, <1>7, <1>19 DEF Known
  <2>2. LeaveLive(c, q)'
    BY <1>0, <1>1, <1>6, <1>7, <1>8, <1>9, <1>10, <2>1 DEF LeaveLive
  <2> QED
    BY <1>1, <1>5, <2>2 DEF FrameLive, Emits, ClearOps, LeaveOps
<1> QED
  BY <1>5, <1>13, <1>14, <1>15, <1>16, <1>18, <1>20 DEF Content, SidesInv, FramesLive, Emitting

(* do_slot_disconnect erases the connections of the slot from a list.      *)
LEMMA LeaveSignalKeeps ==
  ASSUME SlotInv, Rules, TypeOK', NEW t \in Threads, LeaveSignal(t)
  PROVE  Content'
<1>0. PICK c, o, f, q, s, gone, g :
        /\ c = Call(t) /\ o = c.slot /\ f = Head(stack[t]) /\ q = Todo(t) /\ s = Head(q)
        /\ gone = Matches(m_connected_slots[s], o)
        /\ g = [call |-> c, at |-> "loop", todo |-> Tail(q)]
  OBVIOUS
<1>1. /\ stack[t] # <<>> /\ Begun(f) /\ c.op \in LeaveOps /\ f.at = "loop" /\ q # <<>>
      /\ Free(s) /\ EraseFrom(s, gone) /\ Goto(t, "loop", Tail(q))
      /\ policy' = policy /\ UNCHANGED <<m_senders, alive>>
  BY <1>0 DEF LeaveSignal, LeaveErase, In, Begun, Call, programVars
<1>2. /\ TypeOK /\ Shape /\ Locked /\ Dead /\ Listed /\ Known /\ Distinct
      /\ c \in ObjectCalls /\ Acts = {f} \cup Others(t) /\ FrameLive(f) /\ f.call = c
      /\ FrameOK(f) /\ f.todo = q
  BY <1>0, <1>1, StepFacts
<1>3. Acts' = {g} \cup Others(t) /\ g.call = c /\ g.todo = Tail(q)
  BY <1>0, <1>1, <1>2, GotoActs
<1>4. /\ o \in Slots /\ o \in alive /\ q \in Seq(Signals) /\ IsInjective(q) /\ m_senders[o] = {}
      /\ \A z \in Range(q) : z \in alive /\ (o \in Callees(z) \/ Popped(z, o))
  BY <1>0, <1>1, <1>2, CallFields DEF FrameLive, LeaveLive, FrameOK
<1>5. /\ s \in Signals /\ s \in Range(q) /\ Range(Tail(q)) = Range(q) \ {s} /\ IsInjective(Tail(q))
      /\ Range(q) \subseteq Signals
  <2>1. Range(q) \subseteq Signals
    BY <1>4 DEF Range
  <2> QED
    BY <1>0, <1>1, <1>4, <2>1, TailOnce
<1>6. m_connected_slots[s] \in Seq(Connections) /\ IsInjective(m_connected_slots[s])
  BY <1>2, <1>5 DEF TypeOK, Distinct
<1>7. /\ \A z \in Signals \ {s} : /\ m_connected_slots'[z] = m_connected_slots[z]
                                  /\ m_current_iterator'[z] = m_current_iterator[z]
      /\ Range(m_connected_slots'[s]) = Range(m_connected_slots[s]) \ gone
      /\ IsInjective(m_connected_slots'[s])
      /\ \A called : InTurn(m_connected_slots[s], m_current_iterator[s], called) =>
                     InTurn(m_connected_slots'[s], m_current_iterator'[s], called)
  <2>1. Range(m_connected_slots[s]) \subseteq Connections
    BY <1>6 DEF Range
  <2>2. End \notin gone
    BY <1>0, <2>1, SigslotAssumption DEF Matches
  <2> QED
    BY <1>1, <1>2, <1>5, <1>6, <2>2, EraseStep
<1>8. \A z \in Signals : Callees(z)' = IF z = s THEN Callees(z) \ {o} ELSE Callees(z)
  <2>1. Callees(s)' = Callees(s) \ {o}
    BY <1>0, <1>7 DEF Callees, Matches
  <2>2. \A z \in Signals \ {s} : Callees(z)' = Callees(z)
    BY <1>7 DEF Callees
  <2> QED
    BY <2>1, <2>2
<1>9. \A z, x : /\ Doing("connect", z, x) => Doing("connect", z, x)'
                /\ Doing("disconnect", z, x) => Doing("disconnect", z, x)'
                /\ Leaving(z, x) => Leaving(z, x)' \/ (z = s /\ x = o)
                /\ Popped(z, x) => Popped(z, x)'
                /\ Clearing(z) => Clearing(z)'
  BY <1>0, <1>1, <1>2, <1>3, <1>5 DEF Doing, Leaving, Popped, Clearing, ClearOps, LeaveOps
<1>10. Multi' <=> Multi
  BY <1>1 DEF Multi
<1>11. Dead'
  BY <1>1, <1>2, <1>4, <1>5, <1>7 DEF Dead
<1>12. Listed'
  <2> SUFFICES ASSUME NEW z \in Signals, NEW x \in Callees(z)'
               PROVE  /\ x \in alive
                      /\ \/ z \in m_senders[x] \/ Doing("connect", z, x)' \/ Leaving(z, x)'
                         \/ ~Multi /\ Clearing(z)'
    BY <1>1, <1>10 DEF Listed
  <2>1. x \in Callees(z) /\ ~(z = s /\ x = o)
    BY <1>8
  <2> QED
    BY <1>2, <1>9, <2>1 DEF Listed
<1>13. Known'
  <2> SUFFICES ASSUME NEW x \in Slots, NEW z \in m_senders[x]
               PROVE  z \in alive /\ (x \in Callees(z)' \/ Doing("disconnect", z, x)' \/ Popped(z, x)')
    BY <1>1 DEF Known
  <2>1. x # o /\ z \in Signals
    BY <1>2, <1>4 DEF TypeOK
  <2> QED
    BY <1>2, <1>8, <1>9, <2>1 DEF Known
<1>14. Distinct'
  BY <1>2, <1>7 DEF Distinct
<1>15. ASSUME NEW h \in Others(t)
       PROVE  FrameLive(h)' /\ Emits(h)'
  <2>1. h.call \in ObjectCalls /\ Emits(h) /\ FrameOK(h)
    BY <1>1, OtherCalls
  <2>2. ListsKept(t)
    BY <1>1, <1>7 DEF ListsKept, Free, Multi
  <2>3. alive \cap Relies(h) \subseteq alive'
    BY <1>1
  <2>4. ASSUME Beside(t, h) PROVE Leaves(h)
    <3>1. /\ Named(c) = {o} /\ Named(c) \cap Named(h.call) \cap Slots = {}
          /\ h.call.op = "copy_signal" => Callees(h.call.sig) \cap Named(c) = {}
      BY <1>0, <1>1, <1>2, <2>4, NamedFields DEF Beside, Apart
    <3>2. h.call.op \in LeaveOps => h.call.slot # o /\ Range(h.todo) \subseteq Signals
      BY <1>4, <2>1, <3>1, NamedFields DEF FrameOK, Range
    <3>3. h.call.op \in ClearOps => h.call.sig # s
      BY <1>1, <2>1, <2>4, GuardedFields DEF Beside, Free, Multi
    <3>4. h.call.op = "copy_signal" =>
            Range(m_connected_slots[h.call.sig]) \subseteq Range(m_connected_slots'[h.call.sig])
      <4> SUFFICES ASSUME h.call.op = "copy_signal"
                   PROVE  Range(m_connected_slots[h.call.sig]) \subseteq Range(m_connected_slots'[h.call.sig])
        OBVIOUS
      <4>1. h.call.sig \in Signals /\ o \notin Callees(h.call.sig)
        BY <2>1, <3>1, CallFields
      <4>2. h.call.sig = s => gone = {}
        BY <1>0, <4>1 DEF Matches, Callees
      <4> QED
        BY <1>7, <4>1, <4>2
    <3> QED
      BY <1>1, <1>8, <1>9, <3>2, <3>3, <3>4 DEF Leaves
  <2>5. ASSUME Enclosing(t, h)
        PROVE  \/ Clearing(h.call.sig)'
               \/ InTurn(m_connected_slots'[h.call.sig], m_current_iterator'[h.call.sig], h.todo)
    <3>1. h.call.op = "emit" /\ h.call.sig \in Signals
      BY <2>1, <2>5, CallFields DEF Enclosing
    <3> QED
      BY <1>7, <1>9, <2>1, <3>1 DEF Emits
  <2> QED
    BY <1>1, <2>2, <2>3, <2>4, <2>5, OthersKeep
<1>16. FrameLive(g)' /\ Emits(g)'
  <2>1. \A z \in Range(Tail(q)) : z \in alive /\ (o \in Callees(z)' \/ Popped(z, o)')
    BY <1>4, <1>5, <1>8, <1>9
  <2>2. LeaveLive(c, Tail(q))'
    BY <1>0, <1>1, <1>4, <1>5, <2>1 DEF LeaveLive
  <2> QED
    BY <1>1, <1>3, <2>2 DEF FrameLive, Emits, ClearOps, LeaveOps
<1> QED
  BY <1>3, <1>11, <1>12, <1>13, <1>14, <1>15, <1>16 DEF Content, SidesInv, FramesLive, Emitting

(* disconnect_all of a slot is done, and a slot is destroyed.              *)
LEMMA LeaveDoneKeeps ==
  ASSUME SlotInv, Rules, TypeOK', NEW t \in Threads, LeaveDone(t)
  PROVE  Content'
<1>0. PICK c, o, f : c = Call(t) /\ o = c.slot /\ f = Head(stack[t])
  OBVIOUS
<1>1. /\ stack[t] # <<>> /\ Begun(f) /\ c.op \in LeaveOps /\ f.at = "loop" /\ Todo(t) = <<>>
      /\ Return(t) /\ policy' = policy /\ m_senders[o] = {}
      /\ UNCHANGED <<m_connected_slots, m_current_iterator, m_senders>>
      /\ alive' = IF c.op = "~has_slots" THEN alive \ {o} ELSE alive
  BY <1>0 DEF LeaveDone, In, Begun, Call, programVars
<1>2. /\ TypeOK /\ Shape /\ Locked /\ Dead /\ Listed /\ Known /\ Distinct
      /\ c \in ObjectCalls /\ Acts = {f} \cup Others(t) /\ f.call = c
      /\ FrameOK(f) /\ f.todo = <<>> /\ Acts' = Others(t)
  BY <1>0, <1>1, StepFacts
<1>3. o \in Slots /\ Range(f.todo) = {} /\ m_senders \in [Slots -> SUBSET Signals]
  BY <1>0, <1>1, <1>2, CallFields DEF TypeOK, Range
<1>4. \A z : Callees(z)' = Callees(z)
  BY <1>1 DEF Callees
<1>5. ASSUME NEW h \in Others(t)
      PROVE  o \notin Named(h.call)
  <2>1. h.call \in ObjectCalls /\ (Enclosing(t, h) \/ Beside(t, h))
    BY <1>1, OtherCalls
  <2>2. o \in Named(c)
    BY <1>0, <1>1, <1>2, NamedFields
  <2>3. CASE Beside(t, h)
    BY <1>0, <1>3, <2>2, <2>3 DEF Beside, Apart
  <2>4. CASE Enclosing(t, h)
    BY <1>3, <2>1, <2>4, NamedFields, CallFields, SigslotAssumption DEF Enclosing
  <2> QED
    BY <2>1, <2>3, <2>4
<1>6. \A z, x : /\ Doing("connect", z, x) => Doing("connect", z, x)'
                /\ Doing("disconnect", z, x) => Doing("disconnect", z, x)'
                /\ Leaving(z, x) => Leaving(z, x)'
                /\ Popped(z, x) => Popped(z, x)'
                /\ Clearing(z) => Clearing(z)'
  BY <1>0, <1>1, <1>2, <1>3 DEF Doing, Leaving, Popped, Clearing, ClearOps, LeaveOps
<1>7. \A z : ~Doing("connect", z, o) /\ ~Leaving(z, o)
  <2>1. ASSUME NEW k \in Acts, k.call.slot = o, k.call.op \in {"connect"} \cup LeaveOps,
               k.call.op = "connect" \/ Range(k.todo) # {}
        PROVE  FALSE
    <3>1. k \in Others(t)
      BY <1>1, <1>2, <1>3, <2>1 DEF LeaveOps
    <3>2. k.call \in ObjectCalls
      BY <1>1, <3>1, OtherCalls
    <3>3. o \in Named(k.call)
      BY <2>1, <3>2, NamedFields
    <3> QED
      BY <1>5, <3>1, <3>3
  <2> QED
    BY <2>1 DEF Doing, Leaving
<1>8. \A z : ~(~Multi /\ Clearing(z))
  <2> SUFFICES ASSUME NEW k \in Acts, k.call.op \in ClearOps PROVE Multi
    BY DEF Clearing
  <2>1. k \in Others(t) /\ k.call.op # "emit"
    BY <1>1, <1>2 DEF LeaveOps, ClearOps
  <2> QED
    BY <1>1, <2>1, OthersBeside DEF Beside
<1>9. \A z \in Signals : o \notin Callees(z)
  BY <1>1, <1>2, <1>7, <1>8 DEF Listed
<1>10. Multi' <=> Multi
  BY <1>1 DEF Multi
<1>11. \A z \in Signals : z \in alive' <=> z \in alive
  BY <1>1, <1>3, SigslotAssumption
<1>12. Dead'
  BY <1>1, <1>2, <1>11 DEF Dead
<1>13. Listed'
  BY <1>1, <1>2, <1>4, <1>6, <1>9, <1>10 DEF Listed
<1>14. Known'
  BY <1>1, <1>2, <1>3, <1>4, <1>6, <1>11 DEF Known
<1>15. Distinct'
  BY <1>1, <1>2 DEF Distinct
<1>16. ASSUME NEW h \in Others(t)
       PROVE  FrameLive(h)' /\ Emits(h)'
  <2>1. h.call \in ObjectCalls /\ Emits(h) /\ FrameOK(h) /\ FrameLive(h)
    BY <1>1, OtherCalls
  <2>2. ListsKept(t)
    BY <1>1 DEF ListsKept
  <2>3. alive \cap Relies(h) \subseteq alive'
    <3>1. h.call.op \in LeaveOps => o \notin Range(h.todo)
      <4>1. h.call.op \in LeaveOps => Range(h.todo) \subseteq Signals
        BY <2>1 DEF FrameOK, Range
      <4> QED
        BY <1>3, <4>1, SigslotAssumption
    <3>2. h.call.op \in ClearOps => o \notin Range(h.todo)
      <4> SUFFICES ASSUME h.call.op \in ClearOps, o \in Range(h.todo) PROVE FALSE
        OBVIOUS
      <4>1. h.call.op # "emit"
        BY DEF ClearOps
      <4>2. Multi
        BY <1>1, <4>1, OthersBeside DEF Beside
      <4> QED
        BY <1>1, <1>7, <2>1, <4>2 DEF FrameLive, ClearLive
    <3> QED
      BY <1>1, <1>5, <3>1, <3>2 DEF Relies
  <2>4. ASSUME Beside(t, h) PROVE Leaves(h)
    BY <1>1, <1>4, <1>6 DEF Leaves
  <2>5. ASSUME Enclosing(t, h)
        PROVE  \/ Clearing(h.call.sig)'
               \/ InTurn(m_connected_slots'[h.call.sig], m_current_iterator'[h.call.sig], h.todo)
    BY <1>1, <1>6, <2>1, <2>5 DEF Emits, Enclosing
  <2> QED
    BY <1>1, <2>2, <2>3, <2>4, <2>5, OthersKeep
<1> QED
  BY <1>2, <1>12, <1>13, <1>14, <1>15, <1>16 DEF Content, SidesInv, FramesLive, Emitting

(* A copy constructor begins: the new object has no peers yet.             *)
LEMMA CopyLockKeeps ==
  ASSUME SlotInv, Rules, TypeOK', NEW t \in Threads, CopyLock(t)
  PROVE  Content'
<1>0. PICK c, x, f : c = Call(t) /\ x = c.copy /\ f = Head(stack[t])
  OBVIOUS
<1>1. /\ stack[t] # <<>> /\ ~Begun(f) /\ c.op \in CopyOps /\ policy' = policy
      /\ UNCHANGED <<m_connected_slots, m_current_iterator, m_senders>>
      /\ alive' = alive \cup {x}
  BY <1>0 DEF CopyLock, In, Begun, Call, programVars
<1>2. PICK q : /\ Goto(t, "loop", q)
               /\ c.op = "copy_signal" => q = m_connected_slots[c.sig]
               /\ c.op = "copy_slot" => q \in Orders(m_senders[c.slot])
  BY <1>0 DEF CopyLock
<1>3. /\ TypeOK /\ Shape /\ Locked /\ Dead /\ Listed /\ Known /\ Distinct
      /\ c \in ObjectCalls /\ Acts = Others(t) /\ MayCall(c)
  BY <1>0, <1>1, StepFacts
<1>4. PICK g : g = [call |-> c, at |-> "loop", todo |-> q]
  OBVIOUS
<1>5. Acts' = {g} \cup Others(t) /\ g.call = c /\ g.todo = q
  BY <1>0, <1>1, <1>2, <1>3, <1>4, GotoActs
<1>6. \A z : Callees(z)' = Callees(z)
  BY <1>1 DEF Callees
<1>7. \A z, y : /\ Doing("connect", z, y) => Doing("connect", z, y)'
                /\ Doing("disconnect", z, y) => Doing("disconnect", z, y)'
                /\ Leaving(z, y) => Leaving(z, y)'
                /\ Popped(z, y) => Popped(z, y)'
                /\ Clearing(z) => Clearing(z)'
  BY <1>3, <1>5, PendingKept
<1>8. Multi' <=> Multi
  BY <1>1 DEF Multi
<1>9. Dead' /\ Distinct'
  BY <1>1, <1>3 DEF Dead, Distinct
<1>10. Listed'
  BY <1>1, <1>3, <1>6, <1>7, <1>8 DEF Listed
<1>11. Known'
  BY <1>1, <1>3, <1>6, <1>7 DEF Known
<1>12. ASSUME NEW h \in Others(t)
       PROVE  FrameLive(h)' /\ Emits(h)'
  <2>1. Emits(h)
    BY <1>1, OtherCalls
  <2>2. ListsKept(t)
    BY <1>1 DEF ListsKept
  <2>3. alive \cap Relies(h) \subseteq alive'
    BY <1>1
  <2>4. Leaves(h)
    BY <1>1, <1>6, <1>7 DEF Leaves
  <2>5. ASSUME Enclosing(t, h)
        PROVE  \/ Clearing(h.call.sig)'
               \/ InTurn(m_connected_slots'[h.call.sig], m_current_iterator'[h.call.sig], h.todo)
    BY <1>1, <1>7, <2>1, <2>5 DEF Emits, Enclosing
  <2> QED
    BY <1>1, <2>2, <2>3, <2>4, <2>5, OthersKeep
<1>13. FrameLive(g)' /\ Emits(g)'
  <2>1. CASE c.op = "copy_signal"
    <3>1. c.sig \in Signals /\ x \in Signals /\ c.sig # x /\ x \notin alive
      BY <1>0, <1>3, <2>1, CallFields, NamedFields
    <3>2. Range(m_connected_slots[x]) = {}
      BY <1>3, <3>1 DEF Dead, Range
    <3>3. CopySignalLive(c, q)'
      BY <1>0, <1>1, <1>2, <1>3, <2>1, <3>1, <3>2 DEF CopySignalLive, Distinct
    <3> QED
      BY <1>5, <2>1, <3>3 DEF FrameLive, Emits, ClearOps, LeaveOps
  <2>2. CASE c.op = "copy_slot"
    <3>1. c.slot \in Slots /\ x \in Slots /\ c.slot # x /\ x \notin alive
      BY <1>0, <1>3, <2>2, CallFields, NamedFields
    <3>2. m_senders[x] = {} /\ m_senders[c.slot] \subseteq Signals
      BY <1>3, <3>1 DEF Dead, TypeOK
    <3>3. Range(q) = m_senders[c.slot] /\ IsInjective(q)
      BY <1>2, <2>2, <3>2, OrdersType, SigslotAssumption
    <3>4. CopySlotLive(c, q)'
      BY <1>0, <1>1, <3>1, <3>2, <3>3 DEF CopySlotLive
    <3> QED
      BY <1>5, <2>2, <3>4 DEF FrameLive, Emits, ClearOps, LeaveOps
  <2> QED
    BY <1>1, <2>1, <2>2 DEF CopyOps
<1> QED
  BY <1>5, <1>9, <1>10, <1>11, <1>12, <1>13 DEF Content, SidesInv, FramesLive, Emitting

(* The copy constructor of a signal makes one connection.                  *)
LEMMA CopySignalKeeps ==
  ASSUME SlotInv, Rules, TypeOK', NEW t \in Threads, CopySignal(t)
  PROVE  Content'
<1>0. PICK c, s, x, f, q, n, o, g :
        /\ c = Call(t) /\ s = c.sig /\ x = c.copy /\ f = Head(stack[t]) /\ q = Todo(t)
        /\ n = Head(q) /\ o = n.slot
        /\ g = [call |-> c, at |-> "loop", todo |-> Tail(q)]
  OBVIOUS
<1>1. /\ stack[t] # <<>> /\ Begun(f) /\ c.op = "copy_signal" /\ f.at = "loop" /\ q # <<>>
      /\ Goto(t, "loop", Tail(q)) /\ policy' = policy
      /\ m_senders' = [m_senders EXCEPT ![o] = @ \cup {x}]
      /\ m_connected_slots' = [m_connected_slots EXCEPT ![x] = Append(@, n)]
      /\ UNCHANGED <<m_current_iterator, alive>>
  BY <1>0 DEF CopySignal, In, Begun, Call, programVars
<1>2. /\ TypeOK /\ Shape /\ Locked /\ Dead /\ Listed /\ Known /\ Distinct
      /\ c \in ObjectCalls /\ Acts = {f} \cup Others(t) /\ FrameLive(f) /\ f.call = c
      /\ FrameOK(f) /\ f.todo = q
  BY <1>0, <1>1, StepFacts
<1>3. Acts' = {g} \cup Others(t) /\ g.call = c /\ g.todo = Tail(q)
  BY <1>0, <1>1, <1>2, GotoActs
<1>4. /\ s \in Signals /\ x \in Signals /\ x \in alive /\ s # x /\ Guarded(c) = x
      /\ q \in Seq(Connections) /\ IsInjective(q)
      /\ Range(q) \subseteq Range(m_connected_slots[s])
      /\ Range(q) \cap Range(m_connected_slots[x]) = {}
  BY <1>0, <1>1, <1>2, CallFields, GuardedFields DEF FrameLive, CopySignalLive, FrameOK, CopyOps
<1>5. n \in Connections /\ n \in Range(q) /\ Range(Tail(q)) = Range(q) \ {n} /\ IsInjective(Tail(q))
  BY <1>0, <1>1, <1>4, TailOnce
<1>6. o \in Slots /\ o \in Callees(s) /\ o \in alive
  BY <1>0, <1>2, <1>4, <1>5 DEF Callees, Connections, Listed
<1>7. /\ m_connected_slots \in [Signals -> Seq(Connections)] /\ m_connected_slots[x] \in Seq(Connections)
      /\ m_senders \in [Slots -> SUBSET Signals]
  BY <1>2, <1>4 DEF TypeOK
<1>8. /\ m_connected_slots'[x] = Append(m_connected_slots[x], n)
      /\ \A z \in Signals \ {x} : m_connected_slots'[z] = m_connected_slots[z]
  BY <1>1, <1>4, <1>7
<1>9. /\ Range(m_connected_slots'[x]) = Range(m_connected_slots[x]) \cup {n}
      /\ IsInjective(m_connected_slots'[x])
  BY <1>2, <1>4, <1>5, <1>7, <1>8, AppendOne DEF Distinct
<1>10. \A z \in Signals : Callees(z)' = IF z = x THEN Callees(z) \cup {o} ELSE Callees(z)
  <2>1. Callees(x)' = Callees(x) \cup {o}
    BY <1>0, <1>9 DEF Callees
  <2>2. \A z \in Signals \ {x} : Callees(z)' = Callees(z)
    BY <1>8 DEF Callees
  <2> QED
    BY <2>1, <2>2
<1>11. \A y \in Slots : m_senders'[y] = IF y = o THEN m_senders[y] \cup {x} ELSE m_senders[y]
  BY <1>1, <1>7
<1>12. \A z, y : /\ Doing("connect", z, y) => Doing("connect", z, y)'
                 /\ Doing("disconnect", z, y) => Doing("disconnect", z, y)'
                 /\ Leaving(z, y) => Leaving(z, y)'
                 /\ Popped(z, y) => Popped(z, y)'
                 /\ Clearing(z) => Clearing(z)'
  BY <1>1, <1>2, <1>3, PendingKept DEF CopyOps
<1>13. Multi' <=> Multi
  BY <1>1 DEF Multi
<1>14. Dead'
  BY <1>1, <1>2, <1>4, <1>6, <1>8, <1>11 DEF Dead
<1>15. Listed'
  <2> SUFFICES ASSUME NEW z \in Signals, NEW y \in Callees(z)'
               PROVE  /\ y \in alive
                      /\ \/ z \in m_senders'[y] \/ Doing("connect", z, y)' \/ Leaving(z, y)'
                         \/ ~Multi /\ Clearing(z)'
    BY <1>1, <1>13 DEF Listed
  <2>1. y \in Callees(z) \/ (z = x /\ y = o)
    BY <1>10
  <2>2. y \in Slots
    BY <1>2, <1>6, <2>1, CalleesType
  <2>3. m_senders[y] \subseteq m_senders'[y] /\ (y = o => x \in m_senders'[y])
    BY <1>11, <2>2
  <2> QED
    BY <1>2, <1>6, <1>12, <2>1, <2>3 DEF Listed
<1>16. Known'
  <2> SUFFICES ASSUME NEW y \in Slots, NEW z \in m_senders'[y]
               PROVE  z \in alive /\ (y \in Callees(z)' \/ Doing("disconnect", z, y)' \/ Popped(z, y)')
    BY <1>1 DEF Known
  <2>1. z \in m_senders[y] \/ (z = x /\ y = o)
    BY <1>11
  <2>2. z \in Signals
    BY <1>4, <1>7, <2>1
  <2> QED
    BY <1>2, <1>4, <1>10, <1>12, <2>1, <2>2 DEF Known
<1>17. Distinct'
  BY <1>2, <1>8, <1>9 DEF Distinct
<1>18. ASSUME NEW h \in Others(t)
       PROVE  FrameLive(h)' /\ Emits(h)'
  <2>1. h.call \in ObjectCalls /\ Emits(h) /\ FrameOK(h)
    BY <1>1, OtherCalls
  <2>2. ListsKept(t)
    BY <1>0, <1>1, <1>4, <1>8 DEF ListsKept
  <2>3. alive \cap Relies(h) \subseteq alive'
    BY <1>1
  <2>4. ASSUME Beside(t, h) PROVE Leaves(h)
    <3>1. o \notin Named(h.call)
      BY <1>0, <1>1, <1>6, <2>4 DEF Beside, Apart
    <3>2. /\ h.call.op \in LeaveOps => /\ h.call.slot \in Slots \ {o}
                                       /\ Range(h.todo) \subseteq Signals
          /\ h.call.op = "copy_slot" => h.call.slot \in Slots /\ h.call.copy \in Slots \ {o}
          /\ h.call.op = "copy_signal" => h.call.sig \in Signals
      <4>1. h.call.op \in LeaveOps => Range(h.todo) \subseteq Signals
        BY <2>1 DEF FrameOK, Range
      <4> QED
        BY <2>1, <3>1, <4>1, NamedFields, CallFields
    <3>3. h.call.op \in ClearOps => Range(h.todo) \subseteq Slots
      BY <2>1, ClearTodo
    <3> QED
      BY <1>8, <1>9, <1>10, <1>11, <1>12, <3>2, <3>3 DEF Leaves
  <2>5. ASSUME Enclosing(t, h)
        PROVE  \/ Clearing(h.call.sig)'
               \/ InTurn(m_connected_slots'[h.call.sig], m_current_iterator'[h.call.sig], h.todo)
    <3>1. h.call.op = "emit" /\ h.call.sig \in Signals /\ h.call.sig # x
      BY <1>0, <1>1, <1>4, <2>1, <2>5, CallFields DEF Enclosing
    <3> QED
      BY <1>1, <1>8, <1>12, <2>1, <3>1 DEF Emits
  <2> QED
    BY <1>1, <2>2, <2>3, <2>4, <2>5, OthersKeep
<1>19. FrameLive(g)' /\ Emits(g)'
  <2>1. CopySignalLive(c, Tail(q))'
    BY <1>0, <1>1, <1>4, <1>5, <1>8, <1>9 DEF CopySignalLive
  <2> QED
    BY <1>1, <1>3, <2>1 DEF FrameLive, Emits, ClearOps, LeaveOps
<1> QED
  BY <1>3, <1>14, <1>15, <1>16, <1>17, <1>18, <1>19 DEF Content, SidesInv, FramesLive, Emitting

(* Connections of copies at the end of a list.                             *)
LEMMA AppendMany ==
  ASSUME NEW q \in Seq(Connections), NEW d \in Seq(Connections)
  PROVE  /\ Range(q \o d) = Range(q) \cup Range(d)
         /\ IsInjective(q) /\ IsInjective(d) /\ Range(q) \cap Range(d) = {} => IsInjective(q \o d)
         /\ \A cur, called : InTurn(q, cur, called) /\ (\A n \in Range(d) : n.slot \in Copies)
                             => InTurn(q \o d, cur, called)
<1> DEFINE r == q \o d
<1>1. /\ DOMAIN q = 1..Len(q) /\ Len(q) \in Nat /\ DOMAIN r = 1..(Len(q) + Len(d)) /\ Len(d) \in Nat
      /\ \A i \in DOMAIN q : r[i] = q[i]
      /\ \A i \in DOMAIN r : i \notin DOMAIN q => i - Len(q) \in DOMAIN d /\ r[i] = d[i - Len(q)]
  OBVIOUS
<1>2. Range(r) = Range(q) \cup Range(d)
  BY RangeConcatenation
<1> HIDE DEF r
<1>3. ASSUME IsInjective(q), IsInjective(d), Range(q) \cap Range(d) = {}
      PROVE  IsInjective(r)
  <2> SUFFICES ASSUME NEW i \in DOMAIN r, NEW j \in DOMAIN r, r[i] = r[j]
               PROVE  i = j
    BY DEF IsInjective
  <2>1. /\ i \in DOMAIN q => r[i] \in Range(q)
        /\ j \in DOMAIN q => r[j] \in Range(q)
        /\ i \notin DOMAIN q => r[i] \in Range(d)
        /\ j \notin DOMAIN q => r[j] \in Range(d)
    BY <1>1 DEF Range
  <2>2. i \in DOMAIN q <=> j \in DOMAIN q
    BY <1>3, <2>1
  <2>3. CASE i \in DOMAIN q
    BY <1>1, <1>3, <2>2, <2>3 DEF IsInjective
  <2>4. CASE i \notin DOMAIN q
    <3>1. i - Len(q) = j - Len(q)
      BY <1>1, <1>3, <2>2, <2>4 DEF IsInjective
    <3> QED
      BY <1>1, <3>1
  <2> QED
    BY <2>3, <2>4
<1>4. ASSUME NEW cur, NEW called, InTurn(q, cur, called), \A n \in Range(d) : n.slot \in Copies
      PROVE  InTurn(r, cur, called)
  <2>1. cur \in Range(r) \cup {End}
    BY <1>2, <1>4 DEF InTurn
  <2>2. ASSUME NEW i \in DOMAIN r, r[i].slot \notin Copies
        PROVE  r[i] \in Range(called) <=> Passed(r, cur, i)
    <3>1. i \in DOMAIN q
      <4>1. i \notin DOMAIN q => r[i] \in Range(d)
        BY <1>1 DEF Range
      <4> QED
        BY <1>4, <2>2, <4>1
    <3>2. r[i] = q[i] /\ \A k \in 1..i : k \in DOMAIN q /\ r[k] = q[k]
      BY <1>1, <3>1
    <3>3. Passed(r, cur, i) <=> Passed(q, cur, i)
      BY <3>2 DEF Passed
    <3> QED
      BY <1>4, <2>2, <3>1, <3>2, <3>3 DEF InTurn
  <2> QED
    BY <2>1, <2>2 DEF InTurn
<1> QED
  BY <1>2, <1>3, <1>4 DEF r

(* A call that names a slot has it to itself.                              *)
LEMMA SlotToItself ==
  ASSUME SlotInv, Rules, NEW t \in Threads, stack[t] # <<>>,
         NEW o \in Named(Call(t)) \cap Slots,
         NEW h \in Others(t)
  PROVE  o \notin Named(h.call)
<1>1. h.call \in ObjectCalls /\ (Enclosing(t, h) \/ Beside(t, h))
  BY OtherCalls
<1>2. CASE Beside(t, h)
  BY <1>2 DEF Beside, Apart
<1>3. CASE Enclosing(t, h)
  BY <1>1, <1>3, NamedFields, CallFields, SigslotAssumption DEF Enclosing
<1> QED
  BY <1>1, <1>2, <1>3

(* The copy constructor of a slot is added to the list of one signal.      *)
LEMMA CopySlotKeeps ==
  ASSUME SlotInv, Rules, TypeOK', NEW t \in Threads, CopySlot(t)
  PROVE  Content'
<1>0. PICK c, o, x, f, q, s, g :
        /\ c = Call(t) /\ o = c.slot /\ x = c.copy /\ f = Head(stack[t]) /\ q = Todo(t)
        /\ s = Head(q)
        /\ g = [call |-> c, at |-> "loop", todo |-> Tail(q)]
  OBVIOUS
<1>1. /\ stack[t] # <<>> /\ Begun(f) /\ c.op = "copy_slot" /\ f.at = "loop" /\ q # <<>>
      /\ Free(s) /\ Goto(t, "loop", Tail(q)) /\ policy' = policy
      /\ m_senders' = [m_senders EXCEPT ![x] = @ \cup {s}]
      /\ UNCHANGED <<m_current_iterator, alive>>
  BY <1>0 DEF CopySlot, In, Begun, Call, programVars
<1>2. /\ TypeOK /\ Shape /\ Locked /\ Dead /\ Listed /\ Known /\ Distinct
      /\ c \in ObjectCalls /\ Acts = {f} \cup Others(t) /\ FrameLive(f) /\ f.call = c
      /\ FrameOK(f) /\ f.todo = q
  BY <1>0, <1>1, StepFacts
<1>3. Acts' = {g} \cup Others(t) /\ g.call = c /\ g.todo = Tail(q)
  BY <1>0, <1>1, <1>2, GotoActs
<1>4. /\ o \in Slots /\ x \in Slots /\ x \in Copies /\ x \in alive /\ o # x /\ Named(c) = {o, x}
      /\ q \in Seq(Signals) /\ IsInjective(q)
      /\ Range(q) \subseteq m_senders[o] /\ Range(q) \cap m_senders[x] = {}
  BY <1>0, <1>1, <1>2, CallFields, NamedFields DEF FrameLive, CopySlotLive, FrameOK
<1>5. s \in Signals /\ s \in Range(q) /\ Range(Tail(q)) = Range(q) \ {s} /\ IsInjective(Tail(q))
  BY <1>0, <1>1, <1>4, TailOnce
<1>6. \A k \in Others(t) : o \notin Named(k.call) /\ x \notin Named(k.call) /\ k.call \in ObjectCalls
  BY <1>0, <1>1, <1>4, SlotToItself, OtherCalls
<1>7. o \in Callees(s) /\ s \in alive
  <2>1. ~Doing("disconnect", s, o)
    <3> SUFFICES ASSUME NEW k \in Acts, k.call.op = "disconnect", k.call.slot = o PROVE FALSE
      BY DEF Doing
    <3>1. k \in Others(t)
      BY <1>1, <1>2
    <3> QED
      BY <1>6, <3>1, NamedFields
  <2>2. ~Popped(s, o)
    <3> SUFFICES ASSUME NEW k \in Acts, k.call.op \in ClearOps, k.call.sig = s PROVE FALSE
      BY DEF Popped
    <3>1. k \in Others(t) /\ k.call.op # "emit"
      BY <1>1, <1>2 DEF ClearOps
    <3>2. Apart(c, k.call)
      BY <1>0, <1>1, <3>1, OthersBeside DEF Beside
    <3> QED
      BY <1>0, <1>1, <1>4, <1>5, <3>2 DEF Apart
  <2> QED
    BY <1>2, <1>4, <1>5, <2>1, <2>2 DEF Known
<1>8. x \notin Callees(s)
  <2>1. ASSUME NEW k \in Acts, k.call.slot = x, k.call.op \in {"connect"} \cup LeaveOps
        PROVE  FALSE
    <3>1. k \in Others(t)
      BY <1>1, <1>2, <2>1 DEF LeaveOps
    <3> QED
      BY <1>6, <2>1, <3>1, NamedFields
  <2>2. ~Doing("connect", s, x) /\ ~Leaving(s, x)
    BY <2>1 DEF Doing, Leaving
  <2>3. ASSUME NEW k \in Acts, k.call.op \in ClearOps PROVE Multi
    <3>1. k \in Others(t) /\ k.call.op # "emit"
      BY <1>1, <1>2, <2>3 DEF ClearOps
    <3> QED
      BY <1>1, <3>1, OthersBeside DEF Beside
  <2> QED
    BY <1>2, <1>4, <1>5, <2>2, <2>3 DEF Listed, Clearing
<1>9. /\ m_connected_slots \in [Signals -> Seq(Connections)] /\ m_connected_slots[s] \in Seq(Connections)
      /\ m_senders \in [Slots -> SUBSET Signals] /\ IsInjective(m_connected_slots[s])
  BY <1>2, <1>5 DEF TypeOK, Distinct
<1>10. PICK r \in Duplicates(m_connected_slots[s], o, x) :
         m_connected_slots' = [m_connected_slots EXCEPT ![s] = r]
  BY <1>0 DEF CopySlot
<1>11. PICK d \in Seq(Connections) :
         /\ r = m_connected_slots[s] \o d
         /\ Range(d) = {[slot |-> x, id |-> n.id] : n \in {m \in Range(m_connected_slots[s]) : m.slot = o}}
         /\ IsInjective(d)
  <2>1. \E d \in Seq(Connections) :
          /\ r = m_connected_slots[s] \o d
          /\ Range(d) = {[slot |-> x, id |-> n.id] : n \in {m \in Range(m_connected_slots[s]) : m.slot = o}}
          /\ IsInjective(m_connected_slots[s]) => IsInjective(d)
    <3>1. PICK Q : Q = m_connected_slots[s]
      OBVIOUS
    <3>2. Q \in Seq(Connections) /\ r \in Duplicates(Q, o, x)
      BY <1>9, <1>10, <3>1
    <3>3. o \in Slots /\ x \in Slots
      BY <1>4
    <3>4. \E d \in Seq(Connections) :
            /\ r = Q \o d
            /\ Range(d) = {[slot |-> x, id |-> n.id] : n \in {m \in Range(Q) : m.slot = o}}
            /\ IsInjective(Q) => IsInjective(d)
      BY <3>2, <3>3, DuplicatesAre
    <3> QED
      BY <3>1, <3>4
  <2> QED
    BY <1>9, <2>1, Zenon
<1>12. (\A n \in Range(d) : n.slot = x) /\ Range(d) # {}
  <2>1. \A n \in Range(d) : n.slot = x
    BY <1>11
  <2>2. PICK m \in Range(m_connected_slots[s]) : m.slot = o
    BY <1>7 DEF Callees
  <2>3. [slot |-> x, id |-> m.id] \in Range(d)
    BY <1>11, <2>2
  <2> QED
    BY <2>1, <2>3
<1>13. /\ m_connected_slots'[s] = m_connected_slots[s] \o d
       /\ \A z \in Signals \ {s} : m_connected_slots'[z] = m_connected_slots[z]
  BY <1>5, <1>9, <1>10, <1>11
<1>14. /\ Range(m_connected_slots'[s]) = Range(m_connected_slots[s]) \cup Range(d)
       /\ IsInjective(m_connected_slots'[s])
       /\ \A called : InTurn(m_connected_slots[s], m_current_iterator[s], called) =>
                      InTurn(m_connected_slots'[s], m_current_iterator[s], called)
  <2>1. Range(m_connected_slots[s]) \cap Range(d) = {}
    BY <1>8, <1>12 DEF Callees
  <2> QED
    BY <1>4, <1>9, <1>11, <1>12, <1>13, <2>1, AppendMany
<1>15. \A z \in Signals : Callees(z)' = IF z = s THEN Callees(z) \cup {x} ELSE Callees(z)
  <2>1. Callees(s)' = Callees(s) \cup {x}
    BY <1>12, <1>14 DEF Callees
  <2>2. \A z \in Signals \ {s} : Callees(z)' = Callees(z)
    BY <1>13 DEF Callees
  <2> QED
    BY <2>1, <2>2
<1>16. \A y \in Slots : m_senders'[y] = IF y = x THEN m_senders[y] \cup {s} ELSE m_senders[y]
  BY <1>1, <1>9
<1>17. \A z, y : /\ Doing("connect", z, y) => Doing("connect", z, y)'
                 /\ Doing("disconnect", z, y) => Doing("disconnect", z, y)'
                 /\ Leaving(z, y) => Leaving(z, y)'
                 /\ Popped(z, y) => Popped(z, y)'
                 /\ Clearing(z) => Clearing(z)'
  BY <1>1, <1>2, <1>3, PendingKept DEF CopyOps
<1>18. Multi' <=> Multi
  BY <1>1 DEF Multi
<1>19. Dead'
  BY <1>1, <1>2, <1>4, <1>7, <1>13, <1>16 DEF Dead
<1>20. Listed'
  <2> SUFFICES ASSUME NEW z \in Signals, NEW y \in Callees(z)'
               PROVE  /\ y \in alive
                      /\ \/ z \in m_senders'[y] \/ Doing("connect", z, y)' \/ Leaving(z, y)'
                         \/ ~Multi /\ Clearing(z)'
    BY <1>1, <1>18 DEF Listed
  <2>1. y \in Callees(z) \/ (z = s /\ y = x)
    BY <1>15
  <2>2. y \in Slots
    BY <1>2, <1>4, <2>1, CalleesType
  <2>3. m_senders[y] \subseteq m_senders'[y] /\ (y = x => s \in m_senders'[y])
    BY <1>16, <2>2
  <2> QED
    BY <1>2, <1>4, <1>17, <2>1, <2>3 DEF Listed
<1>21. Known'
  <2> SUFFICES ASSUME NEW y \in Slots, NEW z \in m_senders'[y]
               PROVE  z \in alive /\ (y \in Callees(z)' \/ Doing("disconnect", z, y)' \/ Popped(z, y)')
    BY <1>1 DEF Known
  <2>1. z \in m_senders[y] \/ (z = s /\ y = x)
    BY <1>16
  <2>2. z \in Signals
    BY <1>5, <1>9, <2>1
  <2> QED
    BY <1>2, <1>7, <1>15, <1>17, <2>1, <2>2 DEF Known
<1>22. Distinct'
  BY <1>2, <1>13, <1>14 DEF Distinct
<1>23. ASSUME NEW h \in Others(t)
       PROVE  FrameLive(h)' /\ Emits(h)'
  <2>1. h.call \in ObjectCalls /\ Emits(h) /\ FrameOK(h)
    BY <1>1, OtherCalls
  <2>2. ListsKept(t)
    BY <1>1, <1>13 DEF ListsKept, Free, Multi
  <2>3. alive \cap Relies(h) \subseteq alive'
    BY <1>1
  <2>4. ASSUME Beside(t, h) PROVE Leaves(h)
    <3>1. h.call.op \in LeaveOps => Range(h.todo) \subseteq Signals
      BY <2>1 DEF FrameOK, Range
    <3>2. /\ h.call.op \in LeaveOps => h.call.slot \in Slots \ {x}
          /\ h.call.op = "copy_slot" => h.call.slot \in Slots /\ h.call.copy \in Slots \ {x}
          /\ h.call.op = "copy_signal" => h.call.sig \in Signals
      BY <1>6, <2>1, NamedFields, CallFields
    <3>3. h.call.op \in ClearOps => Range(h.todo) \subseteq Slots
      BY <2>1, ClearTodo
    <3> QED
      BY <1>13, <1>14, <1>15, <1>16, <1>17, <3>1, <3>2, <3>3 DEF Leaves
  <2>5. ASSUME Enclosing(t, h)
        PROVE  \/ Clearing(h.call.sig)'
               \/ InTurn(m_connected_slots'[h.call.sig], m_current_iterator'[h.call.sig], h.todo)
    <3>1. h.call.op = "emit" /\ h.call.sig \in Signals
      BY <2>1, <2>5, CallFields DEF Enclosing
    <3> QED
      BY <1>1, <1>13, <1>14, <1>17, <2>1, <3>1 DEF Emits
  <2> QED
    BY <1>1, <2>2, <2>3, <2>4, <2>5, OthersKeep
<1>24. FrameLive(g)' /\ Emits(g)'
  <2>1. CopySlotLive(c, Tail(q))'
    BY <1>0, <1>1, <1>4, <1>5, <1>16 DEF CopySlotLive
  <2> QED
    BY <1>1, <1>3, <2>1 DEF FrameLive, Emits, ClearOps, LeaveOps
<1> QED
  BY <1>3, <1>19, <1>20, <1>21, <1>22, <1>23, <1>24 DEF Content, SidesInv, FramesLive, Emitting

-----------------------------------------------------------------------------
(* The invariant.                                                          *)

(* Every action keeps the two sides and what the calls rely on.            *)
LEMMA ContentStep ==
  ASSUME SlotInv, Rules, TypeOK', NEW t \in Threads, Step(t)
  PROVE  Content'
<1>1. CASE TakeCall(t) \/ EmitDone(t) \/ CopyDone(t)
  BY <1>1, QuietKeeps
<1>2. CASE ConnectSignal(t) \/ ConnectSlot(t)
  BY <1>2, ConnectSignalKeeps, ConnectSlotKeeps
<1>3. CASE DisconnectSignal(t)
  <2>1. CASE FirstMatch(m_connected_slots[Call(t).sig], Call(t).slot) = {}
    <3>1. Return(t) /\ UNCHANGED objectVars
      BY <1>3, <2>1 DEF DisconnectSignal
    <3> QED
      BY <1>3, <3>1, QuietKeeps
  <2>2. CASE FirstMatch(m_connected_slots[Call(t).sig], Call(t).slot) # {}
    BY <1>3, <2>2, DisconnectSignalKeeps
  <2> QED
    BY <2>1, <2>2
<1>4. CASE DisconnectSlot(t)
  BY <1>4, DisconnectSlotKeeps
<1>5. CASE ClearLock(t) \/ LeaveLock(t)
  BY <1>5, LockKeeps
<1>6. CASE ClearPop(t) \/ ClearSlot(t) \/ ClearDone(t)
  BY <1>6, ClearPopKeeps, ClearSlotKeeps, ClearDoneKeeps
<1>7. CASE LeaveSwap(t) \/ LeaveSignal(t) \/ LeaveDone(t)
  BY <1>7, LeaveSwapKeeps, LeaveSignalKeeps, LeaveDoneKeeps
<1>8. CASE CopyLock(t) \/ CopySignal(t) \/ CopySlot(t)
  BY <1>8, CopyLockKeeps, CopySignalKeeps, CopySlotKeeps
<1>9. CASE EmitLock(t) \/ EmitCall(t) \/ Callback(t)
  BY <1>9, EmitLockKeeps, EmitCallKeeps, CallbackKeeps
<1> QED
  BY <1>1, <1>2, <1>3, <1>4, <1>5, <1>6, <1>7, <1>8, <1>9 DEF Step

(* The invariant holds at first: no call has begun.                        *)
LEMMA InitInv ==
  ASSUME Init
  PROVE  SlotInv
<1>1. TypeOK /\ Shape /\ \A t \in Threads : stack[t] = <<>>
  BY InitTypes
<1>2. Acts = {} /\ \A t \in Threads : Active(t) = {}
  BY <1>1 DEF Acts, Active, Range
<1>3. Locked
  BY <1>1, <1>2 DEF Locked, Nested
<1>4. \A s \in Signals : m_connected_slots[s] = <<>> /\ Callees(s) = {}
  BY DEF Init, Callees, Range
<1>5. \A o \in Slots : m_senders[o] = {}
  BY DEF Init
<1>6. Dead /\ Listed /\ Known /\ Distinct
  BY <1>4, <1>5 DEF Dead, Listed, Known, Distinct, IsInjective
<1>7. FramesLive /\ Emitting
  BY <1>2 DEF FramesLive, Emitting
<1> QED
  BY <1>1, <1>3, <1>6, <1>7 DEF SlotInv, SidesInv

(* Every step of a program that keeps the rules keeps the invariant.       *)
LEMMA NextInv ==
  ASSUME SlotInv, Rules, [Next]_vars
  PROVE  SlotInv'
<1>1. TypeOK' /\ Shape'
  BY TypesStep DEF SlotInv
<1>2. CASE Next
  <2>1. PICK t \in Threads : Step(t)
    BY <1>2 DEF Next
  <2> QED
    BY <1>1, <2>1, LockedStep, ContentStep DEF SlotInv, Content
<1>3. CASE UNCHANGED vars
  <2>1. UNCHANGED <<m_connected_slots, m_senders, alive, m_current_iterator, policy, owner, stack>>
    BY <1>3 DEF vars, objectVars, programVars
  <2>2. Acts' = Acts
    BY <2>1 DEF Acts, Active
  <2>3. SidesInv' /\ FramesLive' /\ Emitting'
    BY <2>1, <2>2, QuietStep DEF FramesLive, Emitting
  <2>4. Locked'
    BY <2>1 DEF SlotInv, Locked, Multi, Active, Nested, Exclusive
  <2> QED
    BY <1>1, <2>3, <2>4 DEF SlotInv
<1> QED
  BY <1>2, <1>3

(* Of a program that keeps the rules of signals and slots, whatever its    *)
(* threads, signals, slots and callbacks: both sides of every connection   *)
(* and the calls under way fit together in every state.                    *)
THEOREM SlotInvariant == SafetySpec /\ []Rules => []SlotInv
<1>1. Init => SlotInv
  BY InitInv
<1>2. SlotInv /\ Rules /\ [Next]_vars => SlotInv'
  BY NextInv
<1> QED
  BY <1>1, <1>2, PTL DEF SafetySpec

-----------------------------------------------------------------------------
(* What the invariant says to a caller.                                    *)

(* What the innermost call of t reaches exists.                            *)
LEMMA UsesAlive ==
  ASSUME SlotInv, Rules, NEW t \in Threads
  PROVE  Uses(t) \subseteq alive
<1> SUFFICES ASSUME stack[t] # <<>> PROVE Uses(t) \subseteq alive
  BY DEF Uses
<1>0. PICK f, c : f = Head(stack[t]) /\ c = f.call
  OBVIOUS
<1>1. TypeOK /\ Shape /\ Listed /\ Known
  BY DEF SlotInv, SidesInv
<1>2. FrameOK(f) /\ c \in ObjectCalls /\ c = Call(t) /\ f.todo = Todo(t)
  BY <1>0, <1>1, HeadOK
<1>3. Begun(f) => f \in Active(t) /\ FrameLive(f)
  <2>1. f \in Range(stack[t])
    BY <1>0, <1>1, StackParts
  <2> QED
    BY <2>1 DEF Active, Acts, SlotInv, FramesLive
<1>4. ~Begun(f) => Range(f.todo) = {} /\ MayCall(c) /\ f.at = "start"
  <2>1. Range(<<>>) = {}
    BY DEF Range
  <2> QED
    BY <1>0, <1>2, <2>1 DEF Begun, FrameOK, Rules, LiveCalls
<1>5. f.at \in {"start", "loop", "slot"}
  BY <1>2 DEF FrameOK, Frames
<1>6. \A s \in Signals : \A n \in Range(m_connected_slots[s]) : n.slot \in alive
  BY <1>1 DEF Listed, Callees
<1>7. CASE c.op = "emit"
  <2>1. c.sig \in Signals /\ c.sig \in alive
    <3>1. Begun(f) => c.sig \in alive
      BY <1>0, <1>3, <1>7 DEF FrameLive, EmitLive
    <3> QED
      BY <1>2, <1>4, <1>7, <3>1, CallFields, NamedFields
  <2>2. CASE f.at = "loop"
    <3>1. Uses(t) = {c.sig} \cup {n.slot : n \in {m_current_iterator[c.sig]} \ {End}}
      BY <1>0, <1>7, <2>2 DEF Uses, ClearOps, LeaveOps
    <3>2. InTurn(m_connected_slots[c.sig], m_current_iterator[c.sig], f.todo)
      BY <1>0, <1>3, <1>7, <2>2, EmissionInTurn DEF Begun
    <3> QED
      BY <1>6, <2>1, <3>1, <3>2 DEF InTurn
  <2>3. CASE f.at = "slot"
    <3>1. Uses(t) = {c.sig, Head(f.todo).slot}
      BY <1>0, <1>7, <2>3 DEF Uses, ClearOps, LeaveOps
    <3>2. Head(f.todo) \in Range(m_connected_slots[c.sig])
      BY <1>0, <1>3, <1>7, <2>3 DEF Begun, FrameLive, EmitLive
    <3> QED
      BY <1>6, <2>1, <3>1, <3>2
  <2>4. CASE f.at = "start"
    <3>1. Uses(t) = {c.sig} \cup Range(f.todo)
      BY <1>0, <1>7, <2>4 DEF Uses, ClearOps, LeaveOps
    <3> QED
      BY <1>4, <2>1, <2>4, <3>1 DEF Begun
  <2> QED
    BY <1>5, <2>2, <2>3, <2>4
<1>8. CASE c.op \in LeaveOps
  <2>1. Uses(t) = {c.slot} \cup Range(f.todo)
    BY <1>0, <1>8 DEF Uses, LeaveOps
  <2>2. ~Begun(f) => c.slot \in alive
    BY <1>2, <1>4, <1>8, NamedFields
  <2>3. Begun(f) => c.slot \in alive /\ Range(f.todo) \subseteq alive
    BY <1>0, <1>3, <1>8 DEF FrameLive, LeaveLive
  <2> QED
    BY <1>4, <2>1, <2>2, <2>3
<1>9. CASE c.op = "copy_slot"
  <2>1. Uses(t) = Range(f.todo)
    BY <1>0, <1>9 DEF Uses, LeaveOps
  <2>2. c.slot \in Slots
    BY <1>2, <1>9, CallFields
  <2>3. Begun(f) => Range(f.todo) \subseteq m_senders[c.slot]
    BY <1>0, <1>3, <1>9 DEF FrameLive, CopySlotLive
  <2> QED
    BY <1>1, <1>4, <2>1, <2>2, <2>3 DEF Known
<1>10. CASE c.op = "copy_signal"
  <2>1. Uses(t) = {n.slot : n \in Range(f.todo)}
    BY <1>0, <1>10 DEF Uses, LeaveOps
  <2>2. c.sig \in Signals
    BY <1>2, <1>10, CallFields
  <2>3. Begun(f) => Range(f.todo) \subseteq Range(m_connected_slots[c.sig])
    BY <1>0, <1>3, <1>10 DEF FrameLive, CopySignalLive
  <2> QED
    BY <1>4, <1>6, <2>1, <2>2, <2>3
<1>11. CASE c.op \in {"connect", "disconnect"} \cup ClearOps
  <2>1. Uses(t) = {c.sig} \cup Range(f.todo)
    BY <1>0, <1>11 DEF Uses, LeaveOps, ClearOps
  <2>2. CASE ~Begun(f)
    BY <1>2, <1>4, <1>11, <2>1, <2>2, NamedFields
  <2>3. CASE Begun(f) /\ c.op \in ClearOps
    BY <1>0, <1>3, <2>1, <2>3 DEF FrameLive, ClearLive
  <2>4. CASE Begun(f) /\ c.op \in {"connect", "disconnect"}
    <3>1. f.todo = <<c.slot>>
      BY <1>0, <1>2, <1>5, <2>4 DEF FrameOK, Begun, ClearOps, LeaveOps, CopyOps
    <3>2. Range(f.todo) = {c.slot}
      BY <3>1 DEF Range
    <3>3. c.sig \in alive /\ c.slot \in alive
      BY <1>0, <1>3, <2>4 DEF FrameLive, ConnectLive, DisconnectLive
    <3> QED
      BY <2>1, <3>2, <3>3
  <2> QED
    BY <1>11, <2>2, <2>3, <2>4
<1> QED
  BY <1>2, <1>7, <1>8, <1>9, <1>10, <1>11, CallFields

(* No call of a program that keeps the rules reaches a signal or a slot    *)
(* that is gone, however destructors, callbacks and threads interleave.    *)
THEOREM CallsReachLiveObjects == SafetySpec /\ []Rules => []OnlyLiveObjects
<1>1. SlotInv /\ Rules => OnlyLiveObjects
  BY UsesAlive DEF OnlyLiveObjects
<1> QED
  BY <1>1, SlotInvariant, PTL

(* What is between its two sides is named by a call under way.             *)
LEMMA PendingBusy ==
  ASSUME TypeOK, Shape
  PROVE  \A s, o : /\ Doing("connect", s, o) \/ Doing("disconnect", s, o) => s \in Busy
                   /\ Popped(s, o) \/ Clearing(s) => s \in Busy
                   /\ Leaving(s, o) => o \in Busy
<1>1. ASSUME NEW k \in Acts, k.call.op # "emit"
      PROVE  k.call \in ObjectCalls /\ Named(k.call) \subseteq Busy
  <2>1. PICK u \in Threads : k \in Range(stack[u])
    BY DEF Acts, Active
  <2>2. k.call \in ObjectCalls
    BY <2>1 DEF Shape, FrameOK, Frames
  <2> QED
    BY <1>1, <2>1, <2>2 DEF Busy
<1>2. ASSUME NEW k \in Acts, k.call.op \in {"connect", "disconnect"} \cup ClearOps
      PROVE  k.call.sig \in Busy
  <2>1. k.call.op # "emit"
    BY <1>2 DEF ClearOps
  <2> QED
    BY <1>1, <1>2, <2>1, NamedFields
<1>3. ASSUME NEW k \in Acts, k.call.op \in LeaveOps
      PROVE  k.call.slot \in Busy
  <2>1. k.call.op # "emit"
    BY <1>3 DEF LeaveOps
  <2> QED
    BY <1>1, <1>3, <2>1, NamedFields
<1> QED
  BY <1>2, <1>3 DEF Doing, Popped, Clearing, Leaving

(* In a program that keeps the rules m_connected_slots and m_senders agree *)
(* on every connection that no call is changing.                           *)
THEOREM TwoSidesAgree == SafetySpec /\ []Rules => []SidesAgree
<1>1. SlotInv => SidesAgree
  <2> SUFFICES ASSUME SlotInv PROVE SidesAgree
    OBVIOUS
  <2>1. TypeOK /\ Shape /\ Listed /\ Known
    BY DEF SlotInv, SidesInv
  <2>2. \A s, o : /\ Doing("connect", s, o) \/ Doing("disconnect", s, o) => s \in Busy
                  /\ Popped(s, o) \/ Clearing(s) => s \in Busy
                  /\ Leaving(s, o) => o \in Busy
    BY <2>1, PendingBusy
  <2>3. ASSUME NEW s \in (Signals \cap alive) \ Busy, NEW o \in Slots \ Busy
        PROVE  o \in Callees(s) <=> (o \in alive /\ s \in m_senders[o])
    BY <2>1, <2>2 DEF Listed, Known
  <2>4. \A o \in (Slots \cap alive) \ Busy : m_senders[o] \ Busy \subseteq alive
    BY <2>1 DEF Known
  <2> QED
    BY <2>1, <2>3, <2>4 DEF SidesAgree
<1> QED
  BY <1>1, SlotInvariant, PTL

(* An emission of a program that keeps the rules calls every connection in *)
(* its turn and none twice, whatever the callbacks do to the list.         *)
THEOREM EachConnectionOnce == SafetySpec /\ []Rules => []EmitCallsEachOnce
<1>1. SlotInv /\ Rules => EmitCallsEachOnce
  <2> SUFFICES ASSUME SlotInv, Rules, NEW t \in Threads, In(t, "emit", "loop")
               PROVE  /\ CalledOnce(Todo(t))
                      /\ InTurn(m_connected_slots[Call(t).sig],
                                m_current_iterator[Call(t).sig], Todo(t))
    BY DEF EmitCallsEachOnce, CalledOnce, InTurn
  <2>1. TypeOK
    BY DEF SlotInv
  <2>2. Head(stack[t]) \in Active(t) /\ Head(stack[t]).call.op = "emit"
    BY <2>1, StackParts DEF In, Active, Begun
  <2> QED
    BY <2>2, EmissionInTurn DEF Call, Todo
<1> QED
  BY <1>1, SlotInvariant, PTL

=============================================================================
