----------------------------- MODULE SwapQueue ------------------------------
(***************************************************************************)
(* webrtc::SwapQueue (rtc_base/swap_queue.h): a queue of fixed size that   *)
(* one producer and one consumer use from different threads without a      *)
(* lock.  Items are exchanged with swap: a full item goes in, what was in  *)
(* the slot comes out.                                                     *)
(*                                                                         *)
(* One action is what a thread does from one access of shared memory to    *)
(* the next.  The acquire and release orders of the code make these        *)
(* accesses happen in program order.  An index is used by one thread only, *)
(* so it advances together with the access before it.                      *)
(***************************************************************************)
EXTENDS Naturals, Sequences

CONSTANTS
  Value,      \* items
  Nothing,    \* the prototype, an item of no value
  Size        \* number of slots

ASSUME SwapQueueAssumption ==
  /\ Size \in Nat \ {0}
  /\ Nothing \notin Value

VARIABLES
  queue_, num_elements_, next_write_index_, next_read_index_,
  producer, input,     \* Insert: next step, and *input
  consumer, output     \* Remove: next step, and *output

producerVars == <<producer, input, next_write_index_>>
consumerVars == <<consumer, output, next_read_index_>>
vars == <<queue_, num_elements_, producerVars, consumerVars>>

Item == Value \cup {Nothing}
Slots == 0..(Size - 1)

TypeOK ==
  /\ queue_ \in [Slots -> Item]
  /\ num_elements_ \in 0..Size
  /\ next_write_index_ \in Slots
  /\ next_read_index_ \in Slots
  /\ producer \in {"idle", "swap", "add"}
  /\ consumer \in {"idle", "swap", "sub"}
  /\ input \in Item /\ output \in Item

Init ==
  /\ queue_ = [s \in Slots |-> Nothing]
  /\ num_elements_ = 0
  /\ next_write_index_ = 0 /\ next_read_index_ = 0
  /\ producer = "idle" /\ consumer = "idle"
  /\ input = Nothing /\ output = Nothing

(* The next index; the code compares with the size instead of dividing.    *)
Advance(index) == IF index + 1 = Size THEN 0 ELSE index + 1

-----------------------------------------------------------------------------
(* Insert, on the producer's thread.                                       *)
InsertLoad(v) ==
  /\ producer = "idle"
  /\ input' = v
  /\ producer' = IF num_elements_ = Size THEN "idle" ELSE "swap"
  /\ UNCHANGED <<queue_, num_elements_, next_write_index_, consumerVars>>

(* Mutant of InsertSwap: the index is advanced before the swap.            *)
InsertSwapAhead ==
  /\ producer = "swap"
  /\ input' = queue_[Advance(next_write_index_)]
  /\ queue_' = [queue_ EXCEPT ![Advance(next_write_index_)] = input]
  /\ producer' = "add"
  /\ UNCHANGED <<num_elements_, next_write_index_, consumerVars>>

InsertSwap ==
  /\ producer = "swap"
  /\ input' = queue_[next_write_index_]
  /\ queue_' = [queue_ EXCEPT ![next_write_index_] = input]
  /\ producer' = "add"
  /\ UNCHANGED <<num_elements_, next_write_index_, consumerVars>>

InsertAdd ==
  /\ producer = "add"
  /\ num_elements_' = num_elements_ + 1
  /\ next_write_index_' = Advance(next_write_index_)
  /\ producer' = "idle"
  /\ UNCHANGED <<queue_, input, consumerVars>>

-----------------------------------------------------------------------------
(* Mutant of RemoveLoad: an empty queue is not noticed.                    *)
RemoveLoadUnchecked ==
  /\ consumer = "idle"
  /\ consumer' = "swap"
  /\ UNCHANGED <<queue_, num_elements_, producerVars, output, next_read_index_>>

(* Remove and Clear, on the consumer's thread.                             *)
RemoveLoad ==
  /\ consumer = "idle"
  /\ num_elements_ # 0
  /\ consumer' = "swap"
  /\ UNCHANGED <<queue_, num_elements_, producerVars, output, next_read_index_>>

RemoveSwap ==
  /\ consumer = "swap"
  /\ output' = queue_[next_read_index_]
  /\ queue_' = [queue_ EXCEPT ![next_read_index_] = output]
  /\ consumer' = "sub"
  /\ UNCHANGED <<num_elements_, producerVars, next_read_index_>>

RemoveSub ==
  /\ consumer = "sub"
  /\ num_elements_' = num_elements_ - 1
  /\ next_read_index_' = Advance(next_read_index_)
  /\ consumer' = "idle"
  /\ UNCHANGED <<queue_, producerVars, output>>

(* Clear leaves the items it drops in their slots.                         *)
Clear ==
  /\ consumer = "idle"
  /\ num_elements_' = 0
  /\ LET sum == next_read_index_ + num_elements_
     IN  next_read_index_' = IF sum >= Size THEN sum - Size ELSE sum
  /\ UNCHANGED <<queue_, producerVars, consumer, output>>

Next ==
  \/ \E v \in Value : InsertLoad(v)
  \/ InsertSwap \/ InsertAdd
  \/ RemoveLoad \/ RemoveSwap \/ RemoveSub
  \/ Clear

Spec == Init /\ [][Next]_vars

-----------------------------------------------------------------------------
(* Properties.                                                             *)

(* The slot i places behind slot s.                                        *)
SlotAt(s, i) == IF s + i >= Size THEN s + i - Size ELSE s + i

(* The two threads never swap with the same slot at the same time: the     *)
(* counter alone keeps them apart (swap_queue.h:42-46).                    *)
NoSharedSlot ==
  producer \in {"swap", "add"} /\ consumer \in {"swap", "sub"} =>
    next_write_index_ # next_read_index_

(* The counter is the distance between the two indices, so that a full     *)
(* and an empty queue, whose indices are equal, are told apart.            *)
IndicesAgree == next_write_index_ = SlotAt(next_read_index_, num_elements_)

(* Why the counter suffices: while Insert is under way the queue is not    *)
(* full and while Remove is under way it is not empty, whatever the other  *)
(* thread does in between.                                                 *)
RoomAndItem ==
  /\ producer \in {"swap", "add"} => num_elements_ < Size
  /\ consumer \in {"swap", "sub"} => num_elements_ > 0

(* The queue is a first-in-first-out queue: a value enters when it is      *)
(* counted and leaves when it is swapped out.                              *)
Taken == IF consumer = "sub" THEN 1 ELSE 0
Abstract == INSTANCE BoundedQueue WITH
  content <- [i \in 1..(num_elements_ - Taken) |->
                queue_[SlotAt(next_read_index_, i - 1 + Taken)]],
  delivered <- output
IsQueue == Abstract!Spec
=============================================================================
