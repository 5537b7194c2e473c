-------------------------- MODULE SwapQueueProofs ---------------------------
(***************************************************************************)
(* For every size and every set of values: the two threads of a SwapQueue  *)
(* never use one slot together, and it implements a bounded queue.         *)
(***************************************************************************)
EXTENDS SwapQueue, SequenceTheorems, TLAPS

Inv == TypeOK /\ IndicesAgree /\ RoomAndItem

USE SwapQueueAssumption

(* The inductive invariant holds initially.                                *)
LEMMA InitInv == Init => Inv
BY DEF Init, Inv, TypeOK, IndicesAgree, RoomAndItem, SlotAt, Slots, Item

(* Every step of either thread preserves it.                               *)
LEMMA NextInv == Inv /\ [Next]_vars => Inv'
<1> SUFFICES ASSUME Inv, [Next]_vars PROVE Inv'
  OBVIOUS
<1> USE DEF Inv, TypeOK, IndicesAgree, RoomAndItem, SlotAt, Slots
<1>1. ASSUME NEW v \in Value, InsertLoad(v) PROVE Inv'
  BY <1>1 DEF InsertLoad, consumerVars, Item
<1>2. CASE InsertSwap
  <2>1. queue_' \in [Slots -> Item] /\ input' \in Item
    BY <1>2 DEF InsertSwap
  <2> QED BY <1>2, <2>1 DEF InsertSwap, consumerVars
<1>3. CASE InsertAdd
  BY <1>3 DEF InsertAdd, consumerVars, Advance
<1>4. CASE RemoveLoad
  BY <1>4 DEF RemoveLoad, producerVars
<1>5. CASE RemoveSwap
  <2>1. queue_' \in [Slots -> Item] /\ output' \in Item
    BY <1>5 DEF RemoveSwap
  <2> QED BY <1>5, <2>1 DEF RemoveSwap, producerVars
<1>6. CASE RemoveSub
  BY <1>6 DEF RemoveSub, producerVars, Advance
<1>7. CASE Clear
  BY <1>7 DEF Clear, producerVars
<1>8. CASE UNCHANGED vars
  BY <1>8 DEF vars, producerVars, consumerVars
<1> HIDE DEF Inv, TypeOK, IndicesAgree, RoomAndItem, SlotAt, Slots
<1> QED BY <1>1, <1>2, <1>3, <1>4, <1>5, <1>6, <1>7, <1>8 DEF Next

(* The invariant holds in every state of every behaviour.                  *)
THEOREM InvariantHolds == Spec => []Inv
BY InitInv, NextInv, PTL DEF Spec

(* A slot counts at most Size items and indices stay in range, and the     *)
(* counter is the distance of the indices.                                 *)
THEOREM CounterIsDistance == Spec => [](TypeOK /\ IndicesAgree /\ RoomAndItem)
<1>1. Inv => TypeOK /\ IndicesAgree /\ RoomAndItem
  BY DEF Inv
<1> QED BY <1>1, InvariantHolds, PTL

(* Insert and Remove that overlap use different slots.                     *)
THEOREM SlotsAreNotShared == Spec => []NoSharedSlot
<1>1. Inv => NoSharedSlot
  BY DEF Inv, TypeOK, IndicesAgree, RoomAndItem, NoSharedSlot, SlotAt, Slots
<1> QED BY <1>1, InvariantHolds, PTL

-----------------------------------------------------------------------------
(* The refinement.                                                         *)

(* The content the refinement maps to: from the first item that is not     *)
(* being taken out.                                                        *)
content == [i \in 1..(num_elements_ - Taken) |->
              queue_[SlotAt(next_read_index_, i - 1 + Taken)]]

(* What Insert is about to count is a value.                               *)
FullItem ==
  /\ producer = "swap" => input \in Value
  /\ producer = "add"  => queue_[next_write_index_] \in Value

FullInv == Inv /\ FullItem

LEMMA InitFull == Init => FullInv
BY InitInv DEF Init, FullInv, FullItem

LEMMA NextFull == FullInv /\ [Next]_vars => FullInv'
<1> SUFFICES ASSUME FullInv, [Next]_vars PROVE FullItem'
  BY NextInv DEF FullInv
<1> USE DEF FullInv, FullItem, Inv, TypeOK, Slots
<1>1. ASSUME NEW v \in Value, InsertLoad(v) PROVE FullItem'
  BY <1>1 DEF InsertLoad
<1>2. CASE InsertSwap
  BY <1>2 DEF InsertSwap
<1>3. CASE InsertAdd
  BY <1>3 DEF InsertAdd
<1>4. CASE RemoveLoad
  BY <1>4 DEF RemoveLoad, producerVars
<1>5. CASE RemoveSwap
  <2>1. producer = "add" => next_write_index_ # next_read_index_
    BY <1>5 DEF RemoveSwap, IndicesAgree, RoomAndItem, SlotAt
  <2> QED BY <1>5, <2>1 DEF RemoveSwap, producerVars
<1>6. CASE RemoveSub
  BY <1>6 DEF RemoveSub, producerVars
<1>7. CASE Clear
  BY <1>7 DEF Clear, producerVars
<1>8. CASE UNCHANGED vars
  BY <1>8 DEF vars, producerVars, consumerVars
<1> HIDE DEF FullInv, FullItem, Inv, TypeOK, Slots
<1> QED BY <1>1, <1>2, <1>3, <1>4, <1>5, <1>6, <1>7, <1>8 DEF Next

(* Slots at different distances below Size are different.                  *)
LEMMA SlotsDiffer ==
  ASSUME NEW s \in Slots, NEW i \in Nat, NEW j \in Nat,
         i < Size, j < Size, i # j
  PROVE  SlotAt(s, i) # SlotAt(s, j)
BY DEF Slots, SlotAt

(* The content is a sequence of items.                                     *)
LEMMA ContentType ==
  ASSUME TypeOK, RoomAndItem
  PROVE  /\ num_elements_ - Taken \in Nat
         /\ content \in Seq(Item)
         /\ Len(content) = num_elements_ - Taken
<1>1. num_elements_ - Taken \in Nat /\ num_elements_ - Taken <= Size
      /\ Taken \in {0, 1}
  BY DEF TypeOK, RoomAndItem, Taken
<1>2. ASSUME NEW i \in 1..(num_elements_ - Taken)
      PROVE  queue_[SlotAt(next_read_index_, i - 1 + Taken)] \in Item
  <2>1. SlotAt(next_read_index_, i - 1 + Taken) \in Slots
    BY <1>1, <1>2 DEF TypeOK, SlotAt, Slots
  <2> QED BY <2>1 DEF TypeOK
<1> QED BY <1>1, <1>2 DEF content

(* InsertAdd puts the item that was swapped in.                            *)
LEMMA AddPuts == FullInv /\ InsertAdd => Abstract!Put(queue_[next_write_index_])
<1> SUFFICES ASSUME FullInv, InsertAdd
             PROVE  Abstract!Put(queue_[next_write_index_])
  OBVIOUS
<1> DEFINE n == num_elements_ - Taken
           e(i) == queue_[SlotAt(next_read_index_, i - 1 + Taken)]
<1>1. n \in Nat /\ n < Size /\ Taken' = Taken /\ num_elements_' - Taken' = n + 1
  BY DEF FullInv, Inv, TypeOK, RoomAndItem, InsertAdd, Taken, consumerVars
<1>2. e(n + 1) = queue_[next_write_index_]
  <2>1. SlotAt(next_read_index_, ((n + 1) - 1) + Taken) = next_write_index_
    BY DEF FullInv, Inv, TypeOK, RoomAndItem, IndicesAgree, SlotAt, Slots, Taken
  <2> HIDE DEF n
  <2> QED BY <2>1
<1>3. content' = [i \in 1..(n + 1) |-> e(i)]
  BY <1>1 DEF content, InsertAdd, consumerVars, SlotAt
<1>4. content = [i \in 1..n |-> e(i)]
  BY DEF content
<1>5. content' = Append(content, queue_[next_write_index_])
  <2>1. Len(content) = n
    BY ContentType DEF FullInv, Inv
  <2> HIDE DEF n, e
  <2> QED BY <1>1, <1>2, <1>3, <1>4, <2>1, ContentType DEF FullInv, Inv
<1>6. Len(content) < Size
  BY <1>1, ContentType DEF FullInv, Inv
<1> QED BY <1>5, <1>6 DEF Abstract!Put, content, InsertAdd, consumerVars

(* RemoveSwap takes the first item.                                        *)
LEMMA SwapTakes == FullInv /\ RemoveSwap => Abstract!Take
<1> SUFFICES ASSUME FullInv, RemoveSwap PROVE Abstract!Take
  OBVIOUS
<1> DEFINE n == num_elements_
<1>1. n \in Nat /\ 0 < n /\ n <= Size /\ Taken = 0 /\ Taken' = 1
      /\ num_elements_' - Taken' = n - 1
  BY DEF FullInv, Inv, TypeOK, RoomAndItem, RemoveSwap, Taken
<1>2. ASSUME NEW i \in 1..(n - 1)
      PROVE  /\ SlotAt(next_read_index_, i) # next_read_index_
             /\ SlotAt(next_read_index_, i) \in Slots
  BY <1>1, <1>2 DEF FullInv, Inv, TypeOK, SlotAt, Slots
<1>3. ASSUME NEW i \in 1..(n - 1)
      PROVE  queue_'[SlotAt(next_read_index_, i)] = queue_[SlotAt(next_read_index_, i)]
  BY <1>2, <1>3 DEF RemoveSwap, FullInv, Inv, TypeOK
<1>4. content = [i \in 1..n |-> queue_[SlotAt(next_read_index_, i - 1)]]
  <2>1. \A i \in 1..n : i - 1 + Taken = i - 1
    BY <1>1
  <2> QED BY <1>1, <2>1 DEF content
<1>5. content' = [i \in 1..(n - 1) |-> queue_[SlotAt(next_read_index_, i)]]
  <2>1. \A i \in 1..(n - 1) : i - 1 + Taken' = i
    BY <1>1
  <2>2. next_read_index_' = next_read_index_
    BY DEF RemoveSwap
  <2> QED BY <1>1, <1>3, <2>1, <2>2 DEF content, SlotAt
<1>6. content # <<>> /\ Head(content) = queue_[next_read_index_]
      /\ content \in Seq(Item) /\ Len(content) = n
  <2>1. content \in Seq(Item) /\ Len(content) = n
    BY <1>1, ContentType DEF FullInv, Inv
  <2>2. content[1] = queue_[SlotAt(next_read_index_, 0)]
    BY <1>1, <1>4
  <2>3. SlotAt(next_read_index_, 0) = next_read_index_
    BY DEF SlotAt, FullInv, Inv, TypeOK, Slots
  <2> QED BY <1>1, <2>1, <2>2, <2>3
<1>7. content' = Tail(content)
  <2>1. /\ Tail(content) \in Seq(Item) /\ Len(Tail(content)) = n - 1
        /\ \A i \in 1..(n - 1) : Tail(content)[i] = content[i + 1]
    BY <1>1, <1>6, HeadTailProperties
  <2>2. \A i \in 1..(n - 1) : content[i + 1] = queue_[SlotAt(next_read_index_, i)]
    <3>1. \A i \in 1..(n - 1) : i + 1 \in 1..n /\ i + 1 - 1 = i
      BY <1>1
    <3> QED BY <1>4, <3>1
  <2>3. /\ content' \in Seq(Item) /\ Len(content') = n - 1
        /\ \A i \in 1..(n - 1) :
             content'[i] = queue_[SlotAt(next_read_index_, i)]
    <3>1. \A i \in 1..(n - 1) : queue_[SlotAt(next_read_index_, i)] \in Item
      BY <1>2 DEF FullInv, Inv, TypeOK
    <3> QED BY <1>1, <1>5, <3>1
  <2> HIDE DEF n
  <2> QED BY <2>1, <2>2, <2>3, SeqEqual, Zenon
<1> QED BY <1>6, <1>7 DEF Abstract!Take, content, RemoveSwap

(* The steps that neither count nor take an item leave the content alone.  *)
LEMMA OthersStutter ==
  ASSUME FullInv,
         \/ \E v \in Value : InsertLoad(v)
         \/ InsertSwap \/ RemoveLoad \/ RemoveSub \/ UNCHANGED vars
  PROVE  content' = content /\ output' = output
<1>1. ASSUME NEW v \in Value, InsertLoad(v) PROVE content' = content /\ output' = output
  BY <1>1 DEF InsertLoad, consumerVars, content, Taken, SlotAt
<1>2. CASE InsertSwap
  <2>1. ASSUME NEW i \in 1..(num_elements_ - Taken)
        PROVE  queue_'[SlotAt(next_read_index_, i - 1 + Taken)]
                 = queue_[SlotAt(next_read_index_, i - 1 + Taken)]
    <3>1. /\ SlotAt(next_read_index_, i - 1 + Taken) # next_write_index_
          /\ SlotAt(next_read_index_, i - 1 + Taken) \in Slots
      BY <1>2, <2>1 DEF InsertSwap, FullInv, Inv, TypeOK, IndicesAgree,
                        RoomAndItem, SlotAt, Slots, Taken
    <3> QED BY <1>2, <3>1 DEF InsertSwap, FullInv, Inv, TypeOK
  <2>2. Taken' = Taken /\ num_elements_' = num_elements_ /\ output' = output
        /\ next_read_index_' = next_read_index_
    BY <1>2 DEF InsertSwap, consumerVars, Taken
  <2> QED BY <2>1, <2>2 DEF content, SlotAt
<1>3. CASE RemoveLoad
  BY <1>3 DEF RemoveLoad, content, Taken, SlotAt
<1>4. CASE RemoveSub
  <2>1. Taken = 1 /\ Taken' = 0 /\ num_elements_' - Taken' = num_elements_ - Taken
        /\ queue_' = queue_ /\ output' = output
    BY <1>4 DEF RemoveSub, Taken, FullInv, Inv, TypeOK
  <2>2. ASSUME NEW i \in 1..(num_elements_ - Taken)
        PROVE  SlotAt(next_read_index_', i - 1 + Taken')
                 = SlotAt(next_read_index_, i - 1 + Taken)
    BY <1>4, <2>1, <2>2 DEF RemoveSub, Advance, SlotAt, FullInv, Inv, TypeOK, Slots
  <2>3. content' = [i \in 1..(num_elements_ - Taken) |->
                      queue_[SlotAt(next_read_index_', i - 1 + Taken')]]
    BY <2>1 DEF content, SlotAt
  <2> QED BY <2>1, <2>2, <2>3 DEF content
<1>5. CASE UNCHANGED vars
  BY <1>5 DEF vars, producerVars, consumerVars, content, Taken, SlotAt
<1> QED BY <1>1, <1>2, <1>3, <1>4, <1>5

(* Clear discards the content.                                             *)
LEMMA ClearDiscards == FullInv /\ Clear => Abstract!Discard
<1> SUFFICES ASSUME FullInv, Clear PROVE Abstract!Discard
  OBVIOUS
<1>1. num_elements_' - Taken' = 0 /\ output' = output
  BY DEF Clear, Taken
<1>2. content' = <<>>
  BY <1>1 DEF content
<1> QED BY <1>1, <1>2 DEF Abstract!Discard, content

(* A SwapQueue of any size implements the bounded queue: what the consumer *)
(* takes is what the producer inserted, in order and once.                 *)
THEOREM ImplementsQueue == Spec => IsQueue
<1>1. Init => Abstract!Init
  <2> SUFFICES ASSUME Init PROVE Abstract!Init
    OBVIOUS
  <2>1. num_elements_ - Taken = 0
    BY DEF Init, Taken
  <2> QED BY <2>1 DEF Init, Abstract!Init
<1>2. FullInv /\ [Next]_vars => [Abstract!Next]_<<content, output>>
  <2> SUFFICES ASSUME FullInv, [Next]_vars
               PROVE  [Abstract!Next]_<<content, output>>
    OBVIOUS
  <2>1. CASE InsertAdd
    <3>1. queue_[next_write_index_] \in Value
      BY <2>1 DEF FullInv, FullItem, InsertAdd
    <3> QED BY <2>1, <3>1, AddPuts DEF Abstract!Next
  <2>2. CASE RemoveSwap
    BY <2>2, SwapTakes DEF Abstract!Next
  <2>3. CASE Clear
    BY <2>3, ClearDiscards DEF Abstract!Next
  <2>4. CASE \/ \E v \in Value : InsertLoad(v)
             \/ InsertSwap \/ RemoveLoad \/ RemoveSub \/ UNCHANGED vars
    BY <2>4, OthersStutter
  <2> QED BY <2>1, <2>2, <2>3, <2>4 DEF Next
<1>3. Spec => []FullInv
  BY InitFull, NextFull, PTL DEF Spec
<1> QED BY <1>1, <1>2, <1>3, PTL DEF Spec, IsQueue, Abstract!Spec, content
=============================================================================
