---------------------------- MODULE BoundedQueue ----------------------------
(***************************************************************************)
(* What the users of a bounded queue with one producer and one consumer    *)
(* may rely on: values leave it in the order in which they entered it,     *)
(* each once, unless the consumer discards all that is there.              *)
(***************************************************************************)
EXTENDS Naturals, Sequences

CONSTANTS Value, Size, Nothing

VARIABLES
  content,    \* the values in the queue
  delivered   \* what the consumer holds: the last value it took, or Nothing

Init == content = <<>> /\ delivered = Nothing

Put(v) ==
  /\ Len(content) < Size
  /\ content' = Append(content, v)
  /\ UNCHANGED delivered

Take ==
  /\ content # <<>>
  /\ delivered' = Head(content)
  /\ content' = Tail(content)

Discard ==
  /\ content' = <<>>
  /\ UNCHANGED delivered

Next == (\E v \in Value : Put(v)) \/ Take \/ Discard

Spec == Init /\ [][Next]_<<content, delivered>>
=============================================================================
