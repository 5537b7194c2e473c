--------------------------- MODULE OrderedChannel ---------------------------
(***************************************************************************)
(* What a sender may expect of WebsocketTransport: a channel that accepts  *)
(* messages, transmits them in the order it accepted them, each at most    *)
(* once, and may break.  A broken channel still accepts messages (SendMsg  *)
(* gives its caller no answer) but transmits nothing any more.             *)
(***************************************************************************)
EXTENDS Naturals, Sequences

CONSTANT Msg

VARIABLES
  sent,         \* the messages accepted so far
  transmitted,  \* the messages transmitted so far
  broken        \* a transmission has failed

chanVars == <<sent, transmitted, broken>>

Init ==
  /\ sent = <<>>
  /\ transmitted = <<>>
  /\ broken = FALSE

Accept ==
  /\ \E m \in Msg : sent' = Append(sent, m)
  /\ UNCHANGED <<transmitted, broken>>

Transmit ==
  /\ ~broken
  /\ Len(transmitted) < Len(sent)
  /\ transmitted' = Append(transmitted, sent[Len(transmitted) + 1])
  /\ UNCHANGED <<sent, broken>>

Break ==
  /\ broken' = TRUE
  /\ UNCHANGED <<sent, transmitted>>

Next == Accept \/ Transmit \/ Break

Spec == Init /\ [][Next]_chanVars
=============================================================================
