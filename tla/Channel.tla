------------------------------ MODULE Channel ------------------------------
(***************************************************************************)
(* What each direction of the link between host and loader promises:       *)
(* messages are taken whole, once each and in the order they were sent.    *)
(* FrameReceiver implements it for the frames of the host, AnswerSender    *)
(* for the answers of the loader.                                          *)
(***************************************************************************)
EXTENDS Naturals, Sequences

CONSTANT Messages

VARIABLES sent, taken

Init == sent = << >> /\ taken = << >>

Send(m) ==
  /\ sent' = Append(sent, m)
  /\ UNCHANGED taken

Take ==
  /\ Len(taken) < Len(sent)
  /\ taken' = Append(taken, sent[Len(taken) + 1])
  /\ UNCHANGED sent

Next == (\E m \in Messages : Send(m)) \/ Take

Spec == Init /\ [][Next]_<<sent, taken>>
=============================================================================
