--------------------------- MODULE MCAnswerSender ---------------------------
(***************************************************************************)
(* AnswerSender for TLC with a tx_data of 32 bytes: answers end between 3  *)
(* and 18 bytes, so that with packets of 4 bytes they take one to five     *)
(* packets, some with a full last one, and long data is truncated.         *)
(***************************************************************************)
EXTENDS AnswerSender

MCAnswers ==
  [cmd : {1}, bin : {0}, data : {NoData, 0, 1, 5}] \cup
  [cmd : {1, 3}, bin : {4, 40}, data : {NoData}] \cup
  [cmd : {20}, bin : {0, 1}, data : {NoData}]
=============================================================================
