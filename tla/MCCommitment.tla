---------------------------- MODULE MCCommitment ----------------------------
(* Instances of Commitment for TLC: three payments of one quark each from a  *)
(* treasury of two, so that the third advance waits for a repayment.         *)
EXTENDS Commitment

CONSTANTS pay1, pay2, pay3

MCAmount == [c \in Commitments |-> 1]
PaidNone == <<>>
PaidOne == <<pay1>>
PaidTwo == <<pay1, pay2>>
PaidThree == <<pay1, pay2, pay3>>
=============================================================================
