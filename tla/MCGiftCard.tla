------------------------------- MODULE MCGiftCard -------------------------------
(***************************************************************************)
(* A gift card and what is around it.  The issuer opens the temporary      *)
(* accounts out and in, sends a gift of one quark from bucket b through    *)
(* out, and pays x from the primary account p, which is empty until the    *)
(* gift is returned to it.  The gift is claimed to in, by the issuer, or   *)
(* to peer, by someone else; what came to in is received into bucket b and *)
(* in is closed.                                                           *)
(***************************************************************************)
EXTENDS GiftCard

\* The fulfillments, in the order of their actions.
MCActionOf ==
    [openOut |-> "a_openOut", openIn |-> "a_openIn", openGift |-> "a_openGift",
     advance |-> "a_send", repay |-> "a_send", pay |-> "a_pay", return |-> "a_return",
     claim |-> "a_claim", claimPeer |-> "a_claimPeer", advanceIn |-> "a_receive",
     repayIn |-> "a_receive", closeIn |-> "a_closeIn", public |-> "a_public"]
MCType ==
    [openOut |-> "Initialize", openIn |-> "Initialize", openGift |-> "Initialize",
     advance |-> "Advance", repay |-> "Temporary", pay |-> "Withdraw",
     return |-> "CloseDormant", claim |-> "Withdraw", claimPeer |-> "Withdraw",
     advanceIn |-> "Advance", repayIn |-> "Temporary", closeIn |-> "CloseEmpty",
     public |-> "Transfer"]
MCSource ==
    [openOut |-> "out", openIn |-> "in", openGift |-> "gift", advance |-> "treasury",
     repay |-> "b", pay |-> "out", return |-> "gift", claim |-> "gift",
     claimPeer |-> "gift", advanceIn |-> "treasury", repayIn |-> "in",
     closeIn |-> "in", public |-> "p"]
MCDestination ==
    [openOut |-> "out", openIn |-> "in", openGift |-> "gift", advance |-> "out",
     repay |-> "vault1", pay |-> "gift", return |-> "p", claim |-> "in",
     claimPeer |-> "peer", advanceIn |-> "b", repayIn |-> "vault2", closeIn |-> "in",
     public |-> "x"]
MCFulfillments == DOMAIN MCType

\* The actions, and the intents they are of.
MCIntentOf ==
    [a_openOut |-> "open", a_openIn |-> "open", a_openGift |-> "send",
     a_send |-> "send", a_pay |-> "send", a_return |-> "send", a_claim |-> "claimIt",
     a_claimPeer |-> "claimByPeer", a_receive |-> "receive", a_closeIn |-> "receive",
     a_public |-> "payPublicly"]
MCActionType ==
    [a_openOut |-> "OpenAccount", a_openIn |-> "OpenAccount",
     a_openGift |-> "OpenAccount", a_send |-> "PrivateTransfer",
     a_pay |-> "NoPrivacyWithdraw", a_return |-> "CloseDormantAccount",
     a_claim |-> "NoPrivacyWithdraw", a_claimPeer |-> "NoPrivacyWithdraw",
     a_receive |-> "PrivateTransfer", a_closeIn |-> "CloseEmptyAccount",
     a_public |-> "NoPrivacyTransfer"]
MCActionId ==
    [a_openOut |-> 0, a_openIn |-> 1, a_openGift |-> 0, a_send |-> 1, a_pay |-> 2,
     a_return |-> 3, a_claim |-> 0, a_claimPeer |-> 0, a_receive |-> 0,
     a_closeIn |-> 1, a_public |-> 0]
MCQuantity ==
    [a_openOut |-> 0, a_openIn |-> 0, a_openGift |-> 0, a_send |-> 1, a_pay |-> 1,
     a_return |-> 1, a_claim |-> 1, a_claimPeer |-> 1, a_receive |-> 1,
     a_closeIn |-> 0, a_public |-> 1]
MCActions == DOMAIN MCActionType
MCIntentType ==
    [open |-> "OpenAccounts", send |-> "SendPrivatePayment",
     claimIt |-> "ReceivePaymentsPublicly", claimByPeer |-> "ReceivePaymentsPublicly",
     receive |-> "ReceivePaymentsPrivately", payPublicly |-> "SendPublicPayment"]
MCIntents == DOMAIN MCIntentType
MCAsleep == MCFulfillments \ {"claim", "claimPeer", "public"}
MCHoldings == [v \in {"p", "out", "in", "b", "gift", "peer", "treasury", "vault1", "vault2", "x"}
                |-> IF v = "b" THEN 1 ELSE IF v = "treasury" THEN 2 ELSE 0]

=============================================================================
