---------------------------- MODULE MCSubmitIntent ----------------------------
(* Instances of SubmitIntent for TLC.  Owners ann and cat share a stripe of  *)
(* ownerLocks; in Chain nobody pays back, in Ring ann and bob pay each other *)
(* and in Phone two owners share a phone number.                             *)
EXTENDS SubmitIntent, TLC

CONSTANTS ann, bob, cat, card, ph1, ph2, ph3

Request(kind, intent, owner, dest, gift) ==
    [kind |-> kind, intent |-> intent, owner |-> owner, dest |-> dest, card |-> gift]
Plain(kind, intent, owner) == Request(kind, intent, owner, NoOwner, NoCard)

Chain == <<
    Request("pay", 1, ann, bob, NoCard),
    Request("pay", 1, ann, bob, NoCard),
    Request("pay", 2, cat, bob, NoCard),
    Plain("receive", 3, bob),
    Request("gift", 4, ann, NoOwner, card),
    Request("claim", 5, bob, NoOwner, card),
    Request("claim", 6, cat, NoOwner, card),
    Plain("upgrade", 1, ann),
    Request("public", 7, ann, bob, NoCard),
    Request("withdraw", 8, ann, cat, NoCard),
    Plain("open", 9, bob),
    Plain("open", 10, bob),
    Plain("deposit", 11, ann),
    Request("public", 12, ann, cat, NoCard),
    Plain("upgrade", 1, ann)>>

Ring == <<
    Request("pay", 1, ann, bob, NoCard),
    Request("pay", 2, bob, ann, NoCard),
    Plain("receive", 3, bob)>>

Phone == <<
    Plain("open", 1, ann),
    Plain("open", 2, bob),
    Plain("open", 3, cat)>>

Stripes == [k \in 1..12 \cup {ann, bob, cat, card, ph1, ph2, ph3} |->
              IF k = cat THEN ann ELSE k]
OwnPhones == (ann :> ph1) @@ (bob :> ph2) @@ (cat :> ph3)
OnePhone == (ann :> ph1) @@ (bob :> ph1) @@ (cat :> ph2)
===============================================================================
