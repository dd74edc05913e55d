----------------------------- MODULE IntentLedger -----------------------------
(***************************************************************************)
(* What SubmitIntent promises.  An intent is accepted or refused in one    *)
(* step, on what is true at that step: the intent is new, the money it     *)
(* moves is there, the gift card it empties is still full.  An owner's     *)
(* money is what it can spend (wallet) or what it has been paid and not    *)
(* yet received (pending); nothing else becomes of it.                     *)
(*                                                                         *)
(* SubmitIntent is the module that implements this one.  A payment moves   *)
(* one quark.                                                              *)
(***************************************************************************)
EXTENDS Integers

CONSTANTS
    Requests,   \* the requests that clients make
    KindOf,     \* request -> kind of intent
    IntentOf,   \* request -> intent ID
    OwnerOf,    \* request -> owner who makes it
    DestOf,     \* request -> owner who is paid
    CardOf,     \* request -> gift card
    Owners,     \* owner accounts of users
    Cards,      \* remote send gift cards
    Purse       \* quarks an owner can spend at the start

VARIABLES
    accepted,   \* requests that were accepted
    wallet,     \* owner -> what it can spend
    pending,    \* owner -> what it was paid and has to receive
    gift        \* card -> what is on it

vars == <<accepted, wallet, pending, gift>>

Private == {"pay", "gift", "receive", "deposit", "withdraw"}
Transfers == {"public", "withdraw", "deposit"}

Init ==
    /\ accepted = {}
    /\ wallet = [o \in Owners |-> Purse]
    /\ pending = [o \in Owners |-> 0]
    /\ gift = [c \in Cards |-> 0]

\* The intent is new: nobody has created it.
Create(r) ==
    /\ \A q \in accepted : IntentOf[q] = IntentOf[r] => KindOf[q] = "upgrade"
    /\ accepted' = accepted \cup {r}

Add(money, x, quarks) == [money EXCEPT ![x] = @ + quarks]

\* An owner opens its accounts once.
OpenAccounts(r) ==
    /\ KindOf[r] = "open"
    /\ Create(r)
    /\ \A q \in accepted : KindOf[q] = "open" => OwnerOf[q] # OwnerOf[r]
    /\ UNCHANGED <<wallet, pending, gift>>

\* A payment to another user, who has to receive it.
Pay(r) ==
    /\ KindOf[r] = "pay"
    /\ Create(r)
    /\ wallet[OwnerOf[r]] > 0
    /\ wallet' = Add(wallet, OwnerOf[r], -1)
    /\ pending' = Add(pending, DestOf[r], 1)
    /\ UNCHANGED gift

Payee(r) == IF KindOf[r] = "deposit" THEN OwnerOf[r] ELSE DestOf[r]

\* Money that can be spent at once: to a primary account, or back from it.
Transfer(r) ==
    /\ KindOf[r] \in Transfers
    /\ Create(r)
    /\ wallet[OwnerOf[r]] > 0
    /\ wallet' = Add(Add(wallet, OwnerOf[r], -1), Payee(r), 1)
    /\ UNCHANGED <<pending, gift>>

\* A gift card is issued once.
IssueGift(r) ==
    /\ KindOf[r] = "gift"
    /\ Create(r)
    /\ wallet[OwnerOf[r]] > 0
    /\ \A q \in accepted : KindOf[q] = "gift" => CardOf[q] # CardOf[r]
    /\ wallet' = Add(wallet, OwnerOf[r], -1)
    /\ gift' = Add(gift, CardOf[r], 1)
    /\ UNCHANGED pending

\* The whole of a gift card goes to the first owner who claims it.
ClaimGift(r) ==
    /\ KindOf[r] = "claim"
    /\ Create(r)
    /\ gift[CardOf[r]] = 1
    /\ gift' = Add(gift, CardOf[r], -1)
    /\ pending' = Add(pending, OwnerOf[r], 1)
    /\ UNCHANGED wallet

\* Everything an owner has been paid becomes money it can spend.
Receive(r) ==
    /\ KindOf[r] = "receive"
    /\ Create(r)
    /\ pending[OwnerOf[r]] > 0
    /\ wallet' = Add(wallet, OwnerOf[r], pending[OwnerOf[r]])
    /\ pending' = [pending EXCEPT ![OwnerOf[r]] = 0]
    /\ UNCHANGED gift

\* The owner of a private intent upgrades it, once.
Upgrade(r) ==
    /\ KindOf[r] = "upgrade"
    /\ \E q \in accepted :
          KindOf[q] \in Private /\ IntentOf[q] = IntentOf[r] /\ OwnerOf[q] = OwnerOf[r]
    /\ \A q \in accepted : KindOf[q] = "upgrade" => IntentOf[q] # IntentOf[r]
    /\ accepted' = accepted \cup {r}
    /\ UNCHANGED <<wallet, pending, gift>>

Accept(r) ==
    \/ OpenAccounts(r)
    \/ Pay(r)
    \/ Transfer(r)
    \/ IssueGift(r)
    \/ ClaimGift(r)
    \/ Receive(r)
    \/ Upgrade(r)

Next == \E r \in Requests : Accept(r)

Spec == Init /\ [][Next]_vars
===============================================================================
