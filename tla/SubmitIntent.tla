----------------------------- MODULE SubmitIntent -----------------------------
(***************************************************************************)
(* The SubmitIntent RPC (pkg/code/server/grpc/transaction/v2/intent.go):   *)
(* the striped locks it takes and the order it takes them in, the checks   *)
(* it makes under each lock, the wait for the client's signatures, the     *)
(* database transaction that commits the intent, and the deferred unlocks. *)
(* What is checked is read long before it is used: every check relies on   *)
(* a lock that keeps it true until the commit.                             *)
(*                                                                         *)
(* A request has a kind of intent, an intent ID, an owner who initiates    *)
(* it, perhaps an owner who is paid (dest) and a gift card.  Two requests  *)
(* with one intent ID are a retry, or an intent and its upgrade.  Every    *)
(* payment moves one quark, and an intent has one action that can be       *)
(* upgraded.  The accounts of an owner are its primary account, its        *)
(* buckets (with the temporary outgoing account that every private payment *)
(* passes through) and its latest temporary incoming account; "closed"     *)
(* holds what is left on temporary incoming accounts closed before.        *)
(***************************************************************************)
EXTENDS Integers, FiniteSets

CONSTANTS
    Table,        \* request -> kind, intent, owner, dest and card
    Owners,       \* owner accounts of phone-verified users
    Cards,        \* remote send gift cards
    PhoneOf,      \* owner -> phone number it was verified with
    Stripe,       \* key -> its stripe in a striped lock
    Purse,        \* quarks in the primary account and in the buckets
    MaxUses,      \* payments to one temporary incoming account
    MaxOpens,     \* accounts opened with one phone number
    MaxArrivals,  \* bound on requests that arrive
    NoOwner,      \* nobody is paid
    NoCard        \* no gift card is involved

Requests == DOMAIN Table
KindOf == [r \in Requests |-> Table[r].kind]
IntentOf == [r \in Requests |-> Table[r].intent]
OwnerOf == [r \in Requests |-> Table[r].owner]
DestOf == [r \in Requests |-> Table[r].dest]
CardOf == [r \in Requests |-> Table[r].card]

Private == {"pay", "gift", "receive", "deposit", "withdraw"}
Paying == {"pay", "withdraw", "public"}
Kinds == Private \cup {"open", "public", "claim", "upgrade"}

ASSUME RequestShape ==
    /\ NoOwner \notin Owners
    /\ NoCard \notin Cards
    /\ \A r \in Requests :
          /\ KindOf[r] \in Kinds
          /\ OwnerOf[r] \in Owners
          /\ IF KindOf[r] \in Paying THEN DestOf[r] \in Owners ELSE DestOf[r] = NoOwner
          /\ IF KindOf[r] \in {"gift", "claim"} THEN CardOf[r] \in Cards
                                                ELSE CardOf[r] = NoCard
ASSUME Bounds ==
    /\ IsFiniteSet(Requests)
    /\ {Purse, MaxUses, MaxOpens, MaxArrivals} \subseteq Nat

VARIABLES
    pc,        \* where the handler of a request is
    held,      \* request -> the locks it holds
    named,     \* request -> the temporary incoming account it names (index)
    quarks,    \* request -> quarks it moves
    accepted,  \* database: requests whose intent was saved
    balance,   \* account -> quarks, computed from the actions saved
    latest,    \* owner -> index of the latest temporary incoming account
    uses       \* owner -> payments made to that account

rpc == <<pc, held, named, quarks>>
ledger == <<accepted, balance, latest, uses>>
vars == <<rpc, ledger>>

Places == {"idle", "intent", "owner", "phone", "existing", "dest", "card",
           "allow", "sign", "commit", "return", "done"}
Accounts == {<<"primary", o>> : o \in Owners} \cup {<<"buckets", o>> : o \in Owners}
            \cup {<<"incoming", o>> : o \in Owners}
            \cup {<<"closed", o>> : o \in Owners} \cup {<<"card", c>> : c \in Cards}

-----------------------------------------------------------------------------
(* Locks: a table of stripes for each of the four kinds of key.            *)

IntentLock(r) == <<"intent", Stripe[IntentOf[r]]>>
OwnerLock(o) == <<"owner", Stripe[o]>>
PhoneLock(r) == <<"phone", Stripe[PhoneOf[OwnerOf[r]]]>>
CardLock(r) == <<"card", Stripe[CardOf[r]]>>

Free(lock) == \A q \in Requests : lock \notin held[q]

Goto(r, place) == pc' = [pc EXCEPT ![r] = place]

\* lock.Lock() on the way to place: waits, without a timeout.
Acquire(r, lock, place) ==
    /\ Free(lock)
    /\ held' = [held EXCEPT ![r] = @ \cup {lock}]
    /\ Goto(r, place)

-----------------------------------------------------------------------------
(* The accounts of a request.                                              *)

\* The owner of the temporary incoming account that is paid.
Receiver(r) == IF KindOf[r] = "pay" THEN DestOf[r] ELSE OwnerOf[r]

Source(r) ==
    CASE KindOf[r] \in {"pay", "gift", "withdraw"} -> <<"buckets", OwnerOf[r]>>
      [] KindOf[r] \in {"public", "deposit"}       -> <<"primary", OwnerOf[r]>>
      [] KindOf[r] = "receive"                     -> <<"incoming", OwnerOf[r]>>
      [] KindOf[r] = "claim"                       -> <<"card", CardOf[r]>>

\* An action pays the account it names, the latest one or not.
Target(r) ==
    CASE KindOf[r] \in {"pay", "claim"} ->
            <<IF named[r] = latest[Receiver(r)] THEN "incoming" ELSE "closed",
              Receiver(r)>>
      [] KindOf[r] \in {"withdraw", "public"}  -> <<"primary", DestOf[r]>>
      [] KindOf[r] = "gift"                    -> <<"card", CardOf[r]>>
      [] KindOf[r] \in {"receive", "deposit"}  -> <<"buckets", OwnerOf[r]>>

-----------------------------------------------------------------------------
(* Checks.                                                                 *)

\* GetIntent finds a record.
Exists(r) ==
    \E q \in accepted : KindOf[q] # "upgrade" /\ IntentOf[q] = IntentOf[r]

Opened(o) == \E q \in accepted : KindOf[q] = "open" /\ OwnerOf[q] = o
Issued(c) == \E q \in accepted : KindOf[q] = "gift" /\ CardOf[q] = c
Claimed(c) == \E q \in accepted : KindOf[q] = "claim" /\ CardOf[q] = c

\* Mutant: an action is upgraded again.
AllowUpdateAgain(r) ==
    \E q \in accepted :
        KindOf[q] \in Private /\ IntentOf[q] = IntentOf[r] /\ OwnerOf[q] = OwnerOf[r]

\* The same owner upgrades a private action that has not been upgraded.
AllowUpdate(r) ==
    /\ \E q \in accepted :
          KindOf[q] \in Private /\ IntentOf[q] = IntentOf[r] /\ OwnerOf[q] = OwnerOf[r]
    /\ \A q \in accepted : KindOf[q] = "upgrade" => IntentOf[q] # IntentOf[r]

\* The phone number has not opened its share of accounts.
AllowOpenAccounts(r) ==
    Cardinality({q \in accepted : KindOf[q] = "open" /\ PhoneOf[OwnerOf[q]] = PhoneOf[OwnerOf[r]]})
        < MaxOpens

\* Mutant: an account that is not the latest one is paid.
AllowAnyIncoming(r) == uses[Receiver(r)] < MaxUses

\* A payment goes to the latest temporary incoming account, used sparingly.
AllowIncoming(r) ==
    /\ named[r] = latest[Receiver(r)]
    /\ uses[Receiver(r)] < MaxUses

\* LocalSimulation: the source covers the transfer.
AllowTransfer(r) == balance[Source(r)] >= quarks[r]

AllowCreation(r) ==
    CASE KindOf[r] = "open"     -> AllowOpenAccounts(r) /\ ~Opened(OwnerOf[r])
      [] KindOf[r] = "pay"      -> AllowTransfer(r) /\ AllowIncoming(r) /\ DestOf[r] # OwnerOf[r]
      [] KindOf[r] = "withdraw" -> AllowTransfer(r)
      [] KindOf[r] = "public"   -> AllowTransfer(r) /\ DestOf[r] # OwnerOf[r]
      [] KindOf[r] = "deposit"  -> AllowTransfer(r)
      [] KindOf[r] = "gift"     -> AllowTransfer(r) /\ ~Issued(CardOf[r])
      [] KindOf[r] = "claim"    -> /\ Issued(CardOf[r]) /\ ~Claimed(CardOf[r])
                                /\ balance[Source(r)] = quarks[r]
                                /\ AllowIncoming(r)
      [] KindOf[r] = "receive"  -> \* it closes the account, which must be empty then
                                /\ named[r] = latest[OwnerOf[r]]
                                /\ quarks[r] > 0 /\ balance[Source(r)] = quarks[r]

\* The unique keys of the actions and of the accounts let the records in.
Storable(r) ==
    /\ KindOf[r] # "upgrade" => ~Exists(r)
    /\ KindOf[r] = "open" => ~Opened(OwnerOf[r])
    /\ KindOf[r] = "gift" => ~Issued(CardOf[r])
    /\ KindOf[r] = "receive" => named[r] = latest[OwnerOf[r]]

-----------------------------------------------------------------------------
(* What the commit of a request does to the ledger.                        *)

\* Receiving closes the incoming account: what is left on it stays behind.
Settled(r) ==
    CASE KindOf[r] \in {"open", "upgrade"} -> balance
      [] KindOf[r] = "receive" ->
            [balance EXCEPT
                ![<<"buckets", OwnerOf[r]>>] = @ + quarks[r],
                ![<<"closed", OwnerOf[r]>>] = @ + balance[Source(r)] - quarks[r],
                ![<<"incoming", OwnerOf[r]>>] = 0]
      [] OTHER ->
            LET paid == [balance EXCEPT ![Source(r)] = @ - quarks[r]]
            IN  [paid EXCEPT ![Target(r)] = @ + quarks[r]]

\* Receiving opens the next incoming account; a payment uses the latest one.
Latest(r) ==
    IF KindOf[r] = "receive" THEN [latest EXCEPT ![OwnerOf[r]] = @ + 1] ELSE latest

Uses(r) ==
    CASE KindOf[r] = "receive" -> [uses EXCEPT ![OwnerOf[r]] = 0]
      [] KindOf[r] \in {"pay", "claim"} /\ named[r] = latest[Receiver(r)] ->
            [uses EXCEPT ![Receiver(r)] = @ + 1]
      [] OTHER -> uses

-----------------------------------------------------------------------------
(* The handler.                                                            *)

Init ==
    /\ pc = [r \in Requests |-> "idle"]
    /\ held = [r \in Requests |-> {}]
    /\ named = [r \in Requests |-> 0]
    /\ quarks = [r \in Requests |-> 1]
    /\ accepted = {}
    /\ balance = [a \in Accounts |-> IF a[1] \in {"primary", "buckets"} THEN Purse ELSE 0]
    /\ latest = [o \in Owners |-> 0]
    /\ uses = [o \in Owners |-> 0]

\* A client sends what it sees now: the latest incoming account, its balance.
Arrive(r) ==
    /\ pc[r] = "idle"
    /\ Cardinality({q \in Requests : pc[q] # "idle"}) < MaxArrivals
    /\ Goto(r, "intent")
    /\ named' = [named EXCEPT ![r] = latest[Receiver(r)]]
    /\ quarks' = [quarks EXCEPT ![r] =
                     IF KindOf[r] = "receive" THEN balance[Source(r)] ELSE 1]
    /\ UNCHANGED <<held, ledger>>

LockIntent(r) == pc[r] = "intent" /\ Acquire(r, IntentLock(r), "owner")
\* Mutant: the initiator is not locked.
LockNoOwner(r) == pc[r] = "owner" /\ Goto(r, "phone") /\ UNCHANGED held
LockOwner(r) == pc[r] = "owner" /\ Acquire(r, OwnerLock(OwnerOf[r]), "phone")
LockPhone(r) == pc[r] = "phone" /\ Acquire(r, PhoneLock(r), "existing")

\* The intent is read.  An update is checked at once and gives the phone lock
\* back; a creation has to be new, and opening accounts again is a no-op.
CheckExisting(r) ==
    /\ pc[r] = "existing"
    /\ IF KindOf[r] = "upgrade"
       THEN IF AllowUpdate(r)
            THEN Goto(r, "sign") /\ held' = [held EXCEPT ![r] = @ \ {PhoneLock(r)}]
            ELSE Goto(r, "return") /\ UNCHANGED held
       ELSE /\ IF Exists(r) \/ (KindOf[r] = "open" /\ Opened(OwnerOf[r]))
               THEN Goto(r, "return")
               ELSE Goto(r, "dest")
            /\ UNCHANGED held

\* Mutant: the owner who is paid is not locked.
LockNoDestination(r) == pc[r] = "dest" /\ Goto(r, "card") /\ UNCHANGED held

\* Mutant: the lock is taken even when it is the one already held.
LockDestinationTwice(r) ==
    /\ pc[r] = "dest"
    /\ IF DestOf[r] = NoOwner
       THEN Goto(r, "card") /\ UNCHANGED held
       ELSE Acquire(r, OwnerLock(DestOf[r]), "card")

\* The lock of the owner who is paid, unless it is the one already held.
LockDestination(r) ==
    /\ pc[r] = "dest"
    /\ IF DestOf[r] = NoOwner \/ OwnerLock(DestOf[r]) = OwnerLock(OwnerOf[r])
       THEN Goto(r, "card") /\ UNCHANGED held
       ELSE Acquire(r, OwnerLock(DestOf[r]), "card")

LockCard(r) ==
    /\ pc[r] = "card"
    /\ IF CardOf[r] = NoCard
       THEN Goto(r, "allow") /\ UNCHANGED held
       ELSE Acquire(r, CardLock(r), "allow")

\* The creation is validated, and the phone lock is given back early.
Allow(r) ==
    /\ pc[r] = "allow"
    /\ IF AllowCreation(r)
       THEN Goto(r, "sign") /\ held' = [held EXCEPT ![r] = @ \ {PhoneLock(r)}]
       ELSE Goto(r, "return") /\ UNCHANGED held

\* The client gets the server parameters and answers with its signatures.
Sign(r) == pc[r] = "sign" /\ Goto(r, "commit") /\ UNCHANGED held

\* Anything between two locks may fail: a query, the treasury's stock of
\* funds, the nonces, a signature or the time to send it, the transaction.
Fail(r) ==
    /\ pc[r] \in {"existing", "allow", "sign", "commit"}
    /\ Goto(r, "return")
    /\ UNCHANGED held

\* The deferred unlocks.
Return(r) ==
    /\ pc[r] = "return"
    /\ Goto(r, "done")
    /\ held' = [held EXCEPT ![r] = {}]

\* ExecuteInTx: the intent, its actions and its accounts, or nothing.
Commit(r) ==
    /\ pc[r] = "commit"
    /\ Storable(r)
    /\ Goto(r, "return")
    /\ accepted' = accepted \cup {r}
    /\ balance' = Settled(r)
    /\ latest' = Latest(r)
    /\ uses' = Uses(r)
    /\ UNCHANGED <<held, named, quarks>>

Lock(r) ==
    \/ LockIntent(r)
    \/ LockOwner(r)
    \/ LockPhone(r)
    \/ LockDestination(r)
    \/ LockCard(r)

Work(r) ==
    \/ CheckExisting(r)
    \/ Allow(r)
    \/ Sign(r)
    \/ Fail(r)
    \/ Return(r)

Step(r) ==
    \/ (Lock(r) \/ Work(r)) /\ UNCHANGED <<named, quarks, ledger>>
    \/ Commit(r)

Next == \E r \in Requests : Arrive(r) \/ Step(r)

Spec == Init /\ [][Next]_vars

\* Some handler that can move does: no more is asked of the scheduler.
FairSpec == Spec /\ WF_vars(\E r \in Requests : Step(r))

-----------------------------------------------------------------------------
(* Properties.                                                             *)

\* The type of every variable of SubmitIntent and of the database it writes.
TypeOK ==
    /\ pc \in [Requests -> Places]
    /\ named \in [Requests -> Nat]
    /\ quarks \in [Requests -> Int]
    /\ accepted \subseteq Requests
    /\ balance \in [Accounts -> Int]
    /\ latest \in [Owners -> Nat]
    /\ uses \in [Owners -> Nat]
    /\ DOMAIN held = Requests

\* No account pays more than it holds, whoever else is spending from it: the
\* balance that LocalSimulation read (local_simulation.go:470) is still there
\* when the payment is committed, after the wait for the client's signatures.
NoOverdraft == \A a \in Accounts : balance[a] >= 0

\* No payment ends up on a temporary incoming account that its owner has
\* closed: the account that was the latest one when the payment was validated
\* (intent_handler.go:682) is the latest one when it is committed.
NoPaymentToClosedAccount == \A o \in Owners : balance[<<"closed", o>>] = 0

\* A temporary incoming account is paid a limited number of times
\* (validateMinimalTempIncomingAccountUsage, intent_handler.go:2941), however
\* many payers are validated at once.
IncomingIsUsedSparingly == \A o \in Owners : uses[o] <= MaxUses

\* SubmitIntent keeps the promise of IntentLedger: validating under the locks
\* and committing later is the same as doing both at once.
Ledger == INSTANCE IntentLedger WITH
    wallet <- [o \in Owners |-> balance[<<"primary", o>>] + balance[<<"buckets", o>>]],
    pending <- [o \in Owners |-> balance[<<"incoming", o>>]],
    gift <- [c \in Cards |-> balance[<<"card", c>>]],
    Purse <- 2 * Purse

IsAtomic == Ledger!Spec

\* Every request that arrives is answered (there are finitely many, so it is
\* enough that again and again none is in flight): handlers never wait for
\* each other's locks in a circle (intent.go:277, 363).
EveryRequestEnds == []<>(\A r \in Requests : pc[r] \in {"idle", "done"})
===============================================================================
