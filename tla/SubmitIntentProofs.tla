-------------------------- MODULE SubmitIntentProofs --------------------------
(***************************************************************************)
(* What is proved of SubmitIntent, for any requests, owners, cards, phone  *)
(* numbers and stripes:                                                    *)
(*   - TypeCorrect: every variable keeps its type;                         *)
(*   - LedgerSafe: no account is overdrawn, paid after it was closed or    *)
(*     paid too often;                                                     *)
(*   - Atomic: the RPC implements IntentLedger.                            *)
(* The inductive invariant says that locks exclude each other (MutexInv),  *)
(* which locks a handler holds where (HoldInv), and that what it has       *)
(* checked under them is still true (FreshInv, AdmitInv).                  *)
(***************************************************************************)
EXTENDS SubmitIntent, TLAPS

\* No two handlers hold one lock.
MutexInv ==
    \A q, r \in Requests : \A lock \in held[q] : lock \in held[r] => q = r

\* The locks that a handler holds when it is beyond the steps that take them.
Holds(r) ==
    /\ pc[r] \in Places \ {"idle", "intent", "return", "done"} =>
           IntentLock(r) \in held[r]
    /\ pc[r] \in Places \ {"idle", "intent", "owner", "return", "done"} =>
           OwnerLock(OwnerOf[r]) \in held[r]
    /\ pc[r] \in {"card", "allow", "sign", "commit"} /\ DestOf[r] # NoOwner =>
           OwnerLock(DestOf[r]) \in held[r]
    /\ pc[r] \in {"allow", "sign", "commit"} /\ CardOf[r] # NoCard =>
           CardLock(r) \in held[r]
HoldInv == \A r \in Requests : Holds(r)

\* A handler of a new intent is still the first one.
FreshInv ==
    \A r \in Requests :
        /\ pc[r] \in {"dest", "card", "allow"} => KindOf[r] # "upgrade"
        /\ pc[r] \in {"dest", "card", "allow", "sign", "commit"} /\ KindOf[r] # "upgrade"
              => ~Exists(r)

\* What was validated, but for the limit of the phone number.
Admissible(r) ==
    /\ KindOf[r] \in Private \cup {"public", "claim"} => balance[Source(r)] >= quarks[r]
    /\ KindOf[r] \in {"receive", "claim"} => balance[Source(r)] = quarks[r]
    /\ KindOf[r] = "receive" => quarks[r] > 0 /\ named[r] = latest[OwnerOf[r]]
    /\ KindOf[r] \in {"pay", "claim"} => AllowIncoming(r)
    /\ KindOf[r] = "open" => ~Opened(OwnerOf[r])
    /\ KindOf[r] = "gift" => ~Issued(CardOf[r])
    /\ KindOf[r] = "upgrade" => AllowUpdate(r)

\* It is still true when the handler commits.
AdmitInv == \A r \in Requests : pc[r] \in {"sign", "commit"} => Admissible(r)

\* Every payment but a receipt moves one quark.
QuarksInv ==
    \A r \in Requests :
        KindOf[r] # "receive" => quarks[r] = 1

SafeLedger == NoOverdraft /\ NoPaymentToClosedAccount /\ IncomingIsUsedSparingly

LockInv == MutexInv /\ HoldInv
IntentInv == TypeOK /\ LockInv /\ FreshInv /\ AdmitInv /\ QuarksInv /\ SafeLedger

(***************************************************************************)
(* Accounts and types.                                                     *)
(***************************************************************************)

Purses == {"primary", "buckets", "incoming", "closed"}
Moving == Private \cup {"public", "claim"}

LEMMA AccountsOf ==
    /\ \A o \in Owners, k \in Purses : <<k, o>> \in Accounts
    /\ \A c \in Cards : <<"card", c>> \in Accounts
  BY DEF Accounts, Purses

\* A request moves quarks between accounts that exist.
LEMMA Ends ==
    ASSUME NEW r \in Requests, KindOf[r] \in Moving
    PROVE  Source(r) \in Accounts /\ Target(r) \in Accounts
<1>1. /\ OwnerOf[r] \in Owners
      /\ KindOf[r] \in Paying => DestOf[r] \in Owners
      /\ KindOf[r] \in {"gift", "claim"} => CardOf[r] \in Cards
  BY RequestShape
<1>2. Source(r) \in Accounts
  BY <1>1, AccountsOf DEF Source, Purses, Moving, Private
<1>3. Receiver(r) \in Owners \/ KindOf[r] \notin {"pay", "claim"}
  BY <1>1 DEF Receiver, Paying
<1>4. Target(r) \in Accounts
  BY <1>1, <1>3, AccountsOf DEF Target, Purses, Moving, Private, Paying
<1> QED BY <1>2, <1>4

LEMMA SettledType ==
    ASSUME TypeOK, NEW r \in Requests
    PROVE  Settled(r) \in [Accounts -> Int]
<1>1. balance \in [Accounts -> Int] /\ quarks[r] \in Int
  BY DEF TypeOK
<1>2. KindOf[r] \in Kinds /\ OwnerOf[r] \in Owners
  BY RequestShape
<1>3. CASE KindOf[r] \in {"open", "upgrade"}
  BY <1>1, <1>3 DEF Settled
<1>4. CASE KindOf[r] = "receive"
  <2> DEFINE n == balance[Source(r)]
  <2>1. n \in Int
    BY <1>1, <1>4, Ends DEF Moving, Private
  <2>2. /\ <<"buckets", OwnerOf[r]>> \in Accounts
        /\ <<"closed", OwnerOf[r]>> \in Accounts
        /\ <<"incoming", OwnerOf[r]>> \in Accounts
    BY <1>2, AccountsOf DEF Purses
  <2>3. Settled(r) = [balance EXCEPT
                ![<<"buckets", OwnerOf[r]>>] = @ + quarks[r],
                ![<<"closed", OwnerOf[r]>>] = @ + n - quarks[r],
                ![<<"incoming", OwnerOf[r]>>] = 0]
    BY <1>4 DEF Settled
  <2> HIDE DEF n
  <2> QED BY <1>1, <2>1, <2>2, <2>3
<1>5. CASE KindOf[r] \in Moving \ {"receive"}
  <2>1. Source(r) \in Accounts /\ Target(r) \in Accounts
    BY <1>5, Ends
  <2> QED BY <1>1, <1>5, <2>1 DEF Settled, Moving, Private
<1> QED BY <1>2, <1>3, <1>4, <1>5 DEF Kinds, Moving

LEMMA TypeStep == TypeOK /\ [Next]_vars => TypeOK'
<1> SUFFICES ASSUME TypeOK, [Next]_vars PROVE TypeOK'
  OBVIOUS
<1> USE DEF TypeOK, Places
<1>1. ASSUME UNCHANGED vars PROVE TypeOK'
  BY <1>1 DEF vars, rpc, ledger
<1>2. ASSUME NEW r \in Requests, Arrive(r) PROVE TypeOK'
  <2>1. Receiver(r) \in Owners
    BY RequestShape DEF Receiver, Paying
  <2>2. KindOf[r] = "receive" => balance[Source(r)] \in Int
    BY Ends DEF Moving, Private
  <2> QED BY <1>2, <2>1, <2>2 DEF Arrive, Goto, ledger
<1>3. ASSUME NEW r \in Requests, Lock(r), UNCHANGED <<named, quarks, ledger>> PROVE TypeOK'
  BY <1>3 DEF Lock, LockIntent, LockOwner, LockPhone, LockDestination, LockCard,
              Acquire, Goto, ledger
<1>4. ASSUME NEW r \in Requests, Work(r), UNCHANGED <<named, quarks, ledger>> PROVE TypeOK'
  BY <1>4 DEF Work, CheckExisting, Allow, Sign, Fail, Return, Goto, ledger
<1>5. ASSUME NEW r \in Requests, Commit(r) PROVE TypeOK'
  <2>1. OwnerOf[r] \in Owners /\ (KindOf[r] \in {"pay", "claim"} => Receiver(r) \in Owners)
    BY RequestShape DEF Receiver, Paying
  <2>2. balance' \in [Accounts -> Int]
    BY <1>5, SettledType DEF Commit
  <2>3. latest' \in [Owners -> Nat]
    BY <1>5, <2>1 DEF Commit, Latest
  <2>4. uses' \in [Owners -> Nat]
    BY <1>5, <2>1 DEF Commit, Uses
  <2> QED BY <1>5, <2>2, <2>3, <2>4 DEF Commit, Goto
<1> QED BY <1>1, <1>2, <1>3, <1>4, <1>5 DEF Next, Step

LEMMA TypeInit == Init => TypeOK
<1> SUFFICES ASSUME Init PROVE TypeOK
  OBVIOUS
<1>1. Purse \in Nat
  BY Bounds
<1> QED BY <1>1 DEF Init, TypeOK, Places

\* Every variable of SubmitIntent keeps its type, whatever the requests are.
THEOREM TypeCorrect == Spec => []TypeOK
<1>1. Init => TypeOK
  BY TypeInit
<1>2. TypeOK /\ [Next]_vars => TypeOK'
  BY TypeStep
<1> QED BY <1>1, <1>2, PTL DEF Spec

(***************************************************************************)
(* Locks.                                                                  *)
(***************************************************************************)

LEMMA LockInit == Init => LockInv
  BY DEF Init, LockInv, MutexInv, HoldInv, Holds, Places

\* A step of one handler that respects the locks of the others.
LEMMA OneHolder ==
    ASSUME TypeOK, LockInv, NEW r \in Requests, NEW place,
           pc' = [pc EXCEPT ![r] = place],
           \A q \in Requests \ {r} : held'[q] = held[q],
           \A lock \in held'[r] : lock \in held[r] \/ Free(lock),
           Holds(r)'
    PROVE  LockInv'
<1>1. MutexInv'
  BY DEF LockInv, MutexInv, Free
<1>2. ASSUME NEW q \in Requests \ {r} PROVE Holds(q)'
  <2>1. Holds(q) /\ pc'[q] = pc[q] /\ held'[q] = held[q]
    BY DEF LockInv, HoldInv, TypeOK
  <2> QED BY <2>1 DEF Holds, IntentLock, OwnerLock, CardLock
<1>3. HoldInv'
  BY <1>2 DEF HoldInv
<1> QED BY <1>1, <1>3 DEF LockInv

LEMMA LockStep == TypeOK /\ LockInv /\ [Next]_vars => LockInv'
<1> SUFFICES ASSUME TypeOK, LockInv, [Next]_vars PROVE LockInv'
  OBVIOUS
<1>ok. /\ pc \in [Requests -> Places]
       /\ DOMAIN held = Requests
       /\ \A r \in Requests : Holds(r)
  BY DEF TypeOK, LockInv, HoldInv
<1>keys. \A r \in Requests :
           /\ IntentLock(r)' = IntentLock(r)
           /\ OwnerLock(OwnerOf[r])' = OwnerLock(OwnerOf[r])
           /\ OwnerLock(DestOf[r])' = OwnerLock(DestOf[r])
           /\ CardLock(r)' = CardLock(r)
  BY DEF IntentLock, OwnerLock, CardLock
<1>1. ASSUME UNCHANGED <<pc, held>> PROVE LockInv'
  BY <1>1, <1>keys DEF LockInv, MutexInv, HoldInv, Holds
<1>2. ASSUME NEW r \in Requests, NEW place \in Places,
             Goto(r, place), UNCHANGED held,
             Holds(r)'
      PROVE  LockInv'
  BY <1>2, OneHolder DEF Goto
<1>3. ASSUME NEW r \in Requests, NEW place, NEW lock,
             Acquire(r, lock, place), Holds(r)'
      PROVE  LockInv'
  <2>1. held' = [held EXCEPT ![r] = @ \cup {lock}] /\ Free(lock) /\ Goto(r, place)
    BY <1>3 DEF Acquire
  <2>2. \A q \in Requests \ {r} : held'[q] = held[q]
    BY <2>1, <1>ok
  <2>3. held'[r] = held[r] \cup {lock}
    BY <2>1, <1>ok
  <2> QED BY <1>3, <2>1, <2>2, <2>3, OneHolder DEF Goto
<1>4. ASSUME NEW r \in Requests, Arrive(r) PROVE LockInv'
  <2>1. Holds(r)'
    BY <1>4, <1>ok DEF Arrive, Goto, Holds
  <2> QED BY <1>4, <1>2, <2>1 DEF Arrive, Places
<1>5. ASSUME NEW r \in Requests, LockIntent(r) PROVE LockInv'
  <2>1. Holds(r)'
    BY <1>5, <1>ok, <1>keys DEF LockIntent, Acquire, Goto, Holds
  <2> QED BY <1>5, <1>3, <2>1 DEF LockIntent
<1>6. ASSUME NEW r \in Requests, LockOwner(r) PROVE LockInv'
  <2>1. Holds(r)'
    BY <1>6, <1>ok, <1>keys DEF LockOwner, Acquire, Goto, Holds, Places
  <2> QED BY <1>6, <1>3, <2>1 DEF LockOwner
<1>7. ASSUME NEW r \in Requests, LockPhone(r) PROVE LockInv'
  <2>1. Holds(r)'
    BY <1>7, <1>ok, <1>keys DEF LockPhone, Acquire, Goto, Holds, Places
  <2> QED BY <1>7, <1>3, <2>1 DEF LockPhone
<1>8. ASSUME NEW r \in Requests, LockDestination(r) PROVE LockInv'
  <2>1. CASE DestOf[r] = NoOwner \/ OwnerLock(DestOf[r]) = OwnerLock(OwnerOf[r])
    <3>1. Goto(r, "card") /\ UNCHANGED held
      BY <1>8, <2>1 DEF LockDestination
    <3>2. Holds(r)'
      BY <1>8, <2>1, <3>1, <1>ok, <1>keys DEF LockDestination, Goto, Holds, Places
    <3> QED BY <1>2, <3>1, <3>2 DEF Places
  <2>2. CASE ~(DestOf[r] = NoOwner \/ OwnerLock(DestOf[r]) = OwnerLock(OwnerOf[r]))
    <3>1. Acquire(r, OwnerLock(DestOf[r]), "card")
      BY <1>8, <2>2 DEF LockDestination
    <3>2. Holds(r)'
      BY <1>8, <3>1, <1>ok, <1>keys DEF LockDestination, Acquire, Goto, Holds, Places
    <3> QED BY <1>3, <3>1, <3>2
  <2> QED BY <2>1, <2>2
<1>9. ASSUME NEW r \in Requests, LockCard(r) PROVE LockInv'
  <2>1. CASE CardOf[r] = NoCard
    <3>1. Goto(r, "allow") /\ UNCHANGED held
      BY <1>9, <2>1 DEF LockCard
    <3>2. Holds(r)'
      BY <1>9, <2>1, <3>1, <1>ok, <1>keys DEF LockCard, Goto, Holds, Places
    <3> QED BY <1>2, <3>1, <3>2 DEF Places
  <2>2. CASE CardOf[r] # NoCard
    <3>1. Acquire(r, CardLock(r), "allow")
      BY <1>9, <2>2 DEF LockCard
    <3>2. Holds(r)'
      BY <1>9, <3>1, <1>ok, <1>keys DEF LockCard, Acquire, Goto, Holds, Places
    <3> QED BY <1>3, <3>1, <3>2
  <2> QED BY <2>1, <2>2
<1>10. ASSUME NEW r \in Requests, Goto(r, "return"), UNCHANGED held PROVE LockInv'
  <2>1. Holds(r)'
    BY <1>10, <1>ok DEF Goto, Holds
  <2> QED BY <1>10, <1>2, <2>1 DEF Places
\* The phone lock is given back; nothing else depends on it.
<1>11. ASSUME NEW r \in Requests, Goto(r, "sign"), pc[r] \in {"existing", "allow"},
              held' = [held EXCEPT ![r] = @ \ {PhoneLock(r)}],
              pc[r] = "existing" => DestOf[r] = NoOwner /\ CardOf[r] = NoCard
       PROVE  LockInv'
  <2>1. held'[r] = held[r] \ {PhoneLock(r)}
    BY <1>11, <1>ok
  <2>2. /\ IntentLock(r) # PhoneLock(r)
        /\ \A o : OwnerLock(o) # PhoneLock(r)
        /\ CardLock(r) # PhoneLock(r)
    BY DEF IntentLock, OwnerLock, CardLock, PhoneLock
  <2>3. Holds(r)'
    BY <1>11, <2>1, <2>2, <1>ok, <1>keys DEF Goto, Holds, Places
  <2>4. \A q \in Requests \ {r} : held'[q] = held[q]
    BY <1>11, <1>ok
  <2> QED BY <1>11, <2>1, <2>3, <2>4, OneHolder DEF Goto
<1>12. ASSUME NEW r \in Requests, CheckExisting(r) PROVE LockInv'
  <2>1. CASE KindOf[r] = "upgrade" /\ AllowUpdate(r)
    <3>1. DestOf[r] = NoOwner /\ CardOf[r] = NoCard
      BY <2>1, RequestShape DEF Paying
    <3> QED BY <1>12, <2>1, <3>1, <1>11 DEF CheckExisting
  <2>2. CASE Goto(r, "return") /\ UNCHANGED held
    BY <2>2, <1>10
  <2>3. CASE Goto(r, "dest") /\ UNCHANGED held
    <3>1. Holds(r)'
      BY <1>12, <2>3, <1>ok, <1>keys DEF CheckExisting, Goto, Holds, Places
    <3> QED BY <2>3, <3>1, <1>2 DEF Places
  <2> QED BY <1>12, <2>1, <2>2, <2>3 DEF CheckExisting
<1>13. ASSUME NEW r \in Requests, Allow(r) PROVE LockInv'
  BY <1>13, <1>10, <1>11 DEF Allow
<1>14. ASSUME NEW r \in Requests, Sign(r) PROVE LockInv'
  <2>1. Holds(r)'
    BY <1>14, <1>ok, <1>keys DEF Sign, Goto, Holds, Places
  <2> QED BY <1>14, <2>1, <1>2 DEF Sign, Places
<1>15. ASSUME NEW r \in Requests, Return(r) PROVE LockInv'
  <2>1. held'[r] = {} /\ \A q \in Requests \ {r} : held'[q] = held[q]
    BY <1>15, <1>ok DEF Return
  <2>2. Holds(r)'
    BY <1>15, <1>ok DEF Return, Goto, Holds
  <2> QED BY <1>15, <2>1, <2>2, OneHolder DEF Return, Goto
<1>16. ASSUME NEW r \in Requests, Lock(r) PROVE LockInv'
  BY <1>16, <1>5, <1>6, <1>7, <1>8, <1>9 DEF Lock
<1>17. ASSUME NEW r \in Requests, Work(r) PROVE LockInv'
  BY <1>17, <1>10, <1>12, <1>13, <1>14, <1>15 DEF Work, Fail
<1>18. ASSUME NEW r \in Requests, Commit(r) PROVE LockInv'
  BY <1>18, <1>10 DEF Commit
<1>19. ASSUME UNCHANGED vars PROVE LockInv'
  BY <1>19, <1>1 DEF vars, rpc
<1> QED BY <1>4, <1>16, <1>17, <1>18, <1>19 DEF Next, Step

(***************************************************************************)
(* What the locks keep apart.                                              *)
(***************************************************************************)

\* Two handlers beyond the checks of intents and owners.
Apart(q, r) ==
    /\ IntentOf[q] # IntentOf[r]
    /\ OwnerOf[q] # OwnerOf[r]

\* Two handlers that have been validated.
Separate(q, r) ==
    /\ Apart(q, r)
    /\ OwnerOf[q] # DestOf[r] /\ DestOf[q] # OwnerOf[r]
    /\ DestOf[q] = DestOf[r] => DestOf[q] = NoOwner
    /\ CardOf[q] = CardOf[r] => CardOf[q] = NoCard

LEMMA HoldersApart ==
    ASSUME TypeOK, LockInv, NEW q \in Requests, NEW r \in Requests, q # r,
           {pc[q], pc[r]} \subseteq {"existing", "dest", "card", "allow", "sign", "commit"}
    PROVE  Apart(q, r)
<1>1. /\ {IntentLock(q), OwnerLock(OwnerOf[q])} \subseteq held[q]
      /\ {IntentLock(r), OwnerLock(OwnerOf[r])} \subseteq held[r]
  BY DEF LockInv, HoldInv, Holds, Places
<1>2. IntentLock(q) # IntentLock(r) /\ OwnerLock(OwnerOf[q]) # OwnerLock(OwnerOf[r])
  BY <1>1 DEF LockInv, MutexInv
<1> QED BY <1>2 DEF Apart, IntentLock

LEMMA HoldersSeparate ==
    ASSUME TypeOK, LockInv, NEW q \in Requests, NEW r \in Requests, q # r,
           {pc[q], pc[r]} \subseteq {"sign", "commit"}
    PROVE  Separate(q, r)
<1>1. Apart(q, r)
  BY HoldersApart
<1>2. \A p \in {q, r} :
        /\ OwnerLock(OwnerOf[p]) \in held[p]
        /\ DestOf[p] # NoOwner => OwnerLock(DestOf[p]) \in held[p]
        /\ CardOf[p] # NoCard => CardLock(p) \in held[p]
  BY DEF LockInv, HoldInv, Holds, Places
<1>3. \A lock \in held[q] : lock \notin held[r]
  BY DEF LockInv, MutexInv
<1>4. \A p \in {q, r} : OwnerOf[p] # NoOwner
  BY RequestShape
<1>5. OwnerOf[q] # DestOf[r] /\ DestOf[q] # OwnerOf[r]
  BY <1>2, <1>3, <1>4
<1>6. DestOf[q] = DestOf[r] => DestOf[q] = NoOwner
  BY <1>2, <1>3
<1>7. CardOf[q] = CardOf[r] => CardOf[q] = NoCard
  BY <1>2, <1>3 DEF CardLock
<1> QED BY <1>1, <1>5, <1>6, <1>7 DEF Separate

\* A commit leaves alone what another validated request relies on.
LEMMA SettledApart ==
    ASSUME TypeOK, NEW q \in Requests, NEW r \in Requests, Separate(q, r),
           KindOf[q] \in Moving
    PROVE  Settled(r)[Source(q)] = balance[Source(q)]
<1>1. /\ KindOf[r] \in Kinds
      /\ \A p \in {q, r} :
            /\ OwnerOf[p] \in Owners
            /\ KindOf[p] \in Paying => DestOf[p] \in Owners
            /\ KindOf[p] \in {"gift", "claim"} => CardOf[p] \in Cards
  BY RequestShape
<1>2. Source(q) \in Accounts
  BY Ends
<1>3. \A k \in Purses : Source(q) # <<k, OwnerOf[r]>> /\ Source(q) # <<k, DestOf[r]>>
  BY DEF Source, Separate, Apart, Purses, Moving, Private
<1>4. KindOf[r] \in {"gift", "claim"} => Source(q) # <<"card", CardOf[r]>>
  BY <1>1, RequestShape DEF Source, Separate, Moving, Private
<1>5. CASE KindOf[r] \in {"open", "upgrade"}
  BY <1>5 DEF Settled
<1>6. CASE KindOf[r] = "receive"
  BY <1>2, <1>3, <1>6 DEF Settled, TypeOK, Purses
<1>7. CASE KindOf[r] \in Moving \ {"receive"}
  <2>1. Source(q) # Source(r)
    BY <1>3, <1>4, <1>7 DEF Source, Purses, Moving, Private
  <2>2. Source(q) # Target(r)
    BY <1>3, <1>4, <1>7 DEF Target, Receiver, Purses, Moving, Private, Paying
  <2> QED BY <1>2, <1>7, <2>1, <2>2 DEF Settled, TypeOK, Moving, Private
<1> QED BY <1>1, <1>5, <1>6, <1>7 DEF Kinds, Moving

LEMMA IncomingApart ==
    ASSUME TypeOK, NEW q \in Requests, NEW r \in Requests, Separate(q, r),
           KindOf[q] \in {"pay", "claim", "receive"}
    PROVE  /\ Latest(r)[Receiver(q)] = latest[Receiver(q)]
           /\ Uses(r)[Receiver(q)] = uses[Receiver(q)]
<1>1. Receiver(q) \in Owners
  BY RequestShape DEF Receiver, Paying
<1>2. Receiver(q) # OwnerOf[r]
  BY DEF Receiver, Separate, Apart
<1>3. KindOf[r] \in {"pay", "claim"} => Receiver(q) # Receiver(r)
  BY <1>1, RequestShape DEF Receiver, Separate, Apart
<1>4. Latest(r)[Receiver(q)] = latest[Receiver(q)]
  BY <1>1, <1>2 DEF Latest, TypeOK
<1>5. Uses(r)[Receiver(q)] = uses[Receiver(q)]
  BY <1>1, <1>2, <1>3 DEF Uses, TypeOK
<1> QED BY <1>4, <1>5

(***************************************************************************)
(* What was checked is still true.                                         *)
(***************************************************************************)

LEMMA FreshStep == TypeOK /\ LockInv /\ FreshInv /\ [Next]_vars => FreshInv'
<1> SUFFICES ASSUME TypeOK, LockInv, FreshInv, [Next]_vars PROVE FreshInv'
  OBVIOUS
<1> DEFINE Checked == {"dest", "card", "allow", "sign", "commit"}
<1>ok. pc \in [Requests -> Places]
  BY DEF TypeOK
\* A handler that does not commit can only break what it relies on itself.
<1>1. ASSUME NEW r \in Requests, NEW place, pc' = [pc EXCEPT ![r] = place],
             accepted' = accepted,
             place \in Checked =>
                 \/ pc[r] \in {"dest", "card", "allow"}
                 \/ pc[r] = "sign" /\ place = "commit"
                 \/ KindOf[r] # "upgrade" /\ ~Exists(r)
                 \/ KindOf[r] = "upgrade" /\ place = "sign"
      PROVE  FreshInv'
  BY <1>1, <1>ok DEF FreshInv, Exists
<1>2. ASSUME NEW r \in Requests, Arrive(r) PROVE FreshInv'
  BY <1>2, <1>1 DEF Arrive, Goto, ledger
<1>3. ASSUME NEW r \in Requests, Lock(r), UNCHANGED ledger PROVE FreshInv'
  BY <1>3, <1>1 DEF Lock, LockIntent, LockOwner, LockPhone, LockDestination, LockCard,
                    Acquire, Goto, ledger
<1>4. ASSUME NEW r \in Requests, Work(r), UNCHANGED ledger PROVE FreshInv'
  BY <1>4, <1>1 DEF Work, CheckExisting, Allow, Sign, Fail, Return, Goto, ledger
<1>5. ASSUME NEW r \in Requests, Commit(r) PROVE FreshInv'
  <2>1. pc' = [pc EXCEPT ![r] = "return"] /\ accepted' = accepted \cup {r}
    BY <1>5 DEF Commit, Goto
  <2>2. ASSUME NEW q \in Requests \ {r}, pc'[q] \in Checked
        PROVE  /\ pc'[q] \in {"dest", "card", "allow"} => KindOf[q] # "upgrade"
               /\ KindOf[q] # "upgrade" => ~Exists(q)'
    <3>1. pc[q] = pc'[q] /\ pc[r] = "commit"
      BY <1>5, <2>1, <1>ok DEF Commit
    <3>2. IntentOf[q] # IntentOf[r]
      BY <2>2, <3>1, HoldersApart DEF Apart
    <3> QED BY <2>1, <2>2, <3>1, <3>2 DEF FreshInv, Exists
  <2> QED BY <2>1, <2>2, <1>ok DEF FreshInv
<1>6. ASSUME UNCHANGED vars PROVE FreshInv'
  BY <1>6 DEF FreshInv, Exists, vars, rpc, ledger
<1> QED BY <1>2, <1>3, <1>4, <1>5, <1>6 DEF Next, Step

LEMMA QuarksStep == TypeOK /\ QuarksInv /\ [Next]_vars => QuarksInv'
<1> SUFFICES ASSUME TypeOK, QuarksInv, [Next]_vars PROVE QuarksInv'
  OBVIOUS
<1>1. ASSUME NEW r \in Requests, Arrive(r) PROVE QuarksInv'
  BY <1>1 DEF Arrive, QuarksInv, TypeOK
<1>2. ASSUME UNCHANGED quarks PROVE QuarksInv'
  BY <1>2 DEF QuarksInv
<1> QED BY <1>1, <1>2 DEF Next, Step, Commit, vars, rpc

\* What is validated is what the commit needs.
LEMMA AllowedIsAdmissible ==
    ASSUME TypeOK, NEW r \in Requests, KindOf[r] # "upgrade", AllowCreation(r)
    PROVE  Admissible(r)
<1>1. KindOf[r] \in Kinds /\ quarks[r] \in Int
  BY RequestShape DEF TypeOK
<1>2. KindOf[r] \in Moving => balance[Source(r)] \in Int
  BY Ends DEF TypeOK
<1>3. CASE KindOf[r] = "open"
  BY <1>3 DEF AllowCreation, Admissible, Private
<1>4. CASE KindOf[r] = "receive"
  BY <1>1, <1>2, <1>4 DEF AllowCreation, Admissible, Private, Moving
<1>5. CASE KindOf[r] = "claim"
  BY <1>1, <1>2, <1>5 DEF AllowCreation, Admissible, Private, Moving
<1>6. CASE KindOf[r] \in {"pay", "withdraw", "public", "deposit", "gift"}
  BY <1>6 DEF AllowCreation, Admissible, AllowTransfer, Private
<1> QED BY <1>1, <1>3, <1>4, <1>5, <1>6 DEF Kinds, Private

\* The commit of one request leaves every other admissible.
LEMMA CommitKeepsAdmissible ==
    ASSUME TypeOK, NEW q \in Requests, NEW r \in Requests, Separate(q, r),
           Commit(r), Admissible(q)
    PROVE  Admissible(q)'
<1>1. /\ accepted' = accepted \cup {r}
      /\ balance' = Settled(r) /\ latest' = Latest(r) /\ uses' = Uses(r)
      /\ UNCHANGED <<named, quarks>>
  BY DEF Commit
<1>2. IntentOf[q] # IntentOf[r] /\ OwnerOf[q] # OwnerOf[r]
  BY DEF Separate, Apart
<1>3. KindOf[q] \in Moving => balance'[Source(q)] = balance[Source(q)]
  BY <1>1, SettledApart
<1>4. KindOf[q] \in {"pay", "claim", "receive"} =>
        latest'[Receiver(q)] = latest[Receiver(q)] /\ uses'[Receiver(q)] = uses[Receiver(q)]
  BY <1>1, IncomingApart
<1>5. /\ Source(q)' = Source(q) /\ Receiver(q)' = Receiver(q)
      /\ KindOf[q] = "receive" => Receiver(q) = OwnerOf[q]
  BY DEF Source, Receiver
<1>6. KindOf[q] \in {"pay", "claim"} => AllowIncoming(q)'
  BY <1>1, <1>4, <1>5 DEF Admissible, AllowIncoming
<1>7. KindOf[q] = "open" => ~Opened(OwnerOf[q])'
  BY <1>1, <1>2 DEF Admissible, Opened
<1>8. KindOf[q] = "gift" => ~Issued(CardOf[q])'
  <2>1. KindOf[q] = "gift" /\ KindOf[r] = "gift" => CardOf[q] # CardOf[r]
    BY RequestShape DEF Separate
  <2> QED BY <1>1, <2>1 DEF Admissible, Issued
<1>9. KindOf[q] = "upgrade" => AllowUpdate(q)'
  BY <1>1, <1>2 DEF Admissible, AllowUpdate
<1>10. KindOf[q] \in Private \cup {"public", "claim"} => balance'[Source(q)'] >= quarks'[q]
  BY <1>1, <1>3, <1>5 DEF Admissible, Moving
<1>11. KindOf[q] \in {"receive", "claim"} => balance'[Source(q)'] = quarks'[q]
  BY <1>1, <1>3, <1>5 DEF Admissible, Moving, Private
<1>12. KindOf[q] = "receive" => quarks'[q] > 0 /\ named'[q] = latest'[OwnerOf[q]]
  BY <1>1, <1>4, <1>5 DEF Admissible
<1> QED BY <1>6, <1>7, <1>8, <1>9, <1>10, <1>11, <1>12 DEF Admissible

LEMMA AdmitStep ==
    TypeOK /\ LockInv /\ FreshInv /\ AdmitInv /\ [Next]_vars => AdmitInv'
<1> SUFFICES ASSUME TypeOK, LockInv, FreshInv, AdmitInv, [Next]_vars PROVE AdmitInv'
  OBVIOUS
<1>ok. pc \in [Requests -> Places]
  BY DEF TypeOK
<1>1. ASSUME UNCHANGED <<named, quarks, ledger>>, NEW q \in Requests, Admissible(q)
      PROVE  Admissible(q)'
  <2>1. /\ Source(q)' = Source(q) /\ AllowIncoming(q)' = AllowIncoming(q)
        /\ Opened(OwnerOf[q])' = Opened(OwnerOf[q]) /\ Issued(CardOf[q])' = Issued(CardOf[q])
        /\ AllowUpdate(q)' = AllowUpdate(q)
    BY <1>1 DEF ledger, Source, AllowIncoming, Receiver, Opened, Issued, AllowUpdate
  <2> QED BY <1>1, <2>1 DEF Admissible, ledger
<1>2. ASSUME NEW r \in Requests, NEW place, pc' = [pc EXCEPT ![r] = place],
             UNCHANGED <<named, quarks, ledger>>,
             place \in {"sign", "commit"} => Admissible(r)
      PROVE  AdmitInv'
  BY <1>1, <1>2, <1>ok DEF AdmitInv
<1>3. ASSUME NEW r \in Requests, Arrive(r) PROVE AdmitInv'
  <2>1. ASSUME NEW q \in Requests, pc'[q] \in {"sign", "commit"} PROVE Admissible(q)'
    <3>1. q # r /\ pc'[q] = pc[q] /\ named'[q] = named[q] /\ quarks'[q] = quarks[q]
      BY <1>3, <2>1, <1>ok DEF Arrive, Goto, TypeOK
    <3>2. /\ Source(q)' = Source(q) /\ AllowIncoming(q)' = AllowIncoming(q)
          /\ Opened(OwnerOf[q])' = Opened(OwnerOf[q]) /\ Issued(CardOf[q])' = Issued(CardOf[q])
          /\ AllowUpdate(q)' = AllowUpdate(q)
      BY <1>3, <3>1 DEF Arrive, ledger, Source, AllowIncoming, Receiver, Opened, Issued, AllowUpdate
    <3> QED BY <1>3, <2>1, <3>1, <3>2 DEF Arrive, ledger, AdmitInv, Admissible
  <2> QED BY <2>1 DEF AdmitInv
<1>4. ASSUME NEW r \in Requests, Lock(r), UNCHANGED <<named, quarks, ledger>> PROVE AdmitInv'
  BY <1>4, <1>2 DEF Lock, LockIntent, LockOwner, LockPhone, LockDestination, LockCard,
                    Acquire, Goto
<1>5. ASSUME NEW r \in Requests, CheckExisting(r), UNCHANGED <<named, quarks, ledger>>
      PROVE  AdmitInv'
  <2>1. KindOf[r] = "upgrade" /\ AllowUpdate(r) => Admissible(r)
    BY DEF Admissible, Private
  <2> QED BY <1>5, <1>2, <2>1 DEF CheckExisting, Goto
<1>6. ASSUME NEW r \in Requests, Allow(r), UNCHANGED <<named, quarks, ledger>> PROVE AdmitInv'
  <2>1. KindOf[r] # "upgrade"
    BY <1>6 DEF Allow, FreshInv
  <2>2. AllowCreation(r) => Admissible(r)
    BY <2>1, AllowedIsAdmissible
  <2> QED BY <1>6, <1>2, <2>2 DEF Allow, Goto
<1>7. ASSUME NEW r \in Requests, Sign(r) \/ Fail(r) \/ Return(r),
             UNCHANGED <<named, quarks, ledger>>
      PROVE  AdmitInv'
  BY <1>7, <1>2 DEF Sign, Fail, Return, Goto, AdmitInv
<1>8. ASSUME NEW r \in Requests, Commit(r) PROVE AdmitInv'
  <2>1. ASSUME NEW q \in Requests, pc'[q] \in {"sign", "commit"} PROVE Admissible(q)'
    <3>1. q # r /\ pc[q] = pc'[q] /\ pc[r] = "commit"
      BY <1>8, <2>1, <1>ok DEF Commit, Goto
    <3>2. Separate(q, r) /\ Admissible(q)
      BY <2>1, <3>1, HoldersSeparate DEF AdmitInv
    <3> QED BY <1>8, <3>2, CommitKeepsAdmissible
  <2> QED BY <2>1 DEF AdmitInv
<1>9. ASSUME UNCHANGED vars PROVE AdmitInv'
  BY <1>9, <1>1 DEF AdmitInv, vars, rpc
<1> QED BY <1>3, <1>4, <1>5, <1>6, <1>7, <1>8, <1>9 DEF Next, Step, Work

(***************************************************************************)
(* The ledger.                                                             *)
(***************************************************************************)

\* What an admissible request moves is there, and goes to an open account.
LEMMA AdmissibleIsSafe ==
    ASSUME TypeOK, QuarksInv, SafeLedger, NEW r \in Requests, Admissible(r), Commit(r)
    PROVE  SafeLedger'
<1>1. balance' = Settled(r) /\ latest' = Latest(r) /\ uses' = Uses(r)
  BY DEF Commit
<1>2. KindOf[r] \in Kinds /\ OwnerOf[r] \in Owners
  BY RequestShape
<1>3. balance \in [Accounts -> Int] /\ quarks[r] \in Int /\ uses \in [Owners -> Nat]
  BY DEF TypeOK
<1>4. NoOverdraft' /\ NoPaymentToClosedAccount'
  <2>1. CASE KindOf[r] \in {"open", "upgrade"}
    BY <1>1, <2>1 DEF Settled, SafeLedger, NoOverdraft, NoPaymentToClosedAccount
  <2>2. CASE KindOf[r] = "receive"
    <3>1. balance[Source(r)] = quarks[r] /\ quarks[r] > 0
      BY <2>2 DEF Admissible
    <3>2. \A o \in Owners, k \in Purses : <<k, o>> \in Accounts
      BY AccountsOf
    <3>3. balance' = [balance EXCEPT
                ![<<"buckets", OwnerOf[r]>>] = @ + quarks[r],
                ![<<"closed", OwnerOf[r]>>] = @ + quarks[r] - quarks[r],
                ![<<"incoming", OwnerOf[r]>>] = 0]
      BY <1>1, <2>2, <3>1 DEF Settled
    <3>4. ASSUME NEW a \in Accounts PROVE balance'[a] >= 0
      BY <1>2, <1>3, <3>1, <3>2, <3>3 DEF SafeLedger, NoOverdraft, Purses
    <3>5. ASSUME NEW o \in Owners PROVE balance'[<<"closed", o>>] = 0
      <4> DEFINE c == <<"closed", o>>
      <4>1. c \in Accounts /\ balance[c] = 0
        BY <3>2 DEF SafeLedger, NoPaymentToClosedAccount, Purses
      <4>2. c # <<"buckets", OwnerOf[r]>> /\ c # <<"incoming", OwnerOf[r]>>
        OBVIOUS
      <4>3. balance'[c] = balance[c] \/ balance'[c] = balance[c] + quarks[r] - quarks[r]
        BY <3>3, <4>1, <4>2, <1>3
      <4> QED BY <1>3, <4>1, <4>3
    <3> QED BY <3>4, <3>5 DEF NoOverdraft, NoPaymentToClosedAccount
  <2>3. CASE KindOf[r] \in Moving \ {"receive"}
    <3>1. /\ balance[Source(r)] >= 1 /\ quarks[r] = 1
          /\ Source(r) \in Accounts /\ Target(r) \in Accounts
      BY <2>3, Ends DEF Admissible, QuarksInv, Moving
    <3>2. balance' = [[balance EXCEPT ![Source(r)] = @ - 1] EXCEPT ![Target(r)] = @ + 1]
      BY <1>1, <2>3, <3>1 DEF Settled, Moving, Private
    <3>3. \A o : Source(r) # <<"closed", o>> /\ Target(r) # <<"closed", o>>
      BY <2>3 DEF Source, Target, Admissible, AllowIncoming, Moving, Private
    <3>4. ASSUME NEW a \in Accounts PROVE balance'[a] >= 0
      BY <1>3, <3>1, <3>2 DEF SafeLedger, NoOverdraft
    <3>5. ASSUME NEW o \in Owners PROVE balance'[<<"closed", o>>] = 0
      BY <1>3, <3>1, <3>2, <3>3, AccountsOf DEF SafeLedger, NoPaymentToClosedAccount, Purses
    <3> QED BY <3>4, <3>5 DEF NoOverdraft, NoPaymentToClosedAccount
  <2> QED BY <1>2, <2>1, <2>2, <2>3 DEF Kinds, Moving
<1>5. IncomingIsUsedSparingly'
  <2>1. MaxUses \in Nat
    BY Bounds
  <2>2. KindOf[r] \in {"pay", "claim"} => AllowIncoming(r) /\ Receiver(r) \in Owners
    BY RequestShape DEF Admissible, Receiver, Paying
  <2> QED BY <1>1, <1>2, <1>3, <2>1, <2>2
          DEF Uses, AllowIncoming, SafeLedger, IncomingIsUsedSparingly
<1> QED BY <1>4, <1>5 DEF SafeLedger

LEMMA SafeStep ==
    TypeOK /\ AdmitInv /\ QuarksInv /\ SafeLedger /\ [Next]_vars => SafeLedger'
<1> SUFFICES ASSUME TypeOK, AdmitInv, QuarksInv, SafeLedger, [Next]_vars PROVE SafeLedger'
  OBVIOUS
<1>1. ASSUME UNCHANGED ledger PROVE SafeLedger'
  BY <1>1 DEF ledger, SafeLedger, NoOverdraft, NoPaymentToClosedAccount, IncomingIsUsedSparingly
<1>2. ASSUME NEW r \in Requests, Commit(r) PROVE SafeLedger'
  <2>1. Admissible(r)
    BY <1>2 DEF Commit, AdmitInv
  <2> QED BY <1>2, <2>1, AdmissibleIsSafe
<1> QED BY <1>1, <1>2 DEF Next, Step, Arrive, vars

LEMMA IntentInit == Init => IntentInv
<1> SUFFICES ASSUME Init PROVE IntentInv
  OBVIOUS
<1>1. FreshInv /\ AdmitInv /\ QuarksInv
  BY DEF Init, FreshInv, AdmitInv, QuarksInv
<1>2. SafeLedger
  <2>1. Purse \in Nat /\ MaxUses \in Nat
    BY Bounds
  <2>2. NoOverdraft /\ IncomingIsUsedSparingly
    BY <2>1 DEF Init, NoOverdraft, IncomingIsUsedSparingly
  <2>3. NoPaymentToClosedAccount
    BY AccountsOf DEF Init, NoPaymentToClosedAccount, Purses
  <2> QED BY <2>2, <2>3 DEF SafeLedger
<1> QED BY <1>1, <1>2, TypeInit, LockInit DEF IntentInv

LEMMA IntentStep == IntentInv /\ [Next]_vars => IntentInv'
  BY TypeStep, LockStep, FreshStep, AdmitStep, QuarksStep, SafeStep DEF IntentInv

LEMMA IntentCorrect == Spec => []IntentInv
  BY IntentInit, IntentStep, PTL DEF Spec

\* Whatever is committed between the checks of a handler and its own commit, no
\* account is overdrawn (LocalSimulation under the lock of the owner).
THEOREM LedgerSafe == Spec => []NoOverdraft
<1>1. IntentInv => NoOverdraft
  BY DEF IntentInv, SafeLedger
<1> QED BY <1>1, IntentCorrect, PTL

\* No payment ends up on an account that was closed while the payer's client
\* signed, because the owner who is paid is locked as well.
THEOREM OpenAccountsPaid == Spec => []NoPaymentToClosedAccount
<1>1. IntentInv => NoPaymentToClosedAccount
  BY DEF IntentInv, SafeLedger
<1> QED BY <1>1, IntentCorrect, PTL

\* A temporary incoming account is not paid more often than privacy allows,
\* however many payments to it are validated before the first one commits.
THEOREM IncomingUsedSparingly == Spec => []IncomingIsUsedSparingly
<1>1. IntentInv => IncomingIsUsedSparingly
  BY DEF IntentInv, SafeLedger
<1> QED BY <1>1, IntentCorrect, PTL

(***************************************************************************)
(* SubmitIntent implements IntentLedger.                                   *)
(***************************************************************************)

Wallet == [o \in Owners |-> balance[<<"primary", o>>] + balance[<<"buckets", o>>]]
Pending == [o \in Owners |-> balance[<<"incoming", o>>]]
Gift == [c \in Cards |-> balance[<<"card", c>>]]

LEMMA SumIsInt ==
    \A a, b : a \in Int /\ b \in Int => a + b \in Int
  OBVIOUS

LEMMA MoneyType ==
    ASSUME TypeOK
    PROVE  /\ Wallet \in [Owners -> Int] /\ Pending \in [Owners -> Int]
           /\ Gift \in [Cards -> Int]
<1>1. /\ \A o \in Owners : /\ balance[<<"primary", o>>] \in Int
                           /\ balance[<<"buckets", o>>] \in Int
                           /\ balance[<<"incoming", o>>] \in Int
      /\ \A c \in Cards : balance[<<"card", c>>] \in Int
  BY AccountsOf DEF TypeOK, Purses
<1>2. Wallet \in [Owners -> Int]
  <2>1. \A o \in Owners : balance[<<"primary", o>>] + balance[<<"buckets", o>>] \in Int
    BY <1>1, SumIsInt, Zenon
  <2> QED BY <2>1 DEF Wallet
<1>3. Pending \in [Owners -> Int] /\ Gift \in [Cards -> Int]
  BY <1>1 DEF Pending, Gift
<1> QED BY <1>2, <1>3

\* What a transfer adds to an account.
Change(r, a) == (IF a = Target(r) THEN 1 ELSE 0) - (IF a = Source(r) THEN 1 ELSE 0)

\* A transfer takes one quark from its source and adds one to its target.
LEMMA Moved ==
    ASSUME TypeOK, QuarksInv, NEW r \in Requests, Commit(r),
           KindOf[r] \in Moving \ {"receive"}
    PROVE  /\ \A o \in Owners :
                 /\ Wallet'[o] = Wallet[o] + Change(r, <<"primary", o>>)
                                           + Change(r, <<"buckets", o>>)
                 /\ Pending'[o] = Pending[o] + Change(r, <<"incoming", o>>)
           /\ \A c \in Cards : Gift'[c] = Gift[c] + Change(r, <<"card", c>>)
<1>1. Source(r) \in Accounts /\ Target(r) \in Accounts /\ quarks[r] = 1
  BY Ends DEF QuarksInv
<1>2. balance' = [[balance EXCEPT ![Source(r)] = @ - 1] EXCEPT ![Target(r)] = @ + 1]
  BY <1>1 DEF Commit, Settled, Moving, Private
<1>3. \A a \in Accounts : balance'[a] = balance[a] + Change(r, a)
  BY <1>1, <1>2 DEF TypeOK, Change
<1>4. \A a \in Accounts : balance[a] \in Int /\ Change(r, a) \in Int
  BY DEF TypeOK, Change
<1>5. ASSUME NEW o \in Owners
      PROVE  /\ Wallet'[o] = Wallet[o] + Change(r, <<"primary", o>>)
                                       + Change(r, <<"buckets", o>>)
             /\ Pending'[o] = Pending[o] + Change(r, <<"incoming", o>>)
  <2>1. {<<"primary", o>>, <<"buckets", o>>, <<"incoming", o>>} \subseteq Accounts
    BY AccountsOf DEF Purses
  <2>2. /\ Wallet[o] = balance[<<"primary", o>>] + balance[<<"buckets", o>>]
        /\ Wallet'[o] = balance'[<<"primary", o>>] + balance'[<<"buckets", o>>]
        /\ Pending[o] = balance[<<"incoming", o>>]
        /\ Pending'[o] = balance'[<<"incoming", o>>]
    BY DEF Wallet, Pending
  <2> QED BY <1>3, <1>4, <2>1, <2>2
<1>6. ASSUME NEW c \in Cards
      PROVE  Gift'[c] = Gift[c] + Change(r, <<"card", c>>)
  BY <1>3, AccountsOf DEF Gift
<1> QED BY <1>5, <1>6

\* A function that differs from another at one place.
LEMMA AddsTo ==
    ASSUME NEW S, NEW f \in [S -> Int], NEW g \in [S -> Int], NEW x \in S, NEW n \in Int,
           \A y \in S : g[y] = f[y] + (IF y = x THEN n ELSE 0)
    PROVE  g = [f EXCEPT ![x] = @ + n]
  OBVIOUS

LEMMA AddsNothing ==
    ASSUME NEW S, NEW f \in [S -> Int], NEW g \in [S -> Int], \A y \in S : g[y] = f[y]
    PROVE  g = f
  OBVIOUS

\* The commit of an admissible request is a step of the ledger.
LEMMA CommitAccepts ==
    ASSUME TypeOK, QuarksInv, SafeLedger, NEW r \in Requests, Admissible(r), Commit(r)
    PROVE  Ledger!Next
<1>1. /\ KindOf[r] \in Kinds /\ OwnerOf[r] \in Owners
      /\ KindOf[r] \in Paying => DestOf[r] \in Owners
      /\ KindOf[r] \in {"gift", "claim"} => CardOf[r] \in Cards
  BY RequestShape
<1>2. accepted' = accepted \cup {r}
  BY DEF Commit
<1>3. KindOf[r] # "upgrade" => Ledger!Create(r)
  BY <1>2 DEF Commit, Storable, Exists, Ledger!Create
<1>4. /\ Wallet \in [Owners -> Int] /\ Wallet' \in [Owners -> Int]
      /\ Pending \in [Owners -> Int] /\ Pending' \in [Owners -> Int]
      /\ Gift \in [Cards -> Int] /\ Gift' \in [Cards -> Int]
  <2>1. balance' \in [Accounts -> Int]
    BY SettledType DEF Commit
  <2>2. /\ \A o \in Owners : /\ balance'[<<"primary", o>>] \in Int
                             /\ balance'[<<"buckets", o>>] \in Int
                             /\ balance'[<<"incoming", o>>] \in Int
        /\ \A c \in Cards : balance'[<<"card", c>>] \in Int
    BY <2>1, AccountsOf DEF Purses
  <2>3. \A o \in Owners : balance'[<<"primary", o>>] + balance'[<<"buckets", o>>] \in Int
    BY <2>2, SumIsInt, Zenon
  <2>4. Wallet' \in [Owners -> Int]
    BY <2>3 DEF Wallet
  <2>5. Pending' \in [Owners -> Int] /\ Gift' \in [Cards -> Int]
    BY <2>2 DEF Pending, Gift
  <2> QED BY <2>4, <2>5, MoneyType
\* The source of a transfer covers it.
<1>5. ASSUME NEW o \in Owners, KindOf[r] \in Moving \ {"receive"},
             Source(r) = <<"buckets", o>> \/ Source(r) = <<"primary", o>>
      PROVE  Wallet[o] > 0
  <2>1. balance[Source(r)] >= 1
    BY <1>5 DEF Admissible, QuarksInv, Moving
  <2>2. \A k \in {"primary", "buckets"} : balance[<<k, o>>] \in Int /\ balance[<<k, o>>] >= 0
    BY AccountsOf DEF TypeOK, SafeLedger, NoOverdraft, Purses
  <2>3. Wallet[o] = balance[<<"primary", o>>] + balance[<<"buckets", o>>]
    BY DEF Wallet
  <2> QED BY <1>5, <2>1, <2>2, <2>3
<1>6. CASE KindOf[r] = "open"
  <2>1. UNCHANGED balance /\ ~Opened(OwnerOf[r])
    BY <1>6 DEF Commit, Settled, Admissible
  <2> QED BY <1>3, <1>6, <2>1 DEF Opened, Ledger!Next, Ledger!Accept, Ledger!OpenAccounts
<1>7. CASE KindOf[r] = "upgrade"
  <2>1. UNCHANGED balance /\ AllowUpdate(r)
    BY <1>7 DEF Commit, Settled, Admissible
  <2> QED BY <1>2, <1>7, <2>1
          DEF AllowUpdate, Private, Ledger!Private, Ledger!Next, Ledger!Accept, Ledger!Upgrade
<1>8. CASE KindOf[r] = "pay"
  <2>1. Source(r) = <<"buckets", OwnerOf[r]>> /\ Target(r) = <<"incoming", DestOf[r]>>
    BY <1>8 DEF Source, Target, Receiver, Admissible, AllowIncoming
  <2>2. /\ \A o \in Owners :
             /\ Wallet'[o] = Wallet[o] + (IF o = OwnerOf[r] THEN -1 ELSE 0)
             /\ Pending'[o] = Pending[o] + (IF o = DestOf[r] THEN 1 ELSE 0)
        /\ \A c \in Cards : Gift'[c] = Gift[c]
    BY <1>4, <1>8, <2>1, Moved DEF Change, Moving, Private
  <2>3. Wallet' = [Wallet EXCEPT ![OwnerOf[r]] = @ + (-1)]
    BY <1>1, <1>4, <2>2, AddsTo
  <2>4. Pending' = [Pending EXCEPT ![DestOf[r]] = @ + 1]
    BY <1>1, <1>4, <1>8, <2>2, AddsTo DEF Paying
  <2>5. Gift' = Gift
    BY <1>4, <2>2, AddsNothing
  <2>6. Wallet[OwnerOf[r]] > 0
    BY <1>1, <1>5, <1>8, <2>1 DEF Moving, Private
  <2> QED BY <1>3, <1>8, <2>3, <2>4, <2>5, <2>6
          DEF Wallet, Pending, Gift, Ledger!Next, Ledger!Accept, Ledger!Pay, Ledger!Add
<1>9. CASE KindOf[r] \in {"public", "withdraw", "deposit"}
  <2>1. /\ Source(r) = IF KindOf[r] = "withdraw" THEN <<"buckets", OwnerOf[r]>>
                                                  ELSE <<"primary", OwnerOf[r]>>
        /\ Target(r) = IF KindOf[r] = "deposit" THEN <<"buckets", OwnerOf[r]>>
                                                 ELSE <<"primary", DestOf[r]>>
    BY <1>9 DEF Source, Target
  <2> DEFINE payee == IF KindOf[r] = "deposit" THEN OwnerOf[r] ELSE DestOf[r]
             spent == [Wallet EXCEPT ![OwnerOf[r]] = @ + (-1)]
  <2>2. payee = Ledger!Payee(r) /\ payee \in Owners
    BY <1>1, <1>9 DEF Ledger!Payee, Paying
  <2>3. /\ \A o \in Owners :
             /\ Wallet'[o] = Wallet[o] + (IF o = OwnerOf[r] THEN -1 ELSE 0)
                                       + (IF o = payee THEN 1 ELSE 0)
             /\ Pending'[o] = Pending[o]
        /\ \A c \in Cards : Gift'[c] = Gift[c]
    BY <1>4, <1>9, <2>1, Moved DEF Change, Moving, Private
  <2> HIDE DEF payee
  <2>4. spent \in [Owners -> Int]
        /\ \A o \in Owners : spent[o] = Wallet[o] + (IF o = OwnerOf[r] THEN -1 ELSE 0)
    BY <1>1, <1>4
  <2>5. Wallet' = [spent EXCEPT ![payee] = @ + 1]
    <3> HIDE DEF spent
    <3> QED BY <1>4, <2>2, <2>3, <2>4, AddsTo
  <2>6. Pending' = Pending /\ Gift' = Gift
    BY <1>4, <2>3, AddsNothing
  <2>7. Wallet[OwnerOf[r]] > 0
    BY <1>1, <1>5, <1>9, <2>1 DEF Moving, Private
  <2> QED BY <1>3, <1>9, <2>2, <2>5, <2>6, <2>7
          DEF Wallet, Pending, Gift, Ledger!Next, Ledger!Accept, Ledger!Transfer,
              Ledger!Transfers, Ledger!Add
<1>10. CASE KindOf[r] = "gift"
  <2>1. Source(r) = <<"buckets", OwnerOf[r]>> /\ Target(r) = <<"card", CardOf[r]>>
    BY <1>10 DEF Source, Target
  <2>2. /\ \A o \in Owners :
             /\ Wallet'[o] = Wallet[o] + (IF o = OwnerOf[r] THEN -1 ELSE 0)
             /\ Pending'[o] = Pending[o]
        /\ \A c \in Cards : Gift'[c] = Gift[c] + (IF c = CardOf[r] THEN 1 ELSE 0)
    BY <1>4, <1>10, <2>1, Moved DEF Change, Moving, Private
  <2>3. Wallet' = [Wallet EXCEPT ![OwnerOf[r]] = @ + (-1)]
    BY <1>1, <1>4, <2>2, AddsTo
  <2>4. Pending' = Pending
    BY <1>4, <2>2, AddsNothing
  <2>5. Gift' = [Gift EXCEPT ![CardOf[r]] = @ + 1]
    BY <1>1, <1>4, <1>10, <2>2, AddsTo
  <2>6. ~Issued(CardOf[r]) /\ Wallet[OwnerOf[r]] > 0
    BY <1>1, <1>5, <1>10, <2>1 DEF Admissible, Moving, Private
  <2> QED BY <1>3, <1>10, <2>3, <2>4, <2>5, <2>6
          DEF Wallet, Pending, Gift, Issued, Ledger!Next, Ledger!Accept, Ledger!IssueGift,
              Ledger!Add
<1>11. CASE KindOf[r] = "claim"
  <2>1. Source(r) = <<"card", CardOf[r]>> /\ Target(r) = <<"incoming", OwnerOf[r]>>
    BY <1>11 DEF Source, Target, Receiver, Admissible, AllowIncoming
  <2>2. /\ \A o \in Owners :
             /\ Wallet'[o] = Wallet[o]
             /\ Pending'[o] = Pending[o] + (IF o = OwnerOf[r] THEN 1 ELSE 0)
        /\ \A c \in Cards : Gift'[c] = Gift[c] + (IF c = CardOf[r] THEN -1 ELSE 0)
    BY <1>4, <1>11, <2>1, Moved DEF Change, Moving, Private
  <2>3. Wallet' = Wallet
    BY <1>4, <2>2, AddsNothing
  <2>4. Pending' = [Pending EXCEPT ![OwnerOf[r]] = @ + 1]
    BY <1>1, <1>4, <2>2, AddsTo
  <2>5. Gift' = [Gift EXCEPT ![CardOf[r]] = @ + (-1)]
    BY <1>1, <1>4, <1>11, <2>2, AddsTo
  <2>6. Gift[CardOf[r]] = 1
    BY <1>1, <1>11, <2>1 DEF Gift, Admissible, QuarksInv
  <2> QED BY <1>3, <1>11, <2>3, <2>4, <2>5, <2>6
          DEF Wallet, Pending, Gift, Ledger!Next, Ledger!Accept, Ledger!ClaimGift, Ledger!Add
<1>12. CASE KindOf[r] = "receive"
  <2> DEFINE o == OwnerOf[r]
             n == quarks[r]
  <2>1. balance[<<"incoming", o>>] = n /\ n > 0
    BY <1>12 DEF Admissible, Source
  <2>2. balance' = [balance EXCEPT ![<<"buckets", o>>] = @ + n,
                                   ![<<"closed", o>>] = @ + n - n,
                                   ![<<"incoming", o>>] = 0]
    BY <1>12, <2>1 DEF Commit, Settled, Source
  <2>3. /\ \A p \in Owners, k \in Purses : <<k, p>> \in Accounts
        /\ \A c \in Cards : <<"card", c>> \in Accounts
        /\ balance \in [Accounts -> Int] /\ n \in Int
    BY AccountsOf DEF TypeOK
  <2> HIDE DEF n
  <2>4. ASSUME NEW p \in Owners
        PROVE  /\ balance'[<<"primary", p>>] = balance[<<"primary", p>>]
               /\ balance'[<<"buckets", p>>] = balance[<<"buckets", p>>] + (IF p = o THEN n ELSE 0)
               /\ balance'[<<"incoming", p>>] = IF p = o THEN 0 ELSE balance[<<"incoming", p>>]
    <3>1. /\ <<"primary", p>> \in Accounts /\ <<"buckets", p>> \in Accounts
          /\ <<"incoming", p>> \in Accounts
          /\ <<"buckets", o>> \in Accounts /\ <<"closed", o>> \in Accounts
          /\ <<"incoming", o>> \in Accounts
      BY <1>1, <2>3 DEF Purses
    <3>2. balance'[<<"primary", p>>] = balance[<<"primary", p>>]
      BY <2>2, <2>3, <3>1
    <3>3. balance'[<<"buckets", p>>] = balance[<<"buckets", p>>] + (IF p = o THEN n ELSE 0)
      BY <2>2, <2>3, <3>1
    <3>4. balance'[<<"incoming", p>>] = IF p = o THEN 0 ELSE balance[<<"incoming", p>>]
      BY <2>2, <2>3, <3>1
    <3> QED BY <3>2, <3>3, <3>4
  <2>5. \A p \in Owners : balance[<<"primary", p>>] \in Int /\ balance[<<"buckets", p>>] \in Int
    BY <2>3 DEF Purses
  <2>6. \A p \in Owners : Wallet'[p] = Wallet[p] + (IF p = o THEN n ELSE 0)
    <3> SUFFICES ASSUME NEW p \in Owners
                 PROVE  Wallet'[p] = Wallet[p] + (IF p = o THEN n ELSE 0)
      OBVIOUS
    <3>1. /\ Wallet[p] = balance[<<"primary", p>>] + balance[<<"buckets", p>>]
          /\ Wallet'[p] = balance'[<<"primary", p>>] + balance'[<<"buckets", p>>]
      BY DEF Wallet
    <3> DEFINE a == balance[<<"primary", p>>]
               b == balance[<<"buckets", p>>]
               d == IF p = o THEN n ELSE 0
    <3>2. a \in Int /\ b \in Int /\ d \in Int
      BY <2>3, <2>5
    <3>3. Wallet[p] = a + b /\ Wallet'[p] = a + (b + d)
      BY <2>4, <3>1, Zenon
    <3> HIDE DEF a, b, d
    <3>4. Wallet'[p] = Wallet[p] + d
      BY <3>2, <3>3
    <3> QED BY <3>4 DEF d
  <2>7. Wallet' = [Wallet EXCEPT ![o] = @ + n]
    BY <1>1, <1>4, <2>3, <2>6, AddsTo
  <2>8. Pending' = [Pending EXCEPT ![o] = 0]
    BY <1>1, <2>4 DEF Pending
  <2>9. Pending[o] = n
    BY <1>1, <2>1 DEF Pending
  <2>10. Gift' = Gift
    BY <2>2, <2>3 DEF Gift
  <2> QED BY <1>3, <1>12, <2>1, <2>7, <2>8, <2>9, <2>10
          DEF Wallet, Pending, Gift, Ledger!Next, Ledger!Accept, Ledger!Receive, Ledger!Add
<1> QED BY <1>1, <1>6, <1>7, <1>8, <1>9, <1>10, <1>11, <1>12 DEF Kinds, Private

\* Validating under the locks and committing after the client has signed is
\* the same as doing both at once, for any requests and any interleaving.
THEOREM Atomic == Spec => IsAtomic
<1>1. Init => Ledger!Init
  <2> SUFFICES ASSUME Init PROVE Ledger!Init
    OBVIOUS
  <2>1. Purse \in Nat
    BY Bounds
  <2>2. \A o \in Owners :
          /\ balance[<<"primary", o>>] = Purse /\ balance[<<"buckets", o>>] = Purse
          /\ balance[<<"incoming", o>>] = 0
    BY AccountsOf DEF Init, Purses
  <2>3. \A c \in Cards : balance[<<"card", c>>] = 0
    BY AccountsOf DEF Init
  <2>4. \A o \in Owners : balance[<<"primary", o>>] + balance[<<"buckets", o>>] = 2 * Purse
    <3>1. Purse + Purse = 2 * Purse
      BY <2>1
    <3> QED BY <2>2, <3>1
  <2> QED BY <2>2, <2>3, <2>4 DEF Init, Ledger!Init
<1>2. IntentInv /\ [Next]_vars => [Ledger!Next]_(Ledger!vars)
  <2> SUFFICES ASSUME IntentInv, [Next]_vars PROVE [Ledger!Next]_(Ledger!vars)
    OBVIOUS
  <2>1. ASSUME NEW r \in Requests, Commit(r) PROVE Ledger!Next
    <3>1. Admissible(r)
      BY <2>1 DEF Commit, IntentInv, AdmitInv
    <3> QED BY <2>1, <3>1, CommitAccepts DEF IntentInv
  <2>2. ASSUME UNCHANGED ledger PROVE UNCHANGED Ledger!vars
    BY <2>2 DEF ledger, Ledger!vars
  <2> QED BY <2>1, <2>2 DEF Next, Step, Arrive, vars
<1> QED BY <1>1, <1>2, IntentCorrect, PTL DEF Spec, IsAtomic, Ledger!Spec
===============================================================================
