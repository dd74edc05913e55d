------------------------------ MODULE NoncePool ------------------------------
(***************************************************************************)
(* The durable nonce pool and everything that borrows from it: the nonce   *)
(* worker (pkg/code/async/nonce), SelectedNonce (pkg/code/transaction),    *)
(* the SubmitIntent and treasury sessions that attach nonces to client and *)
(* server transactions, and the part of the sequencer that submits, revokes*)
(* and settles fulfillments.                                               *)
(*                                                                         *)
(* A transaction signature is represented by the thing it signs: a         *)
(* fulfillment stands for the signature of its transaction, a nonce for the*)
(* signature of the transaction that created its account.  A blockhash is  *)
(* the number of times the nonce account was advanced on the blockchain.   *)
(***************************************************************************)
EXTENDS Integers, FiniteSets

CONSTANTS
    Nonces,         \* nonce accounts
    Seeded,         \* those already in the pool when the model starts
    Clients,        \* fulfillments signed while their intent is created
    OnDemand,       \* fulfillments whose transaction the sequencer makes
    Upgrades,       \* PermanentPrivacyTransferWithAuthority fulfillments
    Temps,          \* TemporaryPrivacyTransferWithAuthority fulfillments
    Dormants,       \* CloseDormantTimelockAccount fulfillments
    TempOf,         \* the fulfillment each upgrade replaces
    Holders,        \* sessions: RPCs and worker iterations that hold nonces
    HolderOf,       \* the session that assigns a nonce to a fulfillment
    Leaky,          \* sessions that only Unlock, as maybeSaveRecentRoot does
    Purpose,        \* nonce.Purpose of a nonce
    UseCase,        \* nonce.Purpose a fulfillment selects by
    PoolSize,       \* service.size
    InvalidLimit,   \* the 100 of generateNonceAccounts
    MaxFails,       \* bound on failed writes
    MaxCrashes,     \* bound on restarts of the process
    AllowUnlock,    \* may a timelock stop being managed during an upgrade RPC?
    NoNonce, NoSig  \* absent nonce, empty signature

Fuls == Clients \cup OnDemand \cup Upgrades
Sigs == Fuls \cup Nonces

ASSUME NonceKinds ==
    /\ Seeded \subseteq Nonces
    /\ NoNonce \notin Nonces
    /\ NoSig \notin Sigs
    /\ Fuls \cap Nonces = {}
ASSUME FulfillmentKinds ==
    /\ Clients \cap OnDemand = {}
    /\ Clients \cap Upgrades = {}
    /\ OnDemand \cap Upgrades = {}
    /\ Temps \subseteq Clients
    /\ Dormants \subseteq Clients
    /\ Temps \cap Dormants = {}
    /\ TempOf \in [Upgrades -> Temps]
    /\ \A u, v \in Upgrades : TempOf[u] = TempOf[v] => u = v
ASSUME SessionKinds ==
    /\ HolderOf \in [Fuls -> Holders]
    /\ Leaky \subseteq Holders
    /\ \A f \in OnDemand \cup Upgrades, g \in Fuls :
            HolderOf[f] = HolderOf[g] => f = g
ASSUME Bounds ==
    /\ MaxFails \in Nat
    /\ MaxCrashes \in Nat
    /\ PoolSize \in Nat
    /\ InvalidLimit \in Nat
    /\ AllowUnlock \in BOOLEAN

VARIABLES
    nState, nSig, nBh,      \* nonce store
    fState, fNonce, fBh,    \* fulfillment store
    tx, chainBh,            \* blockchain: transactions, nonce accounts
    pick,                   \* globalNonceLock is held by f, for nonce pick[f]
    sel, selBh, selSig,     \* SelectedNonce of f in memory; its lock is held
    phase,                  \* progress of a session
    work,                   \* progress of the sequencer on a fulfillment
    overdue,                \* temps whose privacy upgrade deadline passed
    closed,                 \* dormants whose timelock account is closed
    fails, crashes

nonceVars == <<nState, nSig, nBh>>
fulVars   == <<fState, fNonce, fBh>>
selVars   == <<pick, sel, selBh, selSig, phase>>
chainVars == <<tx, chainBh>>
envVars   == <<overdue, closed>>
faultVars == <<fails, crashes>>
vars == <<nonceVars, fulVars, chainVars, selVars, work, envVars, faultVars>>

NonceStates == {"None", "Unknown", "Released", "Available", "Reserved", "Invalid"}
FulfillmentStates == {"None", "Unknown", "Pending", "Revoked", "Confirmed", "Failed"}
TxStates == {"none", "sent", "finalized", "failed"}
Executed == {"finalized", "failed"}
WorkStates == {"idle", "submit", "revoke", "revokeSaved", "finishSaved"}

TypeOK ==
    /\ nState \in [Nonces -> NonceStates]
    /\ nSig \in [Nonces -> Sigs \cup {NoSig}]
    /\ nBh \in [Nonces -> Nat]
    /\ fState \in [Fuls -> FulfillmentStates]
    /\ fNonce \in [Fuls -> Nonces \cup {NoNonce}]
    /\ fBh \in [Fuls -> Nat]
    /\ tx \in [Sigs -> TxStates]
    /\ chainBh \in [Nonces -> Nat]
    /\ pick \in [Fuls -> Nonces \cup {NoNonce}]
    /\ sel \in [Fuls -> Nonces \cup {NoNonce}]
    /\ selBh \in [Fuls -> Nat]
    /\ selSig \in [Fuls -> Sigs \cup {NoSig}]
    /\ phase \in [Holders -> {"idle", "open", "closing"}]
    /\ work \in [Fuls -> WorkStates]
    /\ overdue \subseteq Temps
    /\ closed \subseteq Dormants
    /\ fails \in 0 .. MaxFails
    /\ crashes \in 0 .. MaxCrashes

Members(h) == {f \in Fuls : HolderOf[f] = h}
ClientHolders == {h \in Holders : Members(h) # {} /\ Members(h) \subseteq Clients}
Unlocked(n) == \A f \in Fuls : sel[f] # n
Upgraded(t) == \E u \in Upgrades : TempOf[u] = t /\ fState[u] # "None"

\* The pool holds the seeded nonces; on demand fulfillments were saved without
\* a transaction by the intent that created them.
Init ==
    /\ nState = [n \in Nonces |-> IF n \in Seeded THEN "Available" ELSE "None"]
    /\ nSig = [n \in Nonces |-> NoSig]
    /\ nBh = [n \in Nonces |-> IF n \in Seeded THEN 1 ELSE 0]
    /\ fState = [f \in Fuls |-> IF f \in OnDemand THEN "Unknown" ELSE "None"]
    /\ fNonce = [f \in Fuls |-> NoNonce]
    /\ fBh = [f \in Fuls |-> 0]
    /\ tx = [s \in Sigs |-> IF s \in Seeded THEN "finalized" ELSE "none"]
    /\ chainBh = [n \in Nonces |-> IF n \in Seeded THEN 1 ELSE 0]
    /\ pick = [f \in Fuls |-> NoNonce]
    /\ sel = [f \in Fuls |-> NoNonce]
    /\ selBh = [f \in Fuls |-> 0]
    /\ selSig = [f \in Fuls |-> NoSig]
    /\ phase = [h \in Holders |-> "idle"]
    /\ work = [f \in Fuls |-> "idle"]
    /\ overdue = {}
    /\ closed = {}
    /\ fails = 0
    /\ crashes = 0

-----------------------------------------------------------------------------
(* The nonce worker: generateNonceAccounts and the state machine of pool.go *)

InState(s) == {n \in Nonces : nState[n] = s}
PotentiallyAvailable == InState("Available") \cup InState("Released") \cup InState("Unknown")

CreateNonce(n) ==
    /\ nState[n] = "None"
    /\ Cardinality(InState("Invalid")) <= InvalidLimit
    /\ Cardinality(PotentiallyAvailable) < PoolSize
    /\ nState' = [nState EXCEPT ![n] = "Unknown"]
    /\ nSig' = [nSig EXCEPT ![n] = n]
    /\ UNCHANGED <<nBh, fulVars, chainVars, selVars, work, envVars, faultVars>>

BroadcastCreation(n) ==
    /\ nState[n] = "Unknown"
    /\ tx[n] = "none"
    /\ tx' = [tx EXCEPT ![n] = "sent"]
    /\ UNCHANGED <<nonceVars, fulVars, chainBh, selVars, work, envVars, faultVars>>

\* The blockchain executes the creation, or rejects it with an error.
LandCreation(n) ==
    /\ tx[n] = "sent"
    /\ \/ /\ tx' = [tx EXCEPT ![n] = "finalized"]
          /\ chainBh' = [chainBh EXCEPT ![n] = 1]
       \/ /\ tx' = [tx EXCEPT ![n] = "failed"]
          /\ UNCHANGED chainBh
    /\ UNCHANGED <<nonceVars, fulVars, selVars, work, envVars, faultVars>>

MarkReleased(n) ==
    /\ nState[n] = "Unknown"
    /\ tx[nSig[n]] = "finalized"
    /\ nState' = [nState EXCEPT ![n] = "Released"]
    /\ UNCHANGED <<nSig, nBh, fulVars, chainVars, selVars, work, envVars, faultVars>>

\* The creation failed, or was unresolved for sigTimeout: checkForMissingTx
\* looks at the clock before it looks at the blockchain.
MarkInvalid(n) ==
    /\ nState[n] = "Unknown"
    /\ nState' = [nState EXCEPT ![n] = "Invalid"]
    /\ UNCHANGED <<nSig, nBh, fulVars, chainVars, selVars, work, envVars, faultVars>>

\* handleReleased reads the account at or after the slot of the transaction.
MarkAvailable(n) ==
    /\ nState[n] = "Released"
    /\ tx[nSig[n]] \in Executed
    /\ nBh[n] # chainBh[n]
    /\ nState' = [nState EXCEPT ![n] = "Available"]
    /\ nSig' = [nSig EXCEPT ![n] = NoSig]
    /\ nBh' = [nBh EXCEPT ![n] = chainBh[n]]
    /\ UNCHANGED <<fulVars, chainVars, selVars, work, envVars, faultVars>>

-----------------------------------------------------------------------------
(* Sessions that take nonces: SubmitIntent, the airdrop, the treasury worker *)
(* and the sequencer's on demand transactions                                *)

\* An intent id is created once: its fulfillments do not exist yet.
StartIntent(h) ==
    /\ h \in ClientHolders
    /\ phase[h] = "idle"
    /\ \A f \in Members(h) : fState[f] = "None"
    /\ phase' = [phase EXCEPT ![h] = "open"]
    /\ UNCHANGED <<nonceVars, fulVars, chainVars, pick, sel, selBh, selSig, work, envVars, faultVars>>

StartOnDemand(d) ==
    /\ phase[HolderOf[d]] = "idle"
    /\ fState[d] = "Pending"
    /\ fNonce[d] = NoNonce
    /\ work[d] = "idle"
    /\ phase' = [phase EXCEPT ![HolderOf[d]] = "open"]
    /\ UNCHANGED <<nonceVars, fulVars, chainVars, pick, sel, selBh, selSig, work, envVars, faultVars>>

\* Mutant: the query forgets the purpose.
FreeOfAnyPurpose(f) == InState("Available")
Free(f) == {n \in InState("Available") : Purpose[n] = UseCase[f]}
GlobalLockFree == \A g \in Fuls : pick[g] = NoNonce

\* SelectAvailableNonce, up to the random record it reads under the global lock.
PickNonce(f, n) ==
    /\ phase[HolderOf[f]] = "open"
    /\ f \notin Upgrades
    /\ sel[f] = NoNonce
    /\ GlobalLockFree
    /\ n \in Free(f)
    /\ pick' = [pick EXCEPT ![f] = n]
    /\ UNCHANGED <<nonceVars, fulVars, chainVars, sel, selBh, selSig, phase, work, envVars, faultVars>>

\* SelectAvailableNonce, from the lock of the nonce to the end.
ReserveNonce(f) ==
    LET n == pick[f] IN
    /\ n # NoNonce
    /\ Unlocked(n)
    /\ nState[n] = "Available"
    /\ nState' = [nState EXCEPT ![n] = "Reserved"]
    /\ sel' = [sel EXCEPT ![f] = n]
    /\ selBh' = [selBh EXCEPT ![f] = nBh[n]]
    /\ selSig' = [selSig EXCEPT ![f] = nSig[n]]
    /\ pick' = [pick EXCEPT ![f] = NoNonce]
    /\ UNCHANGED <<nSig, nBh, fulVars, chainVars, phase, work, envVars, faultVars>>

\* The refetched record is no longer available, or it cannot be saved: the
\* locks are dropped and the selection is tried again.
AbandonPick(f) ==
    LET n == pick[f] IN
    /\ n # NoNonce
    /\ Unlocked(n)
    /\ \/ nState[n] # "Available" /\ UNCHANGED fails
       \/ fails < MaxFails /\ fails' = fails + 1
    /\ pick' = [pick EXCEPT ![f] = NoNonce]
    /\ UNCHANGED <<nonceVars, fulVars, chainVars, sel, selBh, selSig, phase, work, envVars, crashes>>

\* Mutant: the privacy upgrade deadline is not looked at.
StartUpgradeLate(u) ==
    LET t == TempOf[u] IN
    /\ phase[HolderOf[u]] = "idle"
    /\ fState[t] = "Unknown"
    /\ ~Upgraded(t)
    /\ phase' = [phase EXCEPT ![HolderOf[u]] = "open"]
    /\ UNCHANGED <<nonceVars, fulVars, chainVars, pick, sel, selBh, selSig, work, envVars, faultVars>>

\* GetFulfillmentBeingUpgraded, after AllowUpdate and the candidate selection
\* found the deadline far enough and the commitment not diverted.
StartUpgrade(u) ==
    LET t == TempOf[u] IN
    /\ phase[HolderOf[u]] = "idle"
    /\ fState[t] = "Unknown"
    /\ t \notin overdue
    /\ ~Upgraded(t)
    /\ phase' = [phase EXCEPT ![HolderOf[u]] = "open"]
    /\ UNCHANGED <<nonceVars, fulVars, chainVars, pick, sel, selBh, selSig, work, envVars, faultVars>>

\* Mutant: the upgrade takes a nonce of its own.
SelectFreshNonce(u) ==
    /\ phase[HolderOf[u]] = "open"
    /\ sel[u] = NoNonce
    /\ \E n \in Free(u) :
          /\ Unlocked(n)
          /\ nState' = [nState EXCEPT ![n] = "Reserved"]
          /\ sel' = [sel EXCEPT ![u] = n]
          /\ selBh' = [selBh EXCEPT ![u] = nBh[n]]
    /\ UNCHANGED <<nSig, nBh, fulVars, chainVars, pick, selSig, phase, work, envVars, faultVars>>

\* SelectNonceFromFulfillmentToUpgrade: the nonce is fetched under its lock,
\* the fulfillment is the one read when the RPC started.
SelectUpgradeNonce(u) ==
    LET t == TempOf[u]
        n == fNonce[t]
    IN  /\ phase[HolderOf[u]] = "open"
        /\ sel[u] = NoNonce
        /\ n # NoNonce
        /\ Unlocked(n)
        /\ nState[n] = "Reserved"
        /\ nBh[n] = fBh[t]
        /\ nSig[n] = t
        /\ sel' = [sel EXCEPT ![u] = n]
        /\ selBh' = [selBh EXCEPT ![u] = fBh[t]]
        /\ selSig' = [selSig EXCEPT ![u] = t]
        /\ UNCHANGED <<nonceVars, fulVars, chainVars, pick, phase, work, envVars, faultVars>>

Holding(h) == phase[h] = "open" /\ \A f \in Members(h) : sel[f] # NoNonce

\* What MarkReservedWithSignature and UpdateSignature write, for every nonce
\* the session holds: the record in memory, with the signature.
SignedBy(h, n) == {f \in Members(h) : sel[f] = n}
Signer(h, n) == CHOOSE f \in SignedBy(h, n) : TRUE
Signed(h) == {n \in Nonces : SignedBy(h, n) # {}}
SaveSigned(h) ==
    /\ nState' = [n \in Nonces |-> IF n \in Signed(h) THEN "Reserved" ELSE nState[n]]
    /\ nSig' = [n \in Nonces |-> IF n \in Signed(h) THEN Signer(h, n) ELSE nSig[n]]
    /\ nBh' = [n \in Nonces |-> IF n \in Signed(h) THEN selBh[Signer(h, n)] ELSE nBh[n]]

\* The one DB transaction of a session. On demand fulfillments stay pending.
Commit(h) ==
    /\ Members(h) # {}
    /\ Holding(h)
    /\ SaveSigned(h)
    /\ fState' = [f \in Fuls |->
                    IF f \in Members(h) \ OnDemand THEN "Unknown" ELSE fState[f]]
    /\ fNonce' = [f \in Fuls |-> IF f \in Members(h) THEN sel[f] ELSE fNonce[f]]
    /\ fBh' = [f \in Fuls |-> IF f \in Members(h) THEN selBh[f] ELSE fBh[f]]
    /\ selSig' = [f \in Fuls |-> IF f \in Members(h) THEN f ELSE selSig[f]]
    /\ phase' = [phase EXCEPT ![h] = "closing"]
    /\ UNCHANGED <<chainVars, pick, sel, selBh, work, envVars, faultVars>>

\* The DB transaction rolls back after some of the records in memory got their
\* signature.
CommitFails(h) ==
    /\ Members(h) # {}
    /\ Holding(h)
    /\ fails < MaxFails
    /\ fails' = fails + 1
    /\ \E S \in SUBSET Members(h) :
           selSig' = [f \in Fuls |-> IF f \in S THEN f ELSE selSig[f]]
    /\ phase' = [phase EXCEPT ![h] = "closing"]
    /\ UNCHANGED <<nonceVars, fulVars, chainVars, pick, sel, selBh, work, envVars, crashes>>

\* The RPC or the worker gives up: no nonce, bad client signature, timeout.
\* Only a client can leave at any time; the sequencer waits for the global lock.
Abort(h) ==
    /\ phase[h] = "open"
    /\ \A f \in Members(h) : pick[f] = NoNonce
    /\ \A d \in Members(h) \cap OnDemand :
           sel[d] # NoNonce \/ (GlobalLockFree /\ Free(d) = {})
    /\ phase' = [phase EXCEPT ![h] = "closing"]
    /\ UNCHANGED <<nonceVars, fulVars, chainVars, pick, sel, selBh, selSig, work, envVars, faultVars>>

\* The deferred ReleaseIfNotReserved and Unlock of one nonce.
Release(f) ==
    LET n == sel[f] IN
    /\ phase[HolderOf[f]] = "closing"
    /\ n # NoNonce
    /\ IF selSig[f] = NoSig /\ HolderOf[f] \notin Leaky
       THEN /\ nState' = [nState EXCEPT ![n] = "Available"]
            /\ nSig' = [nSig EXCEPT ![n] = NoSig]
            /\ nBh' = [nBh EXCEPT ![n] = selBh[f]]
       ELSE UNCHANGED nonceVars
    /\ sel' = [sel EXCEPT ![f] = NoNonce]
    /\ selBh' = [selBh EXCEPT ![f] = 0]
    /\ selSig' = [selSig EXCEPT ![f] = NoSig]
    /\ UNCHANGED <<fulVars, chainVars, pick, phase, work, envVars, faultVars>>

EndSession(h) ==
    /\ phase[h] = "closing"
    /\ \A f \in Members(h) : sel[f] = NoNonce
    /\ phase' = [phase EXCEPT ![h] = "idle"]
    /\ UNCHANGED <<nonceVars, fulVars, chainVars, pick, sel, selBh, selSig, work, envVars, faultVars>>

-----------------------------------------------------------------------------
(* The sequencer: handleUnknown and handlePending of a fulfillment          *)

\* IsRevoked of the two handlers that can answer yes.
RevokedByUpgrade(t) ==
    /\ \E u \in Upgrades : TempOf[u] = t /\ fState[u] = "Confirmed"
    /\ nSig[fNonce[t]] # t
IsRevoked(f) == f \in Dormants /\ f \in closed

\* CanSubmitToBlockchain, as far as nonces depend on it.
CanSubmit(f) == f \in Temps => f \in overdue /\ ~Upgraded(f)

DecideToSubmit(f) ==
    /\ fState[f] = "Unknown"
    /\ work[f] = "idle"
    /\ ~IsRevoked(f)
    /\ CanSubmit(f)
    /\ work' = [work EXCEPT ![f] = "submit"]
    /\ UNCHANGED <<nonceVars, fulVars, chainVars, selVars, envVars, faultVars>>

MarkPending(f) ==
    /\ work[f] = "submit"
    /\ fState' = [fState EXCEPT ![f] = "Pending"]
    /\ work' = [work EXCEPT ![f] = "idle"]
    /\ UNCHANGED <<nonceVars, fNonce, fBh, chainVars, selVars, envVars, faultVars>>

\* A nonce that the permanent transfer uses is left alone.
RevokeUsed(t) ==
    /\ t \in Temps
    /\ fState[t] = "Unknown"
    /\ work[t] = "idle"
    /\ RevokedByUpgrade(t)
    /\ work' = [work EXCEPT ![t] = "revokeSaved"]
    /\ UNCHANGED <<nonceVars, fulVars, chainVars, selVars, envVars, faultVars>>

\* Mutant: nonceUsed is answered for a transaction that was never sent.
RevokeAndKeepNonce(f) ==
    /\ fState[f] = "Unknown"
    /\ work[f] = "idle"
    /\ IsRevoked(f)
    /\ work' = [work EXCEPT ![f] = "revokeSaved"]
    /\ UNCHANGED <<nonceVars, fulVars, chainVars, selVars, envVars, faultVars>>

DecideToRevoke(f) ==
    /\ fState[f] = "Unknown"
    /\ work[f] = "idle"
    /\ IsRevoked(f)
    /\ work' = [work EXCEPT ![f] = "revoke"]
    /\ UNCHANGED <<nonceVars, fulVars, chainVars, selVars, envVars, faultVars>>

Matches(f) ==
    LET n == fNonce[f] IN
    n # NoNonce /\ nSig[n] = f /\ nBh[n] = fBh[f] /\ nState[n] = "Reserved"

\* Mutant: the nonce is not compared with the fulfillment.
ReturnAnyNonce(f) ==
    /\ work[f] = "revoke"
    /\ nState' = [nState EXCEPT ![fNonce[f]] = "Available"]
    /\ nSig' = [nSig EXCEPT ![fNonce[f]] = NoSig]
    /\ work' = [work EXCEPT ![f] = "revokeSaved"]
    /\ UNCHANGED <<nBh, fulVars, chainVars, selVars, envVars, faultVars>>

\* markNonceAvailableDueToRevokedFulfillment
ReturnNonce(f) ==
    /\ work[f] = "revoke"
    /\ Matches(f)
    /\ nState' = [nState EXCEPT ![fNonce[f]] = "Available"]
    /\ nSig' = [nSig EXCEPT ![fNonce[f]] = NoSig]
    /\ work' = [work EXCEPT ![f] = "revokeSaved"]
    /\ UNCHANGED <<nBh, fulVars, chainVars, selVars, envVars, faultVars>>

\* The checks of markNonceAvailableDueToRevokedFulfillment fail: an error, and
\* the fulfillment is tried again later.
RevokeFails(f) ==
    /\ work[f] = "revoke"
    /\ ~Matches(f)
    /\ work' = [work EXCEPT ![f] = "idle"]
    /\ UNCHANGED <<nonceVars, fulVars, chainVars, selVars, envVars, faultVars>>

MarkRevoked(f) ==
    /\ work[f] = "revokeSaved"
    /\ fState' = [fState EXCEPT ![f] = "Revoked"]
    /\ work' = [work EXCEPT ![f] = "idle"]
    /\ UNCHANGED <<nonceVars, fNonce, fBh, chainVars, selVars, envVars, faultVars>>

SendToBlockchain(f) ==
    /\ fState[f] = "Pending"
    /\ fNonce[f] # NoNonce
    /\ tx[f] = "none"
    /\ tx' = [tx EXCEPT ![f] = "sent"]
    /\ UNCHANGED <<nonceVars, fulVars, chainBh, selVars, work, envVars, faultVars>>

\* Mutant: only a finalized transaction settles its fulfillment.
ReleaseFinalized(f) ==
    /\ fState[f] = "Pending"
    /\ work[f] = "idle"
    /\ tx[f] = "finalized"
    /\ Matches(f)
    /\ nState' = [nState EXCEPT ![fNonce[f]] = "Released"]
    /\ work' = [work EXCEPT ![f] = "finishSaved"]
    /\ UNCHANGED <<nSig, nBh, fulVars, chainVars, selVars, envVars, faultVars>>

\* markNonceReleasedDueToSubmittedTransaction, once the transaction is final
ReleaseNonce(f) ==
    /\ fState[f] = "Pending"
    /\ work[f] = "idle"
    /\ tx[f] \in Executed
    /\ Matches(f)
    /\ nState' = [nState EXCEPT ![fNonce[f]] = "Released"]
    /\ work' = [work EXCEPT ![f] = "finishSaved"]
    /\ UNCHANGED <<nSig, nBh, fulVars, chainVars, selVars, envVars, faultVars>>

\* markFulfillmentConfirmed and markFulfillmentFailed, their last statement
FinishFulfillment(f) ==
    /\ work[f] = "finishSaved"
    /\ fState' = [fState EXCEPT ![f] = IF tx[f] = "finalized" THEN "Confirmed" ELSE "Failed"]
    /\ work' = [work EXCEPT ![f] = "idle"]
    /\ UNCHANGED <<nonceVars, fNonce, fBh, chainVars, selVars, envVars, faultVars>>

\* The fulfillment's write, or a check before it, fails: the next iteration of
\* the worker starts over from the stores.
WriteFails(f) ==
    /\ work[f] # "idle"
    /\ fails < MaxFails
    /\ fails' = fails + 1
    /\ work' = [work EXCEPT ![f] = "idle"]
    /\ UNCHANGED <<nonceVars, fulVars, chainVars, selVars, envVars, crashes>>

-----------------------------------------------------------------------------
(* The blockchain, the clock and crashes                                    *)

\* A durable nonce transaction executes only on the blockhash it names and
\* advances the nonce account whether its transfer succeeds or not.
Land(f) ==
    LET n == fNonce[f] IN
    /\ tx[f] = "sent"
    /\ n # NoNonce
    /\ chainBh[n] = fBh[f]
    /\ \E r \in Executed : tx' = [tx EXCEPT ![f] = r]
    /\ chainBh' = [chainBh EXCEPT ![n] = @ + 1]
    /\ UNCHANGED <<nonceVars, fulVars, selVars, work, envVars, faultVars>>

\* An upgrade RPC times out minutes before the deadline it checked, so an open
\* one excludes the deadline, unless the deadline moves: a timelock that Code
\* no longer manages puts it in the past.
DeadlinePasses(t) ==
    /\ t \notin overdue
    /\ \/ AllowUnlock
       \/ \A u \in Upgrades : TempOf[u] = t => phase[HolderOf[u]] # "open"
    /\ overdue' = overdue \cup {t}
    /\ UNCHANGED <<nonceVars, fulVars, chainVars, selVars, work, closed, faultVars>>

TimelockCloses(d) ==
    /\ d \notin closed
    /\ closed' = closed \cup {d}
    /\ UNCHANGED <<nonceVars, fulVars, chainVars, selVars, work, overdue, faultVars>>

\* The process restarts: locks and records in memory are gone.
Crash ==
    /\ crashes < MaxCrashes
    /\ crashes' = crashes + 1
    /\ pick' = [f \in Fuls |-> NoNonce]
    /\ sel' = [f \in Fuls |-> NoNonce]
    /\ selBh' = [f \in Fuls |-> 0]
    /\ selSig' = [f \in Fuls |-> NoSig]
    /\ phase' = [h \in Holders |-> "idle"]
    /\ work' = [f \in Fuls |-> "idle"]
    /\ UNCHANGED <<nonceVars, fulVars, chainVars, envVars, fails>>

Next ==
    \/ \E n \in Nonces :
          \/ CreateNonce(n) \/ BroadcastCreation(n) \/ LandCreation(n)
          \/ MarkReleased(n) \/ MarkInvalid(n) \/ MarkAvailable(n)
    \/ \E h \in Holders :
          \/ StartIntent(h) \/ Commit(h) \/ CommitFails(h) \/ Abort(h) \/ EndSession(h)
    \/ \E d \in OnDemand : StartOnDemand(d)
    \/ \E u \in Upgrades : StartUpgrade(u) \/ SelectUpgradeNonce(u)
    \/ \E f \in Fuls, n \in Nonces : PickNonce(f, n)
    \/ \E f \in Fuls :
          \/ ReserveNonce(f) \/ AbandonPick(f) \/ Release(f)
          \/ DecideToSubmit(f) \/ MarkPending(f)
          \/ RevokeUsed(f) \/ DecideToRevoke(f) \/ ReturnNonce(f) \/ RevokeFails(f)
          \/ MarkRevoked(f)
          \/ SendToBlockchain(f) \/ Land(f)
          \/ ReleaseNonce(f) \/ FinishFulfillment(f) \/ WriteFails(f)
    \/ \E t \in Temps : DeadlinePasses(t)
    \/ \E d \in Dormants : TimelockCloses(d)
    \/ Crash

Spec == Init /\ [][Next]_vars

\* The sequencer's workers poll: what they can always do they eventually do.
\* The blockchain eventually executes what is sent again and again.  A session
\* that can save what it prepared again and again eventually succeeds.
SequencerFairness ==
    /\ \A f \in Fuls :
          /\ WF_vars(ReleaseNonce(f))
          /\ WF_vars(FinishFulfillment(f))
PoolFairness ==
    /\ SequencerFairness
    /\ \A n \in Nonces : WF_vars(MarkAvailable(n))
    /\ \A d \in OnDemand :
          /\ WF_vars(StartOnDemand(d))
          /\ WF_vars(ReserveNonce(d))
          /\ SF_vars(\E n \in Nonces : PickNonce(d, n))
          /\ SF_vars(Commit(HolderOf[d]))
          /\ WF_vars(Release(d))
          /\ WF_vars(EndSession(HolderOf[d]))
          /\ WF_vars(SendToBlockchain(d))
          /\ WF_vars(Land(d))
    /\ \A f \in Fuls : WF_vars(ReserveNonce(f)) /\ WF_vars(AbandonPick(f))

FairSpec == Spec /\ SequencerFairness
LiveSpec == Spec /\ PoolFairness

-----------------------------------------------------------------------------
(* What must hold                                                           *)

Executable(f) == Matches(f) /\ chainBh[fNonce[f]] = fBh[f]

\* A nonce offered by GetRandomAvailableNonceByPurpose carries the blockhash the
\* account has now, and no fulfillment that could still be submitted has a
\* transaction on it (pool.go:170, utils.go:154, nonce.go:255).
AvailableIsFresh ==
    \A n \in Nonces : nState[n] = "Available" =>
        /\ nSig[n] = NoSig
        /\ nBh[n] = chainBh[n]
        /\ \A f \in Fuls : fNonce[f] = n /\ fBh[f] = nBh[n] =>
                /\ fState[f] = "Revoked" \/ (fState[f] = "Unknown" /\ IsRevoked(f))
                /\ tx[f] = "none"

\* Until its transaction executed, a scheduled fulfillment is the one its nonce
\* is reserved for and the blockhash is still current; so is an unscheduled one
\* that was neither upgraded nor is about to be revoked (worker.go:151-270,
\* intent.go:570).
NoFulfillmentStranded ==
    \A f \in Fuls : fNonce[f] # NoNonce =>
        /\ fState[f] = "Pending" => tx[f] \in Executed \/ Executable(f)
        /\ fState[f] = "Unknown" /\ ~Upgraded(f) /\ ~IsRevoked(f) => Executable(f)

\* The temporary and the permanent transfer of one private payment never both
\* reach the blockchain, because they share a blockhash (intent.go:570-571).
UpgradeIsExclusive ==
    \A u \in Upgrades : ~(tx[u] \in Executed /\ tx[TempOf[u]] \in Executed)

\* A reserved nonce is held by a running session or awaits the transaction of a
\* live fulfillment; nothing else ever gives it back (nonce.go:54-57).
ReservedIsAccountedFor ==
    \A n \in Nonces : nState[n] = "Reserved" =>
        \/ \E f \in Fuls : sel[f] = n
        \/ \E f \in Fuls :
              /\ fNonce[f] = n
              /\ Matches(f)
              /\ fState[f] \in {"Unknown", "Pending"}

\* A fulfillment whose transaction executed is eventually settled: the checks of
\* markNonceReleasedDueToSubmittedTransaction keep passing (utils.go:191-215).
ExecutedIsSettled ==
    \A f \in Fuls :
        fState[f] = "Pending" /\ tx[f] \in Executed ~> fState[f] \in {"Confirmed", "Failed"}

\* Clients cannot starve the sequencer of nonces for its own transactions
\* (data/nonce/nonce.go:25-38).
OnDemandIsServed ==
    \A d \in OnDemand : fState[d] = "Pending" ~> tx[d] \in Executed

=============================================================================
