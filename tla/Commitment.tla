------------------------------ MODULE Commitment ------------------------------
(***************************************************************************)
(* The life of a commitment.  A private payment is advanced to its         *)
(* destination by the treasury pool and repaid later by the sender: to the *)
(* payment's own commitment vault (the temporary private transfer) or,     *)
(* after a privacy upgrade, to the vault of a newer commitment (the        *)
(* permanent one).  Closing a vault moves what it holds back to the        *)
(* treasury.  Modelled: the commitment worker (pkg/code/async/commitment), *)
(* the sequencer's handlers of the five fulfillments of a commitment       *)
(* (pkg/code/async/sequencer), the selection and the commit of a privacy   *)
(* upgrade (pkg/code/server/grpc/transaction/v2), the guarded save of the  *)
(* commitment store, and the merkle tree that orders the commitments.      *)
(*                                                                         *)
(* A commitment stands for its address, its vault, its action and its      *)
(* leaf.  The leaf index of c is the position of c in ledger, the order in *)
(* which the advances executed.  The three transactions that prove and     *)
(* open a vault are one fulfillment, "open".                               *)
(***************************************************************************)
EXTENDS Integers, Sequences, FiniteSets, FiniteSetsExt, Functions

CONSTANTS
    Commitments,    \* commitments, one per private transfer action
    Amount,         \* quarks each of them advances
    Funds,          \* quarks in the treasury pool
    Paid,           \* those whose advance is over when the model starts
    Upgraders,      \* commitments whose owner asks for a privacy upgrade
    Unlockable,     \* commitments whose source timelock may be unlocked
    WorkerBatch,    \* commitments the worker has in hand at a time, at most
    SequencerBatch, \* fulfillments the sequencer has in hand, at most
    MaxFails,       \* bound on transactions that fail on the blockchain
    MaxCrashes,     \* bound on restarts of the process
    NoVault         \* RepaymentDivertedTo is nil

ASSUME Vaults ==
    /\ NoVault \notin Commitments
    /\ Paid \in Seq(Commitments)
    /\ \A i, j \in DOMAIN Paid : Paid[i] = Paid[j] => i = j
    /\ Upgraders \subseteq Commitments
    /\ Unlockable \subseteq Commitments
ASSUME Amounts ==
    /\ Amount \in [Commitments -> Nat \ {0}]
    /\ Funds \in Nat
ASSUME Bounds ==
    /\ WorkerBatch \in Nat \ {0}
    /\ SequencerBatch \in Nat \ {0}
    /\ MaxFails \in Nat
    /\ MaxCrashes \in Nat

VARIABLES
    saved,          \* commitments whose intent was submitted
    com,            \* commitment store
    root,           \* Record.RecentRoot, as the number of leaves under it
    ful,            \* state of each fulfillment
    awake,          \* fulfillments that are actively scheduled
    outcome,        \* blockchain: the fate of the transaction of a fulfillment
    ledger,         \* blockchain: commitments in the order they were paid
    rootRequested,  \* is a SaveRecentRoot intent open?
    rootAfter,      \* the payments scheduled before it
    savedRoot,      \* leaves under the most recent root saved
    synced,         \* leaves in the merkle tree of the database
    aged,           \* those created at least ten minutes ago
    overdue,        \* commitments whose privacy upgrade deadline passed
    target,         \* the candidate an open upgrade RPC of c selected
    draft,          \* the record that RPC is about to save
    reserving,      \* holders of treasuryPoolLock
    decided,        \* fulfillments the scheduler let through, not yet pending
    succeeded,      \* fulfillments past OnSuccess, not yet confirmed
    work,           \* progress of the commitment worker
    fails, crashes

chainVars  == <<outcome, ledger>>
treeVars   == <<rootRequested, rootAfter, savedRoot, synced, aged>>
rpcVars    == <<target, draft>>
seqVars    == <<reserving, decided, succeeded>>
faultVars  == <<fails, crashes>>
vars == <<saved, com, root, ful, awake, chainVars, treeVars, overdue, rpcVars,
          seqVars, work, faultVars>>

\* commitment.State, in the order the store compares it by.
StateUnknown == 0
StatePayingDestination == 1
StateReadyToOpen == 2
StateOpening == 3
StateOpen == 4
StateClosing == 5
StateClosed == 6
StateReadyToRemoveFromMerkleTree == 7
States == 0 .. 7

\* TransferWithCommitment, Temporary- and PermanentPrivacyTransferWithAuthority,
\* OpenCommitmentVault with the proof before it, CloseCommitmentVault.
Kinds == {"advance", "temporary", "permanent", "open", "close"}
Fuls == Kinds \X Commitments
FulStates == {"None", "Unknown", "Pending", "Revoked", "Confirmed", "Failed"}
Scheduable == {"Unknown", "Pending"}

Records == [state : States, repaid : BOOLEAN, div : Commitments \cup {NoVault}]
Blank == [state |-> StateUnknown, repaid |-> FALSE, div |-> NoVault]
Repayable == [Blank EXCEPT !.state = StateReadyToOpen]
Steps == {"idle", "repay", "saveRepaid", "decide", "markOpening", "markClosing",
          "markGC", "save"}
Works == [step : Steps, record : Records, save : Records]
Idle == [step |-> "idle", record |-> Blank, save |-> Blank]

TypeOK ==
    /\ saved \subseteq Commitments
    /\ com \in [Commitments -> Records]
    /\ root \in [Commitments -> Nat]
    /\ ful \in [Fuls -> FulStates]
    /\ awake \subseteq Fuls
    /\ outcome \in [Fuls -> {"none", "finalized", "failed"}]
    /\ ledger \in Seq(Commitments)
    /\ rootRequested \in BOOLEAN
    /\ rootAfter \subseteq Commitments
    /\ savedRoot \in 0 .. Len(ledger)
    /\ synced \in 0 .. savedRoot
    /\ aged \in 0 .. synced
    /\ overdue \subseteq Commitments
    /\ target \in [Commitments -> Commitments \cup {NoVault}]
    /\ draft \in [Commitments -> Records]
    /\ reserving \subseteq Commitments
    /\ decided \subseteq Fuls
    /\ succeeded \subseteq Fuls
    /\ work \in [Commitments -> Works]
    /\ fails \in 0 .. MaxFails
    /\ crashes \in 0 .. MaxCrashes

\* The model starts after the advances of Paid executed and were confirmed, and
\* a recent root was saved and synced after each of them but the last.
Init ==
    LET paid == Range(Paid)
        roots == IF Paid = <<>> THEN 0 ELSE Len(Paid) - 1
    IN  /\ saved = paid
        /\ com = [c \in Commitments |->
                    IF c \in paid THEN Repayable ELSE Blank]
        /\ root = [c \in Commitments |->
                    Cardinality({i \in 1 .. roots : c \in Range(SubSeq(Paid, i + 1, Len(Paid)))})]
        /\ ful = [f \in Fuls |->
                    CASE f \in {"temporary"} \X paid -> "Unknown"
                      [] f \in {"advance"} \X paid -> "Confirmed"
                      [] OTHER -> "None"]
        /\ awake = {"advance"} \X paid
        /\ outcome = [f \in Fuls |->
                        IF f \in {"advance"} \X paid THEN "finalized" ELSE "none"]
        /\ ledger = Paid
        /\ rootRequested = FALSE /\ rootAfter = {}
        /\ savedRoot = roots /\ synced = roots /\ aged = 0
        /\ overdue = {}
        /\ target = [c \in Commitments |-> NoVault]
        /\ draft = [c \in Commitments |-> Blank]
        /\ reserving = {} /\ decided = {} /\ succeeded = {}
        /\ work = [c \in Commitments |-> Idle]
        /\ fails = 0 /\ crashes = 0

\* The first n leaves of the merkle tree.
Leaves(n) == {ledger[i] : i \in 1 .. n}

\* Mutant: an upsert with no guard, as the nonce store's.
AcceptsAll(old, new) == TRUE

SetState(c, s) == com' = [com EXCEPT ![c] = [com[c] EXCEPT !.state = s]]

\* The guard of the store's upsert: the three fields only move forward.
StoreAccepts(old, new) ==
    /\ old.repaid => new.repaid
    /\ old.div # NoVault => new.div = old.div
    /\ old.state <= new.state

Total(cs) == LET quarks(c) == Amount[c] IN MapThenSumSet(quarks, cs)

\* The advances the model starts from were let through.
ASSUME Funded == Total(Range(Paid)) <= Funds

\* GetUsedTreasuryPoolDeficit
Used == Total({c \in saved : com[c].state # StateUnknown /\ ~com[c].repaid})

(***************************************************************************)
(* SubmitIntent of the private payment.                                    *)
(***************************************************************************)

\* The recent root comes from a cache, so it may be behind the latest one.
\* What wakes the advance, the treasury worker, is not modelled.
SubmitPayment(c) ==
    /\ c \notin saved
    /\ saved' = saved \cup {c}
    /\ \E r \in 0 .. savedRoot : root' = [root EXCEPT ![c] = r]
    /\ ful' = [ful EXCEPT ![<<"advance", c>>] = "Unknown", ![<<"temporary", c>>] = "Unknown"]
    /\ awake' = awake \cup {<<"advance", c>>}
    /\ UNCHANGED <<com, chainVars, treeVars, overdue, rpcVars, seqVars, work, faultVars>>

(***************************************************************************)
(* The sequencer: treasury funds, scheduling, results.                     *)
(***************************************************************************)

\* Mutant: treasuryPoolLock is not taken.
CheckFundsUnlocked(c) ==
    /\ ful[<<"advance", c>>] = "Unknown"
    /\ com[c].state = StateUnknown
    /\ c \notin reserving
    /\ Used < Funds
    /\ Amount[c] <= Funds - Used
    /\ reserving' = reserving \cup {c}
    /\ UNCHANGED <<saved, com, root, ful, awake, chainVars, treeVars, overdue, rpcVars,
                   decided, succeeded, work, faultVars>>

\* TransferWithCommitment, CanSubmitToBlockchain: enough is left, under the lock.
CheckFunds(c) ==
    /\ ful[<<"advance", c>>] = "Unknown"
    /\ com[c].state = StateUnknown
    /\ reserving = {}
    /\ Used < Funds
    /\ Amount[c] <= Funds - Used
    /\ reserving' = {c}
    /\ UNCHANGED <<saved, com, root, ful, awake, chainVars, treeVars, overdue, rpcVars,
                   decided, succeeded, work, faultVars>>

\* markCommitmentPayingDestination; the lock is released.
Reserve(c) ==
    /\ c \in reserving
    /\ reserving' = reserving \ {c}
    /\ SetState(c, StatePayingDestination)
    /\ UNCHANGED <<saved, root, ful, awake, chainVars, treeVars, overdue, rpcVars,
                   decided, succeeded, work, faultVars>>

\* Fulfillments with the vault of c as source or destination.
AtVault(c) ==
    {<<k, c>> : k \in {"temporary", "open", "close"}}
        \cup {<<"permanent", d>> : d \in {e \in Commitments : com[e].div = c}}

\* Mutant: a vault is enough that is being opened.
VaultIsOpening(c) == com[c].state \in {StateOpening, StateOpen}

\* The commitment vault must be opened before we can send funds to it.
VaultIsOpen(c) == com[c].state = StateOpen

\* The contextual part of CanSubmitToBlockchain.  Accounts exist, and what the
\* owner of the funds was sent earlier has arrived.
CanSubmit(k, c) ==
    \/ /\ k = "advance"
       /\ com[c].state = StatePayingDestination
    \/ /\ k = "temporary"
       /\ com[c].div = NoVault
       /\ VaultIsOpen(c)
       /\ ~com[c].repaid
       /\ c \in overdue
    \/ /\ k = "permanent"
       /\ com[c].div # NoVault
       /\ VaultIsOpen(com[c].div)
    \/ /\ k = "open"
       /\ com[c].state = StateOpening
    \/ /\ k = "close"
       /\ com[c].state = StateClosing
       /\ {f \in AtVault(c) : ful[f] \in Scheduable} = {<<"close", c>>}

SequencerIsFree == Cardinality(decided \cup succeeded) < SequencerBatch

\* handleUnknown: the scheduler lets the fulfillment through ...
Decide(k, c) ==
    /\ SequencerIsFree
    /\ <<k, c>> \in awake \ decided
    /\ ful[<<k, c>>] = "Unknown"
    /\ CanSubmit(k, c)
    /\ decided' = decided \cup {<<k, c>>}
    /\ UNCHANGED <<saved, com, root, ful, awake, chainVars, treeVars, overdue, rpcVars,
                   reserving, succeeded, work, faultVars>>

\* ... and markFulfillmentPending is a write of its own.
MarkPending(f) ==
    /\ f \in decided
    /\ decided' = decided \ {f}
    /\ ful' = [ful EXCEPT ![f] = "Pending"]
    /\ UNCHANGED <<saved, com, root, awake, chainVars, treeVars, overdue, rpcVars,
                   reserving, succeeded, work, faultVars>>

\* The vault account exists on the blockchain.
VaultExists(c) ==
    /\ outcome[<<"open", c>>] = "finalized"
    /\ outcome[<<"close", c>>] # "finalized"

\* The two transfers of a payment sign the same nonce: one of them executes.
NonceIsFree(k, c) ==
    k \in {"temporary", "permanent"} =>
        outcome[<<"temporary", c>>] = "none" /\ outcome[<<"permanent", c>>] = "none"

\* A submitted transaction executes.  The splitter program appends an advance
\* to the merkle tree; closing a vault moves its balance to the treasury.
Land(k, c) ==
    /\ ful[<<k, c>>] = "Pending"
    /\ outcome[<<k, c>>] = "none"
    /\ NonceIsFree(k, c)
    /\ k = "temporary" => VaultExists(c)
    /\ k = "permanent" => VaultExists(com[c].div)
    /\ outcome' = [outcome EXCEPT ![<<k, c>>] = "finalized"]
    /\ ledger' = IF k = "advance" THEN Append(ledger, c) ELSE ledger
    /\ UNCHANGED <<saved, com, root, ful, awake, treeVars, overdue, rpcVars, seqVars,
                   work, faultVars>>

FailOnChain(k, c) ==
    /\ ful[<<k, c>>] = "Pending"
    /\ outcome[<<k, c>>] = "none"
    /\ NonceIsFree(k, c)
    /\ fails < MaxFails
    /\ fails' = fails + 1
    /\ outcome' = [outcome EXCEPT ![<<k, c>>] = "failed"]
    /\ UNCHANGED <<saved, com, root, ful, awake, ledger, treeVars, overdue, rpcVars,
                   seqVars, work, crashes>>

\* The four markCommitment functions: the state is the source or already the target.
MarkCommitment(c, from, to) ==
    /\ com[c].state \in {from, to}
    /\ SetState(c, to)

\* Mutant: the check of the state is inverted.
WakeScheduled(f) == awake' = IF ful[f] = "Unknown" THEN awake ELSE awake \cup {f}

\* markFulfillmentAsActivelyScheduled
Wake(f) == awake' = IF ful[f] = "Unknown" THEN awake \cup {f} ELSE awake

\* handlePending, finalized: the OnSuccess of each handler ...
OnSuccess(k, c) ==
    /\ SequencerIsFree
    /\ ful[<<k, c>>] = "Pending" /\ <<k, c>> \notin succeeded
    /\ outcome[<<k, c>>] = "finalized"
    /\ succeeded' = succeeded \cup {<<k, c>>}
    /\ \/ /\ k = "advance"
          /\ MarkCommitment(c, StatePayingDestination, StateReadyToOpen)
          /\ UNCHANGED awake
       \/ /\ k = "temporary"
          /\ UNCHANGED <<com, awake>>
       \/ /\ k = "permanent"
          /\ Wake(<<"temporary", c>>)
          /\ UNCHANGED com
       \/ /\ k = "open"
          /\ MarkCommitment(c, StateOpening, StateOpen)
          /\ Wake(<<"temporary", c>>)
       \/ /\ k = "close"
          /\ MarkCommitment(c, StateClosing, StateClosed)
          /\ UNCHANGED awake
    /\ UNCHANGED <<saved, root, ful, chainVars, treeVars, overdue, rpcVars, reserving,
                   decided, work, faultVars>>

\* ... and, the last thing, markFulfillmentConfirmed.
MarkConfirmed(f) ==
    /\ f \in succeeded
    /\ succeeded' = succeeded \ {f}
    /\ ful' = [ful EXCEPT ![f] = "Confirmed"]
    /\ UNCHANGED <<saved, com, root, awake, chainVars, treeVars, overdue, rpcVars,
                   reserving, decided, work, faultVars>>

\* handlePending, failed: no handler of these five recovers.
MarkFailed(f) ==
    /\ ful[f] = "Pending"
    /\ outcome[f] = "failed"
    /\ ful' = [ful EXCEPT ![f] = "Failed"]
    /\ UNCHANGED <<saved, com, root, awake, chainVars, treeVars, overdue, rpcVars,
                   seqVars, work, faultVars>>

\* The temporary transfer is revoked once the permanent one is confirmed.
RevokeTemporary(c) ==
    /\ <<"temporary", c>> \in awake \ decided
    /\ ful[<<"temporary", c>>] = "Unknown"
    /\ ful[<<"permanent", c>>] = "Confirmed"
    /\ ful' = [ful EXCEPT ![<<"temporary", c>>] = "Revoked"]
    /\ UNCHANGED <<saved, com, root, awake, chainVars, treeVars, overdue, rpcVars,
                   seqVars, work, faultVars>>

(***************************************************************************)
(* The merkle tree and the clock.                                          *)
(***************************************************************************)

\* The treasury worker creates a SaveRecentRoot intent when there is progress.
RequestRecentRoot ==
    /\ ~rootRequested
    /\ savedRoot < Len(ledger)
    /\ rootRequested' = TRUE
    /\ rootAfter' = saved
    /\ UNCHANGED <<saved, com, root, ful, awake, chainVars, savedRoot, synced, aged,
                   overdue, rpcVars, seqVars, work, faultVars>>

\* It is submitted once the advances scheduled before it are played out, and
\* covers every leaf on the blockchain by then.
SaveRecentRoot ==
    /\ rootRequested
    /\ \A c \in rootAfter : ful[<<"advance", c>>] \notin Scheduable
    /\ rootRequested' = FALSE
    /\ rootAfter' = {}
    /\ savedRoot' = Len(ledger)
    /\ UNCHANGED <<saved, com, root, ful, awake, chainVars, synced, aged, overdue,
                   rpcVars, seqVars, work, faultVars>>

\* syncMerkleTree adds the next leaf, up to the checkpoint of the saved root.
SyncLeaf ==
    /\ synced < savedRoot
    /\ synced' = synced + 1
    /\ UNCHANGED <<saved, com, root, ful, awake, chainVars, rootRequested, rootAfter,
                   savedRoot, aged, overdue,
                   rpcVars, seqVars, work, faultVars>>

\* Another leaf is privacyUpgradeCandidateSelectionTimeout old.  An RPC that
\* selected the leaf before it did so from a tree cached for at most a minute,
\* and is over by then.
LeafAges ==
    /\ aged < synced
    /\ aged > 0 => \A c \in Commitments : target[c] # ledger[aged]
    /\ aged' = aged + 1
    /\ UNCHANGED <<saved, com, root, ful, awake, chainVars, rootRequested, rootAfter,
                   savedRoot, synced, overdue,
                   rpcVars, seqVars, work, faultVars>>

\* GetDeadlineToUpgradePrivacy.  An RPC starts five minutes before the deadline
\* at the latest, and is over when it passes; an unlocked timelock does not wait.
DeadlinePasses(c) ==
    /\ c \notin overdue
    /\ c \in Unlockable \/ (c \in Leaves(synced) /\ target[c] = NoVault)
    /\ overdue' = overdue \cup {c}
    /\ UNCHANGED <<saved, com, root, ful, awake, chainVars, treeVars, rpcVars, seqVars,
                   work, faultVars>>

(***************************************************************************)
(* SubmitIntent of the privacy upgrade of c.                               *)
(***************************************************************************)

\* selectCandidateForPrivacyUpgrade: the last leaf of the cached tree, which
\* lacks only leaves that are younger than the cache, and whose recent root
\* covers c.
StartUpgrade(c) ==
    /\ c \in Upgraders
    /\ target[c] = NoVault
    /\ com[c].div = NoVault
    /\ c \notin overdue
    /\ ful[<<"temporary", c>>] = "Unknown"
    /\ ful[<<"advance", c>>] # "Failed"
    /\ \E i \in 1 .. synced :
          /\ i >= aged
          /\ root[ledger[i]] <= i
          /\ c \in Leaves(root[ledger[i]])
          /\ target' = [target EXCEPT ![c] = ledger[i]]
    /\ UNCHANGED <<saved, com, root, ful, awake, chainVars, treeVars, overdue, draft,
                   seqVars, work, faultVars>>

\* OnSaveToDB reads the commitment ...
ReadForUpgrade(c) ==
    /\ target[c] # NoVault
    /\ draft[c] = Blank
    /\ draft' = [draft EXCEPT ![c] = [com[c] EXCEPT !.div = target[c]]]
    /\ UNCHANGED <<saved, com, root, ful, awake, chainVars, treeVars, overdue, target,
                   seqVars, work, faultVars>>

EndUpgrade(c) ==
    /\ target' = [target EXCEPT ![c] = NoVault]
    /\ draft' = [draft EXCEPT ![c] = Blank]

\* ... and saves it, with the permanent transfer, in one DB transaction.
CommitUpgrade(c) ==
    /\ draft[c] # Blank
    /\ StoreAccepts(com[c], draft[c])
    /\ com' = [com EXCEPT ![c] = draft[c]]
    /\ ful' = [ful EXCEPT ![<<"permanent", c>>] = "Unknown"]
    /\ awake' = awake \cup {<<"permanent", c>>}
    /\ EndUpgrade(c)
    /\ UNCHANGED <<saved, root, chainVars, treeVars, overdue, seqVars, work, faultVars>>

\* The RPC ends without a commit: the client left, or the save was refused.
AbortUpgrade(c) ==
    /\ target[c] # NoVault
    /\ EndUpgrade(c)
    /\ UNCHANGED <<saved, com, root, ful, awake, chainVars, treeVars, overdue, seqVars,
                   work, faultVars>>

(***************************************************************************)
(* The commitment worker.  work[c].record is the record of the batch, as   *)
(* it was when the batch was read; work[c].save is the record that a mark  *)
(* function is about to save.                                              *)
(***************************************************************************)

WorkerUnchanged == <<saved, root, chainVars, treeVars, overdue, rpcVars, seqVars, faultVars>>

At(c, step, save) ==
    work' = [work EXCEPT ![c] = [step |-> step, record |-> work[c].record, save |-> save]]
GoTo(c, step) == At(c, step, Blank)
Finish(c) == work' = [work EXCEPT ![c] = Idle]

\* GetAllCommitmentsByState
Poll(c) ==
    /\ work[c].step = "idle"
    /\ Cardinality({d \in Commitments : work[d].step # "idle"}) < WorkerBatch
    /\ com[c].state \in {StateReadyToOpen, StateOpen, StateClosed}
    /\ work' = [work EXCEPT ![c] = [step |-> "repay", record |-> com[c], save |-> Blank]]
    /\ UNCHANGED <<com, ful, awake, WorkerUnchanged>>

\* Mutant: a vault that is closing counts as closed.
ClosingCounts(rec) ==
    IF rec.div = NoVault THEN rec.state >= StateClosed
                         ELSE com[rec.div].state >= StateClosing

\* The vault the repayment went to is closed.
RepaymentPlayedOut(rec) ==
    IF rec.div = NoVault THEN rec.state >= StateClosed
                         ELSE com[rec.div].state >= StateClosed

\* maybeMarkTreasuryAsRepaid, up to the read in markTreasuryAsRepaid.
CheckRepaid(c) ==
    /\ work[c].step = "repay"
    /\ IF /\ ~work[c].record.repaid
          /\ RepaymentPlayedOut(work[c].record)
          /\ ~com[c].repaid
       THEN At(c, "saveRepaid", [com[c] EXCEPT !.repaid = TRUE])
       ELSE GoTo(c, "decide")
    /\ UNCHANGED <<com, ful, awake, WorkerUnchanged>>

\* shouldOpenCommitmentVault
ShouldOpen(c) ==
    LET rec == work[c].record
    IN  \/ rec.div = NoVault /\ ~rec.repaid /\ c \in overdue
        \/ \E d \in Commitments : com[d].div = c

\* Mutant: the newest leaf is enough, whatever its age.
NextLeafExists(c) == \E i \in 1 .. synced - 1 : ledger[i] = c

\* The leaf after c is old enough for c not to be selected any more.
NextLeafIsOld(c) == \E i \in 1 .. aged - 1 : ledger[i] = c

\* The permanent transfers to the vault of c are confirmed.
DivertedConfirmed(c) ==
    LET diverted == {d \in Commitments : com[d].div = c}
        In(s) == {d \in diverted : ful[<<"permanent", d>>] \in s}
    IN  /\ In(Scheduable) = {}
        /\ In({"Failed"}) = {}
        /\ Cardinality(In({"Confirmed"})) >= Cardinality(diverted)

\* shouldCloseCommitmentVault
ShouldClose(c) ==
    /\ work[c].record.div = NoVault => ful[<<"temporary", c>>] = "Confirmed"
    /\ NextLeafIsOld(c)
    /\ DivertedConfirmed(c)

\* injectCommitmentVaultManagementFulfillments: idempotent, and an error as
\* long as the leaf of c cannot be proved.
Inject(c) ==
    \/ /\ ful[<<"open", c>>] # "None"
       /\ GoTo(c, "markOpening")
       /\ UNCHANGED <<ful, awake>>
    \/ /\ ful[<<"open", c>>] = "None"
       /\ c \in Leaves(synced)
       /\ ful' = [ful EXCEPT ![<<"open", c>>] = "Unknown", ![<<"close", c>>] = "Unknown"]
       /\ awake' = awake \cup {<<"open", c>>}
       /\ GoTo(c, "markOpening")
    \/ /\ ful[<<"open", c>>] = "None"
       /\ c \notin Leaves(synced)
       /\ Finish(c)
       /\ UNCHANGED <<ful, awake>>

\* maybeMarkCommitmentForGC looks at the record of the batch.
MaybeGC(c) ==
    /\ IF work[c].record.repaid THEN GoTo(c, "markGC") ELSE Finish(c)
    /\ UNCHANGED <<ful, awake>>

\* handleReadyToOpen
HandleReadyToOpen(c) ==
    /\ work[c].step = "decide"
    /\ work[c].record.state = StateReadyToOpen
    /\ IF ShouldOpen(c) THEN Inject(c) ELSE MaybeGC(c)
    /\ UNCHANGED <<com, WorkerUnchanged>>

\* handleOpen
HandleOpen(c) ==
    /\ work[c].step = "decide"
    /\ work[c].record.state = StateOpen
    /\ IF ShouldClose(c) THEN GoTo(c, "markClosing") ELSE Finish(c)
    /\ UNCHANGED <<com, ful, awake, WorkerUnchanged>>

\* handleClosed
HandleClosed(c) ==
    /\ work[c].step = "decide"
    /\ work[c].record.state = StateClosed
    /\ MaybeGC(c)
    /\ UNCHANGED <<com, WorkerUnchanged>>

MarkFrom == [markOpening |-> {StateReadyToOpen}, markClosing |-> {StateOpen},
             markGC |-> {StateReadyToOpen, StateClosed}]
MarkTo == [markOpening |-> StateOpening, markClosing |-> StateClosing,
           markGC |-> StateReadyToRemoveFromMerkleTree]

\* markCommitmentAsOpening, markCommitmentAsClosing, markCommitmentReadyForGC:
\* the record is read again and checked; closing wakes its fulfillment.
Mark(c) ==
    LET step == work[c].step
    IN  /\ step \in DOMAIN MarkTo
        /\ IF com[c].state \in MarkFrom[step]
           THEN /\ At(c, "save", [com[c] EXCEPT !.state = MarkTo[step]])
                /\ IF step = "markClosing" THEN Wake(<<"close", c>>) ELSE UNCHANGED awake
           ELSE Finish(c) /\ UNCHANGED awake
        /\ UNCHANGED <<com, ful, WorkerUnchanged>>

\* SaveCommitment; refused, the handler returns.
Save(c) ==
    LET new == work[c].save
    IN  /\ work[c].step \in {"save", "saveRepaid"}
        /\ IF StoreAccepts(com[c], new)
           THEN /\ com' = [com EXCEPT ![c] = new]
                /\ IF work[c].step = "saveRepaid" THEN GoTo(c, "decide") ELSE Finish(c)
           ELSE Finish(c) /\ UNCHANGED com
        /\ UNCHANGED <<ful, awake, WorkerUnchanged>>

\* The process restarts: what it held in memory is gone.
Crash ==
    /\ crashes < MaxCrashes
    /\ crashes' = crashes + 1
    /\ reserving' = {} /\ decided' = {} /\ succeeded' = {}
    /\ target' = [c \in Commitments |-> NoVault]
    /\ draft' = [c \in Commitments |-> Blank]
    /\ work' = [c \in Commitments |-> Idle]
    /\ UNCHANGED <<saved, com, root, ful, awake, chainVars, treeVars, overdue, fails>>

Sequencer(c) ==
    \/ CheckFunds(c) \/ Reserve(c) \/ RevokeTemporary(c)
    \/ \E k \in Kinds :
          \/ Decide(k, c) \/ MarkPending(<<k, c>>)
          \/ OnSuccess(k, c) \/ MarkConfirmed(<<k, c>>) \/ MarkFailed(<<k, c>>)

Worker(c) ==
    \/ Poll(c) \/ CheckRepaid(c)
    \/ HandleReadyToOpen(c) \/ HandleOpen(c) \/ HandleClosed(c)
    \/ Mark(c) \/ Save(c)

Upgrade(c) ==
    \/ StartUpgrade(c) \/ ReadForUpgrade(c) \/ CommitUpgrade(c) \/ AbortUpgrade(c)

Environment ==
    \/ RequestRecentRoot \/ SaveRecentRoot \/ SyncLeaf \/ LeafAges
    \/ \E c \in Commitments :
          \/ SubmitPayment(c) \/ DeadlinePasses(c)
          \/ \E k \in Kinds : Land(k, c) \/ FailOnChain(k, c)

Next ==
    \/ \E c \in Commitments : Sequencer(c) \/ Worker(c) \/ Upgrade(c)
    \/ Environment
    \/ Crash

Spec == Init /\ [][Next]_vars

\* The sequencer looks at every fulfillment again and again, submitted
\* transactions execute, the treasury worker saves and syncs recent roots.
Progress ==
    \/ RequestRecentRoot \/ SaveRecentRoot \/ SyncLeaf
    \/ \E c \in Commitments :
          \/ Sequencer(c)
          \/ \E k \in Kinds : Land(k, c)

\* Time passes, whatever RPCs come and go.
Clock == LeafAges \/ \E c \in Commitments : DeadlinePasses(c)

\* Progress is never undone, so fairness of its union is fairness of each of its
\* actions.  The worker's cursor gets to every commitment, but another one may
\* fill the batch in between.  Nobody has to ask for an upgrade; an RPC ends.
Fairness ==
    /\ WF_vars(Progress)
    /\ SF_vars(Clock)
    /\ \A c \in Commitments : SF_vars(Worker(c))
    /\ \A c \in Upgraders : WF_vars(AbortUpgrade(c))

FairSpec == Spec /\ Fairness

(***************************************************************************)
(* Properties.                                                             *)
(***************************************************************************)

\* What the treasury advanced for c came back: one of its two transfers
\* executed, and the vault it went to was closed after that.
Returned(c) ==
    \/ /\ outcome[<<"temporary", c>>] = "finalized"
       /\ outcome[<<"close", c>>] = "finalized"
    \/ /\ outcome[<<"permanent", c>>] = "finalized"
       /\ outcome[<<"close", com[c].div>>] = "finalized"

\* The advance of c executed, or still may.
Advanced(c) ==
    \/ outcome[<<"advance", c>>] = "finalized"
    \/ ful[<<"advance", c>>] = "Pending" /\ outcome[<<"advance", c>>] = "none"

\* What the treasury has out on the blockchain never exceeds what it owns: the
\* lock and the deficit of CanSubmitToBlockchain are enough, although the
\* deficit forgets a commitment as soon as the worker says it was repaid.
TreasuryNeverOverdrawn ==
    Total({c \in Commitments : Advanced(c) /\ ~Returned(c)}) <= Funds

\* TreasuryRepaid is only ever set on a payment whose money is back, although
\* the worker derives it from the state of another commitment.
RepaidIsReal == \A c \in Commitments : com[c].repaid => Returned(c)

\* A transfer that was handed to the blockchain, and may still execute, has a
\* vault to go to: no vault closes under it, whatever was upgraded meanwhile.
TransferHasVault ==
    \A c \in Commitments :
        outcome[<<"temporary", c>>] = "none" /\ outcome[<<"permanent", c>>] = "none" =>
            /\ ful[<<"temporary", c>>] = "Pending" => VaultExists(c)
            /\ ful[<<"permanent", c>>] = "Pending" => VaultExists(com[c].div)

\* No repayment is diverted to a vault that is closing, closed or collected,
\* unless it arrived before: the ten minutes of shouldCloseCommitmentVault
\* cover the cached trees SubmitIntent selects from.
NothingDivertedToClosing ==
    \A c \in Commitments :
        com[c].div # NoVault /\ com[com[c].div].state >= StateClosing =>
            ful[<<"permanent", c>>] = "Confirmed"

\* Whatever the writers of a commitment interleave, it only moves forward: no
\* state is undone, no diversion lost or changed, no repayment forgotten.
RecordMovesForward ==
    [][\A c \in Commitments :
          /\ com[c].state <= com'[c].state
          /\ com[c].div # NoVault => com'[c].div = com[c].div
          /\ com[c].repaid => com'[c].repaid]_vars

\* The vault the repayment of c goes to.
RepaymentVault(c) == IF com[c].div = NoVault THEN c ELSE com[c].div

\* The treasury waits for itself: the next recent root waits for an advance that
\* was scheduled before it, and that advance for funds.
FundsWaitForRoot ==
    /\ rootRequested
    /\ \E c \in rootAfter :
          /\ ful[<<"advance", c>>] = "Unknown"
          /\ com[c].state = StateUnknown
          /\ Amount[c] > Funds - Used

\* Every advance is repaid in the end, but for those whose vault has the newest
\* leaf: that vault stays open until another payment is advanced.  The one other
\* way to stop is the circular wait that the treasury's threshold of available
\* funds is there to make unlikely: no vault closes before its next leaf is in
\* the tree, no leaf is added before the next recent root is saved.
EveryAdvanceRepaid ==
    \A c \in Commitments :
        <>[](\/ ful[<<"advance", c>>] = "Confirmed" =>
                  com[c].repaid \/ RepaymentVault(c) = ledger[Len(ledger)]
             \/ FundsWaitForRoot)

=============================================================================
