-------------------------------- MODULE Treasury --------------------------------
(***************************************************************************)
(* The treasury worker (pkg/code/async/treasury).  The treasury pays the   *)
(* destination of a private payment in advance; on the blockchain, every   *)
(* advance adds a leaf to the merkle tree of the pool, and SaveRecentRoot  *)
(* puts the root of that tree in the history list of the pool.  An advance *)
(* names a root of the history list.  The worker observes the pool, keeps  *)
(* a copy of the tree in the database, and decides when to save a root:    *)
(* advances are held back until enough of them hide each other.            *)
(*                                                                         *)
(* The tree only grows, so that a root is known by its number of leaves    *)
(* and by its place in the history.                                        *)
(***************************************************************************)
EXTENDS Integers, Sequences, FiniteSets

CONSTANTS
    Advances,       \* TransferWithCommitment fulfillments from the treasury
    Bypass,         \* of withdrawals: they are not collected
    MinAdvances,    \* getMinTransactionsForBucketedPrivacyLevel
    HistorySize,    \* roots in the history list of the pool
    RootsPerRPC,    \* save intents that are created while one SubmitIntent runs
    Gaps,           \* slots between one transaction and the next
    MaxSaves        \* bound on save intents

ASSUME TreasurySets ==
    /\ IsFiniteSet(Advances)
    /\ Bypass \subseteq Advances
    /\ Gaps \subseteq Nat
ASSUME TreasuryBounds ==
    /\ MinAdvances \in Nat
    /\ RootsPerRPC \in Nat
    /\ HistorySize \in Nat
    /\ HistorySize >= RootsPerRPC + 2
    /\ MaxSaves \in Nat

VARIABLES
    leaves,         \* blockchain: the tree of the pool, in order of execution
    roots,          \* blockchain: the history; leaves under each root saved
    slot,           \* blockchain: the last block
    slotOf,         \* blockchain: the block of each advance, 0 if there is none
    adv,            \* state of each advance, from the RPC that submits it on
    named,          \* place in the history of the root an advance names
    awake,          \* advances that are polled
    payments,       \* advances with a payment record
    saves,          \* the save intents, each with its action and fulfillment
    record,         \* place in the history of the pool record's recent root
    tree,           \* the leaves in the database
    timedOut,       \* did collecting advances take too long?
    pc,             \* what the worker does next
    todo            \* leaves it has still to add

chainVars == <<leaves, roots, slot, slotOf>>
advanceVars == <<adv, named, awake, payments>>
workerVars == <<pc, todo>>
vars == <<chainVars, advanceVars, saves, record, tree, timedOut, workerVars>>

AdvanceStates == {"none", "signing", "Unknown", "Pending", "Confirmed", "Failed"}
SaveIntents == [previous : Nat, earlier : SUBSET Advances, slot : Nat,
                state : {"Unknown", "Pending", "Confirmed"}]
WorkerSteps == {"idle", "sync", "add", "save", "create", "gates"}

TypeOK ==
    /\ leaves \in Seq(Advances)
    /\ roots \in Seq(0 .. Len(leaves)) /\ roots # <<>>
    /\ slot \in Nat
    /\ slotOf \in [Advances -> 0 .. slot]
    /\ adv \in [Advances -> AdvanceStates]
    /\ named \in [Advances -> 1 .. Len(roots)]
    /\ awake \subseteq Advances
    /\ payments \subseteq Advances
    /\ saves \in Seq(SaveIntents)
    /\ record \in 1 .. Len(roots)
    /\ tree \in Seq(Advances)
    /\ timedOut \in BOOLEAN
    /\ pc \in WorkerSteps
    /\ todo \in Seq(Advances)

\* A new pool: its history begins with the root of the empty tree.
FirstSlot == 2

Init ==
    /\ leaves = <<>>
    /\ roots = <<0>>
    /\ slot = FirstSlot
    /\ slotOf = [a \in Advances |-> 0]
    /\ adv = [a \in Advances |-> "none"]
    /\ named = [a \in Advances |-> 1]
    /\ awake = {}
    /\ payments = {}
    /\ saves = <<>>
    /\ record = 1
    /\ tree = <<>>
    /\ timedOut = FALSE
    /\ pc = "idle"
    /\ todo = <<>>

Leaf(a) == \E n \in DOMAIN leaves : leaves[n] = a
UnderRoot(n) == SubSeq(leaves, 1, roots[n])
Submitted == {a \in Advances : adv[a] \notin {"none", "signing"}}
Schedulable == {a \in Advances : adv[a] \in {"Unknown", "Pending"}}
Latest == saves[Len(saves)]

(***************************************************************************)
(* SubmitIntent and the sequencer.                                         *)
(***************************************************************************)

\* The server makes the transaction of an advance with the recent root of the
\* pool record.
Sign(a) ==
    /\ adv[a] = "none"
    /\ adv' = [adv EXCEPT ![a] = "signing"]
    /\ named' = [named EXCEPT ![a] = record]
    /\ UNCHANGED <<chainVars, awake, payments, saves, record, tree, timedOut, workerVars>>

Submit(a) ==
    /\ adv[a] = "signing"
    /\ adv' = [adv EXCEPT ![a] = "Unknown"]
    /\ awake' = IF a \in Bypass THEN awake \cup {a} ELSE awake
    /\ UNCHANGED <<chainVars, named, payments, saves, record, tree, timedOut, workerVars>>

Schedule(a) ==
    /\ adv[a] = "Unknown"
    /\ a \in awake
    /\ adv' = [adv EXCEPT ![a] = "Pending"]
    /\ UNCHANGED <<chainVars, named, awake, payments, saves, record, tree, timedOut, workerVars>>

\* The pool takes an advance only if the root it names is in the history list.
Known(n) == n > Len(roots) - HistorySize

Execute(a) ==
    /\ adv[a] = "Pending"
    /\ ~Leaf(a)
    /\ \/ /\ Known(named[a])
          /\ \E gap \in Gaps : slot' = slot + gap
          /\ leaves' = Append(leaves, a)
          /\ slotOf' = [slotOf EXCEPT ![a] = slot']
          /\ adv' = adv
       \/ /\ ~Known(named[a])
          /\ adv' = [adv EXCEPT ![a] = "Failed"]
          /\ UNCHANGED <<leaves, slot, slotOf>>
    /\ UNCHANGED <<roots, named, awake, payments, saves, record, tree, timedOut, workerVars>>

\* OnSuccess saves the payment, and the fulfillment is marked in a later write.
SavePayment(a) ==
    /\ adv[a] = "Pending"
    /\ Leaf(a)
    /\ a \notin payments
    /\ payments' = payments \cup {a}
    /\ UNCHANGED <<chainVars, adv, named, awake, saves, record, tree, timedOut, workerVars>>

Confirm(a) ==
    /\ adv[a] = "Pending"
    /\ a \in payments
    /\ adv' = [adv EXCEPT ![a] = "Confirmed"]
    /\ UNCHANGED <<chainVars, named, awake, payments, saves, record, tree, timedOut, workerVars>>

\* Mutant: the save does not wait for the advances before it.
ScheduleSaveAtOnce(k) ==
    /\ saves[k].state = "Unknown"
    /\ saves' = [saves EXCEPT ![k].state = "Pending"]
    /\ UNCHANGED <<chainVars, advanceVars, record, tree, timedOut, workerVars>>

\* SaveRecentRootFulfillmentHandler.CanSubmitToBlockchain: the advances before
\* it, in the order of their intents, have played out.
ScheduleSave(k) ==
    /\ saves[k].state = "Unknown"
    /\ saves[k].earlier \cap Schedulable = {}
    /\ saves' = [saves EXCEPT ![k].state = "Pending"]
    /\ UNCHANGED <<chainVars, advanceVars, record, tree, timedOut, workerVars>>

ExecuteSave(k) ==
    /\ saves[k].state = "Pending"
    /\ saves[k].slot = 0
    /\ \E gap \in Gaps : slot' = slot + gap
    /\ saves' = [saves EXCEPT ![k].slot = slot']
    /\ roots' = Append(roots, Len(leaves))
    /\ UNCHANGED <<leaves, slotOf, advanceVars, record, tree, timedOut, workerVars>>

ConfirmSave(k) ==
    /\ saves[k].state = "Pending"
    /\ saves[k].slot # 0
    /\ saves' = [saves EXCEPT ![k].state = "Confirmed"]
    /\ UNCHANGED <<chainVars, advanceVars, record, tree, timedOut, workerVars>>

(***************************************************************************)
(* The worker (handleAvailable).                                           *)
(***************************************************************************)

\* updateAccountState, by a node that may be behind.
UpdateAccountState ==
    /\ pc = "idle"
    /\ record' \in record .. Len(roots)
    /\ pc' = "sync"
    /\ UNCHANGED <<chainVars, advanceVars, saves, tree, timedOut, todo>>

InSync == tree = UnderRoot(record)

FirstBlock == IF tree = <<>> THEN 0 ELSE slotOf[tree[Len(tree)]]

Place(a) == CHOOSE n \in DOMAIN leaves : leaves[n] = a

\* Mutant: the whole block of the save is taken.
PaymentsToAddByBlock ==
    {a \in payments :
        /\ slotOf[a] \in FirstBlock .. Latest.slot
        /\ tree # <<>> => Place(a) > Place(tree[Len(tree)])}

\* The payments to add: those with a record, from the block of the last leaf
\* up to the block of the last saved root; in these blocks, after the last leaf
\* and before the save.
PaymentsToAdd ==
    {a \in payments :
        /\ slotOf[a] \in FirstBlock .. Latest.slot
        /\ Place(a) <= roots[Len(saves) + 1]
        /\ tree # <<>> => Place(a) > Place(tree[Len(tree)])}

\* They are sorted by the block and their place in it.
InOrder(found) ==
    {s \in [1 .. Cardinality(found) -> found] :
        \A m, n \in DOMAIN s : m < n => Place(s[m]) < Place(s[n])}

\* The checkpoint of the last leaf is a confirmed fulfillment.
CanCheckpoint == tree # <<>> => adv[tree[Len(tree)]] = "Confirmed"

\* Mutant: the root of the tree to be is not compared to that of the pool.
SyncMerkleTreeUnchecked ==
    /\ pc = "sync"
    /\ \/ /\ InSync \/ saves = <<>>
          /\ pc' = "save"
          /\ todo' = todo
       \/ /\ ~InSync /\ saves # <<>>
          /\ Latest.state = "Confirmed" /\ CanCheckpoint /\ PaymentsToAdd # {}
          /\ pc' = "add"
          /\ todo' \in InOrder(PaymentsToAdd)
    /\ UNCHANGED <<chainVars, advanceVars, saves, record, tree, timedOut>>

\* syncMerkleTree: leaves are added only if the tree then has the recent root
\* of the pool record (safelyAddToMerkleTree).
SyncMerkleTree ==
    /\ pc = "sync"
    /\ \/ /\ InSync \/ saves = <<>>
          /\ pc' = "save"
          /\ todo' = todo
       \/ /\ ~InSync /\ saves # <<>>
          /\ Latest.state = "Confirmed" /\ CanCheckpoint /\ PaymentsToAdd # {}
          /\ todo' \in InOrder(PaymentsToAdd)
          /\ tree \o todo' = UnderRoot(record)
          /\ pc' = "add"
       \/ /\ ~InSync /\ saves # <<>>
          /\ Latest.state = "Confirmed" /\ CanCheckpoint /\ PaymentsToAdd # {} =>
                \A new \in InOrder(PaymentsToAdd) : tree \o new # UnderRoot(record)
          /\ pc' = "idle"
          /\ todo' = todo
    /\ UNCHANGED <<chainVars, advanceVars, saves, record, tree, timedOut>>

\* MerkleTree.AddLeaf, a DB transaction for each leaf.
AddLeaf ==
    /\ pc = "add"
    /\ tree' = Append(tree, Head(todo))
    /\ todo' = Tail(todo)
    /\ pc' = IF Len(todo) = 1 THEN "save" ELSE "add"
    /\ UNCHANGED <<chainVars, advanceVars, saves, record, timedOut>>

Collected == {a \in Advances : adv[a] = "Unknown"}

\* Mutant: advances are looked for from the beginning.
AnyFinalizedEver == payments # {}

\* anyFinalizedTreasuryAdvancesAfterLastSaveRecentRoot: the bound of the query
\* is exclusive, and it is given the slot after that of the save.
AnyFinalized ==
    LET lowerBoundBlock == IF saves = <<>> THEN 0 ELSE Latest.slot
    IN  \E a \in payments : slotOf[a] > lowerBoundBlock + 1

\* maybeSaveRecentRoot.
MaybeSaveRecentRoot ==
    /\ pc = "save"
    /\ LET unfinished == saves # <<>> /\ Latest.state # "Confirmed"
           uptodate == /\ saves # <<>> => roots[Latest.previous] # roots[record]
                       /\ InSync
           enough == timedOut \/ Cardinality(Collected) >= MinAdvances
       IN  pc' = IF unfinished THEN "gates"
                 ELSE IF uptodate /\ (Collected # {} \/ AnyFinalized) /\ enough THEN "create"
                 ELSE "idle"
    /\ UNCHANGED <<chainVars, advanceVars, saves, record, tree, timedOut, todo>>

\* Its DB transaction.  A SubmitIntent does not last longer than it takes to
\* save RootsPerRPC roots.
CreateSave ==
    /\ pc = "create"
    /\ Len(saves) < MaxSaves
    /\ \A a \in Advances : adv[a] = "signing" => Len(saves) < named[a] + RootsPerRPC
    /\ saves' = Append(saves, [previous |-> record, earlier |-> Submitted, slot |-> 0,
                               state |-> "Unknown"])
    /\ timedOut' = FALSE
    /\ pc' = "gates"
    /\ UNCHANGED <<chainVars, advanceVars, record, tree, todo>>

\* openTreasuryAdvanceFloodGates.
OpenFloodGates ==
    /\ pc = "gates"
    /\ awake' = awake \cup (Latest.earlier \cap Collected)
    /\ pc' = "idle"
    /\ UNCHANGED <<chainVars, adv, named, payments, saves, record, tree, timedOut, todo>>

\* An error, or a restart.  Elsewhere it is as if the worker had not begun.
Abort ==
    /\ pc \in {"add", "create", "gates"}
    /\ pc' = "idle"
    /\ todo' = <<>>
    /\ UNCHANGED <<chainVars, advanceVars, saves, record, tree, timedOut>>

TimeOut ==
    /\ ~timedOut
    /\ timedOut' = TRUE
    /\ UNCHANGED <<chainVars, advanceVars, saves, record, tree, workerVars>>

Worker == UpdateAccountState \/ SyncMerkleTree \/ AddLeaf \/ MaybeSaveRecentRoot
            \/ CreateSave \/ OpenFloodGates

Sequencer ==
    \/ \E a \in Advances : Schedule(a) \/ Execute(a) \/ SavePayment(a) \/ Confirm(a)
    \/ \E k \in DOMAIN saves : ScheduleSave(k) \/ ExecuteSave(k) \/ ConfirmSave(k)

Next ==
    \/ \E a \in Advances : Sign(a) \/ Submit(a)
    \/ Sequencer \/ Worker \/ Abort \/ TimeOut

Spec == Init /\ [][Next]_vars

\* Fairness: RPCs end, the sequencer and the worker poll again and again, the
\* node is up to date now and then, time passes.
FairSpec ==
    /\ Spec
    /\ WF_vars(\E a \in Advances : Submit(a))
    /\ WF_vars(Sequencer)
    /\ WF_vars(Worker)
    /\ SF_vars(UpdateAccountState /\ record' = Len(roots))
    /\ WF_vars(TimeOut)

(***************************************************************************)
(* Properties.                                                             *)
(***************************************************************************)

\* The tree in the database is that of the pool, some leaves behind: whatever
\* payments were missing, and wherever the worker stopped (syncMerkleTree).
TreeIsThatOfPool ==
    Len(tree) <= Len(leaves) /\ tree = SubSeq(leaves, 1, Len(tree))

\* No root is saved twice: the worker would wait for ever for it to change
\* (maybeSaveRecentRoot).
RootsDiffer == \A m, n \in DOMAIN roots : roots[m] = roots[n] => m = n

\* No advance comes too late for the root it names: those that were held back,
\* and those submitted while a root was saved, are executed before the history
\* list moves on (SaveRecentRootFulfillmentHandler).
RootsAreKnown == \A a \in Advances : adv[a] # "Failed"

\* An advance that was not collected, executed after the last save but in the
\* same block or the next.
Overlooked(a) ==
    /\ a \in Bypass
    /\ saves # <<>> /\ slotOf[a] <= Latest.slot + 1
    /\ \E n \in DOMAIN leaves : n > roots[Len(roots)] /\ leaves[n] = a

\* Every advance is released, executed, and in the end part of the tree, that
\* clients get their proofs from.
EveryAdvanceIsProvable ==
    <>[][~Abort]_vars =>
        []<>(\A a \in Submitted : (\E n \in DOMAIN tree : tree[n] = a) \/ Overlooked(a))

=============================================================================
