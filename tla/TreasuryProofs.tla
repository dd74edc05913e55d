----------------------------- MODULE TreasuryProofs -----------------------------
(***************************************************************************)
(* Proofs about Treasury, for any advances, gaps between blocks, sizes of  *)
(* the history list and number of saves: type correctness; the tree of the *)
(* database is that of the pool; an advance is in time for the root it     *)
(* names; no root is saved twice.                                          *)
(***************************************************************************)
EXTENDS Treasury, TLAPS, SequenceTheorems, FiniteSetTheorems

(***************************************************************************)
(* Saves.  They are executed one by one: all but the last are over.        *)
(***************************************************************************)

SaveInv ==
    /\ \A k \in DOMAIN saves :
        /\ k < Len(saves) => saves[k].state = "Confirmed"
        /\ saves[k].state = "Unknown" => saves[k].slot = 0
        /\ saves[k].state = "Confirmed" => saves[k].slot # 0
    /\ Len(roots) = IF saves # <<>> /\ Latest.slot = 0 THEN Len(saves) ELSE Len(saves) + 1
    /\ pc = "create" => (saves # <<>> => Latest.state = "Confirmed")

\* Every save is based on a later root than the one before it.
RecordInv ==
    /\ record >= Len(saves)
    /\ saves # <<>> => Latest.previous <= record /\ Len(saves) <= Latest.previous
    /\ pc = "create" => (saves # <<>> => Latest.previous < record)

\* An advance is among those a save waits for, unless the root it names is that
\* of the save, or as young as the length of an RPC allows.
WaitInv ==
    /\ \A a \in Advances : adv[a] = "signing" => Len(saves) <= named[a] + RootsPerRPC
    /\ \A a \in Schedulable, k \in DOMAIN saves :
            k > named[a] + RootsPerRPC => a \in saves[k].earlier
    /\ \A k \in DOMAIN saves : \A a \in saves[k].earlier :
            /\ adv[a] \notin {"none", "signing"}
            /\ saves[k].state # "Unknown" => a \notin Schedulable

(***************************************************************************)
(* Leaves.                                                                 *)
(***************************************************************************)

\* What executed is a leaf, once, in the order of the blocks.
LeafInv ==
    /\ \A a \in Advances :
        /\ Leaf(a) => adv[a] \in {"Pending", "Confirmed"}
        /\ a \in payments \/ adv[a] = "Confirmed" => Leaf(a)
    /\ saves = <<>> => roots[Len(roots)] = 0
    /\ slot >= FirstSlot
    /\ \A n \in DOMAIN leaves : slotOf[leaves[n]] <= slot
    /\ \A n \in DOMAIN leaves :
        n <= roots[Len(roots)] /\ saves # <<>> /\ Latest.slot # 0 =>
            slotOf[leaves[n]] <= Latest.slot

\* An advance that is not under the last root, and will not be.
Fresh(a) == \A n \in DOMAIN leaves : leaves[n] = a => n > roots[Len(roots)]

\* A save that is not executed has something to add to the history.
NewInv ==
    /\ saves # <<>> /\ Latest.slot = 0 => \E a \in Latest.earlier : Fresh(a)
    /\ pc = "create" => \E a \in Submitted : Fresh(a)

Increasing == \A m, n \in DOMAIN roots : m < n => roots[m] < roots[n]

\* The leaves of the database, and those the worker adds, are the first ones of
\* the pool.
TreeInv ==
    /\ Len(tree) <= Len(leaves)
    /\ \A n \in 1 .. Len(tree) : tree[n] = leaves[n]
    /\ pc = "add" =>
        /\ todo # <<>>
        /\ Len(tree) + Len(todo) <= Len(leaves)
        /\ \A n \in 1 .. Len(todo) : todo[n] = leaves[Len(tree) + n]

IInv == TypeOK /\ SaveInv /\ RecordInv /\ WaitInv /\ LeafInv /\ NewInv /\ Increasing
            /\ TreeInv /\ RootsAreKnown

(***************************************************************************)
(* Types.                                                                  *)
(***************************************************************************)

\* Any order of a finite set of advances is a sequence of them.
LEMMA InOrderType ==
    ASSUME payments \subseteq Advances
    PROVE  InOrder(PaymentsToAdd) \subseteq Seq(Advances)
<1>1. PaymentsToAdd \subseteq Advances
  BY DEF PaymentsToAdd
<1>2. Cardinality(PaymentsToAdd) \in Nat
  BY <1>1, TreasurySets, FS_Subset, FS_CardinalityType
<1> SUFFICES ASSUME NEW s \in [1 .. Cardinality(PaymentsToAdd) -> PaymentsToAdd]
             PROVE  s \in Seq(Advances)
  BY DEF InOrder
<1>3. s \in [1 .. Cardinality(PaymentsToAdd) -> Advances]
  BY <1>1
<1> QED
  BY <1>2, <1>3

\* The types of the variables at first.
LEMMA InvInit == Init => IInv
<1> SUFFICES ASSUME Init PROVE IInv
  OBVIOUS
<1> USE TreasuryBounds DEF Init, FirstSlot
<1>1. TypeOK
  <2>1. leaves \in Seq(Advances) /\ Len(leaves) = 0
    BY EmptySeq
  <2>2. roots \in Seq(0 .. Len(leaves)) /\ roots # <<>> /\ Len(roots) = 1
    BY <2>1
  <2>3. tree \in Seq(Advances) /\ todo \in Seq(Advances) /\ saves \in Seq(SaveIntents)
    BY EmptySeq
  <2>4. /\ slotOf \in [Advances -> 0 .. slot] /\ slot \in Nat
        /\ named \in [Advances -> 1 .. Len(roots)] /\ record \in 1 .. Len(roots)
    BY <2>2
  <2> QED
    BY <2>1, <2>2, <2>3, <2>4 DEF TypeOK, AdvanceStates, WorkerSteps
<1>2. SaveInv /\ RecordInv /\ WaitInv
  BY DEF SaveInv, RecordInv, WaitInv, Schedulable
<1>3. LeafInv /\ NewInv /\ Increasing
  BY DEF LeafInv, Leaf, NewInv, Increasing
<1>4. TreeInv /\ RootsAreKnown
  BY DEF TreeInv, RootsAreKnown
<1> QED
  BY <1>1, <1>2, <1>3, <1>4 DEF IInv

\* An advance that goes on keeps the types.
LEMMA AdvanceType ==
    ASSUME TypeOK, NEW a \in Advances,
           Sign(a) \/ Submit(a) \/ Schedule(a) \/ Execute(a) \/ SavePayment(a) \/ Confirm(a)
    PROVE  TypeOK'
<1> USE DEF TypeOK, AdvanceStates
<1>1. CASE Sign(a)
  BY <1>1 DEF Sign, chainVars, workerVars
<1>2. CASE Submit(a)
  BY <1>2 DEF Submit, chainVars, workerVars
<1>3. CASE Schedule(a)
  BY <1>3 DEF Schedule, chainVars, workerVars
<1>4. CASE Execute(a) /\ Known(named[a])
  <2>1. PICK gap \in Gaps : slot' = slot + gap
    BY <1>4 DEF Execute
  <2>2. slot' \in Nat /\ slot <= slot'
    BY <2>1, TreasurySets
  <2>3. /\ leaves' = Append(leaves, a)
        /\ slotOf' = [slotOf EXCEPT ![a] = slot']
        /\ UNCHANGED <<adv, roots, named, awake, payments, saves, record, tree, timedOut, workerVars>>
    BY <1>4 DEF Execute
  <2>4. leaves' \in Seq(Advances) /\ Len(leaves') = Len(leaves) + 1
    BY <2>3, AppendProperties
  <2>5. roots' \in Seq(0 .. Len(leaves'))
    <3>1. Len(leaves) \in Nat
      BY LenProperties
    <3>2. 0 .. Len(leaves) \subseteq 0 .. Len(leaves')
      BY <2>4, <3>1
    <3> QED
      BY <2>3, <3>2, SeqMonotonic
  <2>6. slotOf' \in [Advances -> 0 .. slot']
    BY <2>2, <2>3
  <2> QED
    BY <2>2, <2>3, <2>4, <2>5, <2>6 DEF workerVars
<1>5. CASE Execute(a) /\ ~Known(named[a])
  BY <1>5 DEF Execute, chainVars, workerVars
<1>6. CASE SavePayment(a)
  BY <1>6 DEF SavePayment, chainVars, workerVars
<1>7. CASE Confirm(a)
  BY <1>7 DEF Confirm, chainVars, workerVars
<1> QED
  BY <1>1, <1>2, <1>3, <1>4, <1>5, <1>6, <1>7

\* A save that goes on keeps the types.
LEMMA SaveType ==
    ASSUME TypeOK, NEW k \in DOMAIN saves,
           ScheduleSave(k) \/ ExecuteSave(k) \/ ConfirmSave(k)
    PROVE  TypeOK'
<1> USE DEF TypeOK
<1>1. saves[k] \in SaveIntents /\ k \in 1 .. Len(saves)
  BY LenProperties, ElementOfSeq
<1>2. ASSUME NEW s \in SaveIntents, saves' = [saves EXCEPT ![k] = s]
      PROVE  saves' \in Seq(SaveIntents)
  BY <1>1, <1>2, ExceptSeq
<1>3. CASE ScheduleSave(k)
  <2>1. [saves[k] EXCEPT !.state = "Pending"] \in SaveIntents
    BY <1>1 DEF SaveIntents
  <2>2. saves' \in Seq(SaveIntents)
    BY <1>2, <1>3, <2>1 DEF ScheduleSave
  <2> QED
    BY <1>3, <2>2 DEF ScheduleSave, chainVars, advanceVars, workerVars
<1>4. CASE ConfirmSave(k)
  <2>1. [saves[k] EXCEPT !.state = "Confirmed"] \in SaveIntents
    BY <1>1 DEF SaveIntents
  <2>2. saves' \in Seq(SaveIntents)
    BY <1>2, <1>4, <2>1 DEF ConfirmSave
  <2> QED
    BY <1>4, <2>2 DEF ConfirmSave, chainVars, advanceVars, workerVars
<1>5. CASE ExecuteSave(k)
  <2>1. PICK gap \in Gaps : slot' = slot + gap
    BY <1>5 DEF ExecuteSave
  <2>2. slot' \in Nat /\ slot <= slot'
    BY <2>1, TreasurySets
  <2>3. [saves[k] EXCEPT !.slot = slot'] \in SaveIntents
    BY <1>1, <2>2 DEF SaveIntents
  <2>4. saves' \in Seq(SaveIntents)
    BY <1>2, <1>5, <2>3 DEF ExecuteSave
  <2>5. /\ roots' \in Seq(0 .. Len(leaves)) /\ roots' # <<>>
        /\ Len(roots') = Len(roots) + 1
        /\ Len(roots) \in Nat
    BY <1>5, AppendProperties, LenProperties DEF ExecuteSave
  <2>6. /\ slotOf' \in [Advances -> 0 .. slot']
        /\ named' \in [Advances -> 1 .. Len(roots')]
        /\ record' \in 1 .. Len(roots')
    BY <1>5, <2>2, <2>5 DEF ExecuteSave, advanceVars
  <2> QED
    BY <1>5, <2>2, <2>4, <2>5, <2>6 DEF ExecuteSave, advanceVars, workerVars
<1> QED
  BY <1>3, <1>4, <1>5

\* The worker keeps the types.
LEMMA WorkerType ==
    ASSUME TypeOK, Worker \/ Abort \/ TimeOut,
           pc = "add" => todo # <<>>
    PROVE  TypeOK'
<1> USE DEF TypeOK, WorkerSteps
<1>1. CASE UpdateAccountState
  <2>1. record' \in 1 .. Len(roots)
    BY <1>1, LenProperties DEF UpdateAccountState
  <2> QED
    BY <1>1, <2>1 DEF UpdateAccountState, chainVars, advanceVars
<1>2. CASE SyncMerkleTree
  <2>1. todo' \in Seq(Advances)
    BY <1>2, InOrderType DEF SyncMerkleTree
  <2> QED
    BY <1>2, <2>1 DEF SyncMerkleTree, chainVars, advanceVars
<1>3. CASE AddLeaf
  <2>1. Head(todo) \in Advances /\ Tail(todo) \in Seq(Advances)
    BY <1>3, HeadTailProperties DEF AddLeaf
  <2>2. Append(tree, Head(todo)) \in Seq(Advances)
    BY <2>1, AppendProperties
  <2> QED
    BY <1>3, <2>1, <2>2 DEF AddLeaf, chainVars, advanceVars
<1>4. CASE MaybeSaveRecentRoot
  BY <1>4 DEF MaybeSaveRecentRoot, chainVars, advanceVars
<1>5. CASE CreateSave
  <2>1. [previous |-> record, earlier |-> Submitted, slot |-> 0, state |-> "Unknown"]
            \in SaveIntents
    BY LenProperties DEF SaveIntents, Submitted
  <2>2. saves' \in Seq(SaveIntents)
    BY <1>5, <2>1, AppendProperties DEF CreateSave
  <2> QED
    BY <1>5, <2>2 DEF CreateSave, chainVars, advanceVars
<1>6. CASE OpenFloodGates
  BY <1>6 DEF OpenFloodGates, chainVars, Collected
<1>7. CASE Abort
  BY <1>7, EmptySeq DEF Abort, chainVars, advanceVars
<1>8. CASE TimeOut
  BY <1>8 DEF TimeOut, chainVars, advanceVars, workerVars
<1> QED
  BY <1>1, <1>2, <1>3, <1>4, <1>5, <1>6, <1>7, <1>8 DEF Worker

(***************************************************************************)
(* Steps of an advance.                                                    *)
(***************************************************************************)

\* What a step of an advance leaves alone.
LEMMA AdvanceFrame ==
    ASSUME IInv, NEW a \in Advances,
           Sign(a) \/ Submit(a) \/ Schedule(a) \/ Execute(a) \/ SavePayment(a) \/ Confirm(a)
    PROVE  /\ UNCHANGED <<roots, saves, record, tree, pc, todo>>
           /\ \A b \in Advances \ {a} : adv'[b] = adv[b] /\ named'[b] = named[b]
           /\ Submitted \subseteq Submitted'
BY DEF IInv, TypeOK, Sign, Submit, Schedule, Execute, SavePayment, Confirm, chainVars,
       workerVars, Submitted

\* An advance keeps the saves in the order in which they wait for it.
LEMMA AdvanceKeepsWait ==
    ASSUME IInv, NEW a \in Advances,
           Sign(a) \/ Submit(a) \/ Schedule(a) \/ Execute(a) \/ SavePayment(a) \/ Confirm(a)
    PROVE  SaveInv' /\ RecordInv' /\ WaitInv' /\ Increasing'
<1> TypeOK /\ SaveInv /\ RecordInv /\ WaitInv /\ Increasing
  BY DEF IInv
<1> UNCHANGED <<roots, saves, record, tree, pc, todo>>
  BY AdvanceFrame
<1>1. \A b \in Advances \ {a} : adv'[b] = adv[b] /\ named'[b] = named[b]
  BY AdvanceFrame
<1>2. SaveInv' /\ RecordInv' /\ Increasing'
  BY DEF SaveInv, RecordInv, Increasing, Latest
<1>3. \/ adv[a] = "none" /\ adv'[a] = "signing" /\ named'[a] = record
      \/ adv[a] = "signing" /\ adv'[a] = "Unknown" /\ named'[a] = named[a]
      \/ /\ adv[a] \in {"Unknown", "Pending"}
         /\ adv'[a] \in {"Unknown", "Pending", "Confirmed", "Failed"}
         /\ named'[a] = named[a]
  BY DEF TypeOK, Sign, Submit, Schedule, Execute, SavePayment, Confirm
<1>4. record \in Nat /\ named[a] \in Nat /\ RootsPerRPC \in Nat /\ Len(saves) \in Nat
      /\ DOMAIN saves = 1 .. Len(saves)
  BY TreasuryBounds, LenProperties DEF TypeOK
<1>5. WaitInv'
  <2>1. \A b \in Advances : adv'[b] = "signing" => Len(saves) <= named'[b] + RootsPerRPC
    BY <1>1, <1>3, <1>4 DEF WaitInv, RecordInv
  <2>2. ASSUME NEW b \in Advances, adv'[b] \in {"Unknown", "Pending"},
               NEW k \in DOMAIN saves, k > named'[b] + RootsPerRPC
        PROVE  b \in saves[k].earlier
    <3>1. CASE b # a
      BY <1>1, <2>2, <3>1 DEF WaitInv, Schedulable
    <3>2. CASE b = a /\ adv[a] \in {"Unknown", "Pending"}
      BY <1>3, <2>2, <3>2 DEF WaitInv, Schedulable
    <3>3. CASE b = a /\ adv[a] \notin {"Unknown", "Pending"}
      <4>1. adv[a] = "signing" /\ named'[a] = named[a]
        BY <1>3, <2>2, <3>3
      <4>2. Len(saves) <= named[a] + RootsPerRPC
        BY <4>1 DEF WaitInv
      <4> QED
        BY <1>4, <2>2, <3>3, <4>1, <4>2
    <3> QED
      BY <3>1, <3>2, <3>3
  <2>3. ASSUME NEW k \in DOMAIN saves, NEW b \in saves[k].earlier
        PROVE  /\ adv'[b] \notin {"none", "signing"}
               /\ saves[k].state # "Unknown" => adv'[b] \notin {"Unknown", "Pending"}
    <3>1. saves[k] \in SaveIntents
      BY <1>4, ElementOfSeq DEF TypeOK
    <3>2. b \in Advances
      BY <3>1 DEF SaveIntents
    <3>3. /\ adv[b] \notin {"none", "signing"}
          /\ saves[k].state # "Unknown" => adv[b] \notin {"Unknown", "Pending"}
      BY <3>2 DEF WaitInv, Schedulable
    <3> QED
      BY <1>1, <1>3, <3>2, <3>3
  <2> QED
    BY <2>1, <2>2, <2>3 DEF WaitInv, Schedulable
<1> QED
  BY <1>2, <1>5

\* An advance finds the root it names: the saves after it wait.
LEMMA InTime ==
    ASSUME IInv, NEW a \in Schedulable
    PROVE  Known(named[a])
<1> TypeOK /\ SaveInv /\ WaitInv
  BY DEF IInv
<1>1. /\ named[a] \in 1 .. Len(roots)
      /\ Len(roots) \in Nat /\ Len(saves) \in Nat /\ DOMAIN saves = 1 .. Len(saves)
      /\ RootsPerRPC \in Nat /\ HistorySize \in Nat /\ HistorySize >= RootsPerRPC + 2
  BY TreasuryBounds, LenProperties DEF TypeOK, Schedulable
<1>2. Len(roots) <= named[a] + RootsPerRPC + 1
  <2> SUFFICES ASSUME Len(roots) > named[a] + RootsPerRPC + 1 PROVE FALSE
    BY <1>1
  <2> DEFINE k == Len(roots) - 1
  <2>1. k \in DOMAIN saves /\ k > named[a] + RootsPerRPC
    BY <1>1 DEF SaveInv
  <2>2. a \in saves[k].earlier
    BY <2>1 DEF WaitInv
  <2>3. saves[k].state = "Unknown"
    BY <2>1, <2>2 DEF WaitInv
  <2>4. k = Len(saves) /\ saves[k].slot = 0
    BY <1>1, <2>1, <2>3 DEF SaveInv
  <2>5. saves # <<>> /\ Latest.slot = 0
    BY <1>1, <2>1, <2>4, EmptySeq DEF Latest
  <2> QED
    BY <1>1, <2>4, <2>5 DEF SaveInv
<1> QED
  BY <1>1, <1>2 DEF Known

\* A leaf is added at the end, in the last block.
LEMMA AdvanceKeepsLeaves ==
    ASSUME IInv, NEW a \in Advances,
           Sign(a) \/ Submit(a) \/ Schedule(a) \/ Execute(a) \/ SavePayment(a) \/ Confirm(a)
    PROVE  LeafInv' /\ NewInv' /\ TreeInv' /\ RootsAreKnown'
<1> TypeOK /\ LeafInv /\ NewInv /\ TreeInv /\ RootsAreKnown
  BY DEF IInv
<1> UNCHANGED <<roots, saves, record, tree, pc, todo>>
  BY AdvanceFrame
<1>1. /\ leaves \in Seq(Advances) /\ Len(leaves) \in Nat /\ DOMAIN leaves = 1 .. Len(leaves)
      /\ roots \in Seq(0 .. Len(leaves)) /\ roots # <<>>
      /\ roots[Len(roots)] \in 0 .. Len(leaves)
      /\ slot \in Nat
  <2>1. Len(roots) \in 1 .. Len(roots)
    BY EmptySeq, LenProperties DEF TypeOK
  <2> QED
    BY <2>1, ElementOfSeq, LenProperties DEF TypeOK
<1>2. \A b \in Advances \ {a} : adv'[b] = adv[b]
  BY AdvanceFrame
<1>3. Submitted \subseteq Submitted'
  BY AdvanceFrame
<1>4. CASE ~Execute(a)
  <2>1. UNCHANGED chainVars
    BY <1>4 DEF Sign, Submit, Schedule, SavePayment, Confirm
  <2>2. UNCHANGED <<leaves, slot, slotOf>> /\ \A b \in Advances : Leaf(b)' <=> Leaf(b)
    BY <2>1 DEF chainVars, Leaf
  <2>3. LeafInv'
    <3>1. /\ payments' \subseteq payments \cup {b \in Advances : Leaf(b)}
          /\ Leaf(a) => adv'[a] \in {"Pending", "Confirmed"}
          /\ adv'[a] = "Confirmed" => Leaf(a)
      BY <1>4 DEF LeafInv, TypeOK, Sign, Submit, Schedule, SavePayment, Confirm
    <3>2. \A b \in Advances :
            /\ Leaf(b)' => adv'[b] \in {"Pending", "Confirmed"}
            /\ b \in payments' \/ adv'[b] = "Confirmed" => Leaf(b)'
      BY <1>2, <2>2, <3>1 DEF LeafInv
    <3> QED
      BY <2>2, <3>2 DEF LeafInv, Latest
  <2>4. NewInv'
    BY <1>3, <2>2 DEF NewInv, Fresh, Latest
  <2>5. TreeInv'
    BY <2>2 DEF TreeInv
  <2>6. RootsAreKnown'
    BY <1>2, <1>4 DEF RootsAreKnown, TypeOK, Sign, Submit, Schedule, SavePayment, Confirm
  <2> QED
    BY <2>3, <2>4, <2>5, <2>6
<1>5. CASE Execute(a)
  <2>1. Known(named[a])
    BY <1>5, InTime DEF Execute, Schedulable
  <2>2. PICK gap \in Gaps : slot' = slot + gap
    BY <1>5, <2>1 DEF Execute
  <2>3. /\ ~Leaf(a) /\ adv[a] = "Pending"
        /\ leaves' = Append(leaves, a)
        /\ slotOf' = [slotOf EXCEPT ![a] = slot']
        /\ adv' = adv /\ payments' = payments
    BY <1>5, <2>1 DEF Execute
  <2>4. slot' \in Nat /\ slot <= slot'
    BY <1>1, <2>2, TreasurySets
  <2>5. /\ Len(leaves') = Len(leaves) + 1 /\ DOMAIN leaves' = 1 .. Len(leaves) + 1
        /\ \A n \in 1 .. Len(leaves) : leaves'[n] = leaves[n] /\ leaves[n] \in Advances \ {a}
        /\ leaves'[Len(leaves) + 1] = a
    <3>1. /\ leaves' \in Seq(Advances)
          /\ Len(leaves') = Len(leaves) + 1
          /\ \A n \in 1 .. Len(leaves) : leaves'[n] = leaves[n]
          /\ leaves'[Len(leaves) + 1] = a
      BY <1>1, <2>3, AppendProperties
    <3>2. DOMAIN leaves' = 1 .. Len(leaves) + 1
      BY <3>1, LenProperties
    <3>3. \A n \in 1 .. Len(leaves) : leaves[n] \in Advances
      BY <1>1, ElementOfSeq
    <3>4. \A n \in 1 .. Len(leaves) : leaves[n] # a
      BY <1>1, <2>3 DEF Leaf
    <3> QED
      BY <3>1, <3>2, <3>3, <3>4
  <2>6. \A b \in Advances \ {a} : Leaf(b)' <=> Leaf(b)
    BY <1>1, <2>5 DEF Leaf
  <2>7. Leaf(a)'
    BY <1>1, <2>5 DEF Leaf
  <2>8. LeafInv'
    <3>1. \A b \in Advances :
            /\ Leaf(b)' => adv'[b] \in {"Pending", "Confirmed"}
            /\ b \in payments' \/ adv'[b] = "Confirmed" => Leaf(b)'
      BY <2>3, <2>6, <2>7 DEF LeafInv
    <3>2. \A n \in DOMAIN leaves' : slotOf'[leaves'[n]] <= slot'
      <4>1. \A n \in 1 .. Len(leaves) : slotOf'[leaves'[n]] = slotOf[leaves[n]]
        BY <2>3, <2>5 DEF TypeOK
      <4>2. slotOf'[a] = slot'
        BY <2>3 DEF TypeOK
      <4>3. \A n \in 1 .. Len(leaves) : slotOf[leaves[n]] \in Nat /\ slotOf[leaves[n]] <= slot
        BY <1>1, <2>5 DEF LeafInv, TypeOK
      <4>4. \A n \in 1 .. Len(leaves) : slotOf'[leaves'[n]] <= slot'
        BY <1>1, <2>4, <4>1, <4>3
      <4>5. slotOf'[leaves'[Len(leaves) + 1]] <= slot'
        BY <2>4, <2>5, <4>2
      <4>6. \A n \in DOMAIN leaves' : n \in 1 .. Len(leaves) \/ n = Len(leaves) + 1
        BY <1>1, <2>5
      <4> QED
        BY <4>4, <4>5, <4>6
    <3>3. \A n \in DOMAIN leaves' :
            n <= roots[Len(roots)] /\ saves # <<>> /\ Latest.slot # 0 =>
                slotOf'[leaves'[n]] <= Latest.slot
      <4>1. \A n \in 1 .. Len(leaves) : slotOf'[leaves'[n]] = slotOf[leaves[n]]
        BY <2>3, <2>5 DEF TypeOK
      <4> QED
        BY <1>1, <2>5, <4>1 DEF LeafInv
    <3>4. slot' >= FirstSlot
      BY <1>1, <2>4 DEF LeafInv, FirstSlot
    <3>5. saves' = <<>> => roots'[Len(roots')] = 0
      BY DEF LeafInv
    <3>6. Latest' = Latest /\ saves' = saves /\ roots'[Len(roots')] = roots[Len(roots)]
      BY DEF Latest
    <3>7. \A n \in DOMAIN leaves' :
            n <= roots'[Len(roots')] /\ saves' # <<>> /\ (Latest.slot)' # 0 =>
                slotOf'[leaves'[n]] <= (Latest.slot)'
      BY <3>3, <3>6
    <3> QED
      BY <3>1, <3>2, <3>4, <3>5, <3>7 DEF LeafInv
  <2>9. NewInv'
    <3>1. \A b \in Advances : Fresh(b) => Fresh(b)'
      BY <1>1, <2>5 DEF Fresh
    <3>2. \A k \in DOMAIN saves : saves[k].earlier \subseteq Advances
      <4>1. \A k \in DOMAIN saves : saves[k] \in SaveIntents
        BY ElementOfSeq, LenProperties DEF TypeOK
      <4> QED
        BY <4>1 DEF SaveIntents
    <3>3. saves # <<>> => Len(saves) \in DOMAIN saves
      BY EmptySeq, LenProperties DEF TypeOK
    <3>4. Submitted \subseteq Advances
      BY DEF Submitted
    <3> QED
      BY <1>3, <3>1, <3>2, <3>3, <3>4 DEF NewInv, Latest
  <2>10. TreeInv'
    <3>1. Len(tree) \in Nat /\ Len(todo) \in Nat
      BY LenProperties DEF TypeOK
    <3>2. /\ Len(tree) <= Len(leaves')
          /\ \A n \in 1 .. Len(tree) : tree[n] = leaves'[n]
      BY <1>1, <2>5, <3>1 DEF TreeInv
    <3>3. pc = "add" =>
            /\ Len(tree) + Len(todo) <= Len(leaves')
            /\ \A n \in 1 .. Len(todo) : todo[n] = leaves'[Len(tree) + n]
      BY <1>1, <2>5, <3>1 DEF TreeInv
    <3> QED
      BY <3>2, <3>3 DEF TreeInv
  <2>11. RootsAreKnown'
    BY <2>3 DEF RootsAreKnown
  <2> QED
    BY <2>8, <2>9, <2>10, <2>11
<1> QED
  BY <1>4, <1>5

(***************************************************************************)
(* Steps of a save.                                                        *)
(***************************************************************************)

\* Only the last save is not over; what it waited for is under its root.
LEMMA LastSave ==
    ASSUME IInv, NEW k \in DOMAIN saves,
           ScheduleSave(k) \/ ExecuteSave(k) \/ ConfirmSave(k)
    PROVE  /\ k = Len(saves) /\ saves # <<>> /\ saves[k] = Latest
           /\ saves[k] \in SaveIntents /\ k \in 1 .. Len(saves) /\ Len(saves) \in Nat
           /\ pc # "create"
           /\ UNCHANGED <<leaves, slotOf, advanceVars, record, tree, pc, todo>>
<1> TypeOK /\ SaveInv
  BY DEF IInv
<1>1. saves[k] \in SaveIntents /\ k \in 1 .. Len(saves) /\ Len(saves) \in Nat /\ saves # <<>>
  BY LenProperties, ElementOfSeq, EmptySeq DEF TypeOK
<1>2. saves[k].state # "Confirmed"
  BY DEF ScheduleSave, ExecuteSave, ConfirmSave
<1>3. k = Len(saves)
  BY <1>1, <1>2 DEF SaveInv
<1>4. UNCHANGED <<leaves, slotOf, advanceVars, record, tree, pc, todo>>
  BY DEF ScheduleSave, ExecuteSave, ConfirmSave, chainVars, workerVars
<1> QED
  BY <1>1, <1>2, <1>3, <1>4 DEF SaveInv, Latest

\* A save that is scheduled or confirmed.
LEMMA SaveMarked ==
    ASSUME IInv, NEW k \in DOMAIN saves, ScheduleSave(k) \/ ConfirmSave(k)
    PROVE  IInv'
<1> TypeOK /\ SaveInv /\ RecordInv /\ WaitInv /\ LeafInv /\ NewInv /\ Increasing
      /\ TreeInv /\ RootsAreKnown
  BY DEF IInv
<1>1. /\ k = Len(saves) /\ saves # <<>> /\ saves[k] = Latest
      /\ saves[k] \in SaveIntents /\ k \in 1 .. Len(saves) /\ Len(saves) \in Nat
      /\ pc # "create"
      /\ UNCHANGED <<leaves, slotOf, advanceVars, record, tree, pc, todo>>
  BY LastSave
<1>2. UNCHANGED <<roots, slot>>
  BY DEF ScheduleSave, ConfirmSave, chainVars
<1>3. UNCHANGED <<adv, named, awake, payments>>
  BY <1>1 DEF advanceVars
<1>4. PICK state \in {"Pending", "Confirmed"} :
        /\ saves' = [saves EXCEPT ![k].state = state]
        /\ state = "Confirmed" => saves[k].slot # 0
        /\ state = "Pending" => saves[k].slot = 0 /\ saves[k].earlier \cap Schedulable = {}
        /\ state = "Confirmed" => saves[k].state # "Unknown"
  BY <1>1 DEF ScheduleSave, ConfirmSave, SaveInv
<1>5. /\ Len(saves') = Len(saves) /\ DOMAIN saves' = DOMAIN saves /\ saves' # <<>>
      /\ \A n \in DOMAIN saves \ {k} : saves'[n] = saves[n]
      /\ saves'[k].state = state /\ saves'[k].slot = saves[k].slot
      /\ saves'[k].earlier = saves[k].earlier /\ saves'[k].previous = saves[k].previous
  <2>1. Len(saves') = Len(saves) /\ saves' # <<>>
    BY <1>1, <1>4, EmptySeq, ExceptSeq DEF TypeOK
  <2> QED
    BY <1>1, <1>4, <2>1 DEF SaveIntents
<1>6. /\ Latest'.slot = Latest.slot /\ Latest'.previous = Latest.previous
      /\ Latest'.earlier = Latest.earlier
  BY <1>1, <1>5 DEF Latest
<1>7. TypeOK'
  BY SaveType
<1>8. SaveInv'
  BY <1>1, <1>2, <1>4, <1>5, <1>6 DEF SaveInv
<1>9. RecordInv'
  BY <1>1, <1>5, <1>6 DEF RecordInv
<1>10. WaitInv'
  BY <1>1, <1>3, <1>4, <1>5 DEF WaitInv, Schedulable
<1>11. LeafInv'
  BY <1>1, <1>2, <1>3, <1>5, <1>6 DEF LeafInv, Leaf
<1>12. NewInv'
  BY <1>1, <1>2, <1>5, <1>6 DEF NewInv, Fresh
<1>13. Increasing' /\ TreeInv' /\ RootsAreKnown'
  BY <1>1, <1>2, <1>3 DEF Increasing, TreeInv, RootsAreKnown
<1> QED
  BY <1>7, <1>8, <1>9, <1>10, <1>11, <1>12, <1>13 DEF IInv

\* A save that is executed adds a root over more leaves.
LEMMA SaveExecuted ==
    ASSUME IInv, NEW k \in DOMAIN saves, ExecuteSave(k)
    PROVE  IInv'
<1> TypeOK /\ SaveInv /\ RecordInv /\ WaitInv /\ LeafInv /\ NewInv /\ Increasing
      /\ TreeInv /\ RootsAreKnown
  BY DEF IInv
<1>1. /\ k = Len(saves) /\ saves # <<>> /\ saves[k] = Latest
      /\ saves[k] \in SaveIntents /\ k \in 1 .. Len(saves) /\ Len(saves) \in Nat
      /\ pc # "create"
      /\ UNCHANGED <<leaves, slotOf, advanceVars, record, tree, pc, todo>>
  BY LastSave
<1>2. PICK gap \in Gaps : slot' = slot + gap
  BY DEF ExecuteSave
<1>3. slot \in Nat /\ slot' \in Nat /\ slot <= slot' /\ slot' >= FirstSlot /\ slot' # 0
  BY <1>2, TreasurySets DEF TypeOK, LeafInv, FirstSlot
<1>4. UNCHANGED <<adv, named, awake, payments>>
  BY <1>1 DEF advanceVars
<1>5. /\ Len(saves') = Len(saves) /\ DOMAIN saves' = DOMAIN saves /\ saves' # <<>>
      /\ \A n \in DOMAIN saves \ {k} : saves'[n] = saves[n]
      /\ saves'[k].state = saves[k].state /\ saves'[k].slot = slot'
      /\ saves'[k].earlier = saves[k].earlier /\ saves'[k].previous = saves[k].previous
  <2>1. saves' = [saves EXCEPT ![k].slot = slot']
    BY DEF ExecuteSave
  <2>2. Len(saves') = Len(saves) /\ saves' # <<>>
    BY <1>1, <2>1, EmptySeq, ExceptSeq DEF TypeOK
  <2> QED
    BY <1>1, <2>1, <2>2 DEF SaveIntents
<1>6. /\ Latest'.slot = slot' /\ Latest'.previous = Latest.previous
      /\ Latest.slot = 0 /\ Latest.state = "Pending"
  BY <1>1, <1>5 DEF Latest, ExecuteSave
<1>7. /\ leaves \in Seq(Advances) /\ Len(leaves) \in Nat /\ DOMAIN leaves = 1 .. Len(leaves)
      /\ roots \in Seq(Nat) /\ Len(roots) \in Nat /\ DOMAIN roots = 1 .. Len(roots)
      /\ Len(roots) >= 1
      /\ \A n \in 1 .. Len(roots) : roots[n] \in Nat
  <2>1. leaves \in Seq(Advances) /\ Len(leaves) \in Nat /\ DOMAIN leaves = 1 .. Len(leaves)
    BY LenProperties DEF TypeOK
  <2>2. 0 .. Len(leaves) \subseteq Nat
    BY <2>1
  <2>3. roots \in Seq(Nat) /\ roots # <<>>
    BY <2>2, SeqMonotonic DEF TypeOK
  <2> QED
    BY <2>1, <2>3, EmptySeq, LenProperties, ElementOfSeq
<1>8. /\ Len(roots') = Len(roots) + 1 /\ DOMAIN roots' = 1 .. Len(roots) + 1
      /\ \A n \in 1 .. Len(roots) : roots'[n] = roots[n]
      /\ roots'[Len(roots) + 1] = Len(leaves)
  <2>1. roots' = Append(roots, Len(leaves))
    BY DEF ExecuteSave
  <2> QED
    BY <1>7, <2>1, AppendProperties, LenProperties
<1>9. PICK a \in Latest.earlier : Fresh(a)
  BY <1>1, <1>6 DEF NewInv
<1>10. Leaf(a)
  <2>1. a \in Advances
    BY <1>1, <1>9 DEF SaveIntents
  <2>2. adv[a] \notin {"none", "signing"} /\ a \notin Schedulable
    BY <1>1, <1>6, <1>9 DEF WaitInv
  <2>3. adv[a] = "Confirmed"
    BY <2>1, <2>2 DEF Schedulable, TypeOK, AdvanceStates, RootsAreKnown
  <2> QED
    BY <2>1, <2>3 DEF LeafInv
<1>11. roots[Len(roots)] < Len(leaves)
  BY <1>7, <1>9, <1>10 DEF Leaf, Fresh
<1>12. TypeOK'
  BY SaveType
<1>13. SaveInv'
  <2>1. Len(roots) = Len(saves)
    BY <1>1, <1>6 DEF SaveInv
  <2>2. Len(roots') = Len(saves') + 1 /\ Latest'.slot # 0
    BY <1>3, <1>5, <1>6, <1>8, <2>1
  <2>3. \A n \in DOMAIN saves' :
            /\ n < Len(saves') => saves'[n].state = "Confirmed"
            /\ saves'[n].state = "Unknown" => saves'[n].slot = 0
            /\ saves'[n].state = "Confirmed" => saves'[n].slot # 0
    BY <1>1, <1>3, <1>5, <1>6 DEF SaveInv
  <2> QED
    BY <1>1, <2>2, <2>3 DEF SaveInv
<1>14. RecordInv'
  BY <1>1, <1>5, <1>6 DEF RecordInv
<1>15. WaitInv'
  BY <1>1, <1>4, <1>5 DEF WaitInv, Schedulable
<1>16. LeafInv'
  <2>1. \A n \in DOMAIN leaves : slotOf[leaves[n]] <= slot'
    <3>1. \A n \in DOMAIN leaves : slotOf[leaves[n]] \in Nat /\ slotOf[leaves[n]] <= slot
      BY <1>3, <1>7, ElementOfSeq DEF LeafInv, TypeOK
    <3> QED
      BY <1>3, <3>1
  <2> QED
    BY <1>1, <1>3, <1>4, <1>5, <1>6, <2>1 DEF LeafInv, Leaf
<1>17. NewInv'
  BY <1>1, <1>3, <1>6 DEF NewInv
<1>18. Increasing'
  <2>1. \A n \in 1 .. Len(roots) : roots[n] <= roots[Len(roots)]
    <3> SUFFICES ASSUME NEW n \in 1 .. Len(roots) PROVE roots[n] <= roots[Len(roots)]
      OBVIOUS
    <3>1. n \in DOMAIN roots /\ Len(roots) \in DOMAIN roots
      BY <1>7
    <3>2. roots[n] \in Nat /\ roots[Len(roots)] \in Nat
      BY <1>7, <3>1
    <3>3. CASE n = Len(roots)
      BY <3>2, <3>3
    <3>4. CASE n < Len(roots)
      BY <3>1, <3>2, <3>4 DEF Increasing
    <3>5. Len(roots) \in Nat
      BY <1>7
    <3> QED
      BY <3>3, <3>4, <3>5
  <2> SUFFICES ASSUME NEW m \in 1 .. Len(roots) + 1, NEW n \in 1 .. Len(roots) + 1, m < n
               PROVE  roots'[m] < roots'[n]
    BY <1>8 DEF Increasing
  <2>2. m \in 1 .. Len(roots)
    BY <1>7
  <2>3. CASE n \in 1 .. Len(roots)
    BY <1>7, <1>8, <2>2, <2>3 DEF Increasing
  <2>4. CASE n = Len(roots) + 1
    BY <1>7, <1>8, <1>11, <2>1, <2>2, <2>4
  <2> QED
    BY <1>7, <2>3, <2>4
<1>19. TreeInv' /\ RootsAreKnown'
  BY <1>1, <1>4 DEF TreeInv, RootsAreKnown
<1> QED
  BY <1>12, <1>13, <1>14, <1>15, <1>16, <1>17, <1>18, <1>19 DEF IInv

(***************************************************************************)
(* Steps of the worker.                                                    *)
(***************************************************************************)

\* A step that decides nothing.
LEMMA Calm ==
    ASSUME IInv, TypeOK',
           UNCHANGED <<chainVars, adv, named, payments, saves, tree>>,
           record <= record',
           pc' = "create" => pc = "create" /\ record' = record,
           pc' = "add" => pc = "add" /\ todo' = todo
    PROVE  IInv'
<1> TypeOK /\ SaveInv /\ RecordInv /\ WaitInv /\ LeafInv /\ NewInv /\ Increasing
      /\ TreeInv /\ RootsAreKnown
  BY DEF IInv
<1>1. UNCHANGED <<leaves, roots, slot, slotOf, adv, named, payments, saves, tree>>
  BY DEF chainVars
<1>2. Latest' = Latest
  BY <1>1 DEF Latest
<1>3. SaveInv'
  BY <1>1, <1>2 DEF SaveInv
<1>4. RecordInv'
  <2>1. record \in Nat /\ record' \in Nat /\ Len(saves) \in Nat
    BY LenProperties DEF TypeOK
  <2>2. saves # <<>> => Latest.previous \in Nat
    <3>1. saves # <<>> => Len(saves) \in 1 .. Len(saves)
      BY <2>1, EmptySeq DEF TypeOK
    <3>2. saves # <<>> => Latest \in SaveIntents
      BY <3>1, ElementOfSeq DEF TypeOK, Latest
    <3> QED
      BY <3>2 DEF SaveIntents
  <2> QED
    BY <1>1, <1>2, <2>1, <2>2 DEF RecordInv
<1>5. WaitInv'
  BY <1>1 DEF WaitInv, Schedulable
<1>6. LeafInv'
  BY <1>1, <1>2 DEF LeafInv, Leaf
<1>7. NewInv'
  BY <1>1, <1>2 DEF NewInv, Fresh, Submitted
<1>8. Increasing' /\ TreeInv' /\ RootsAreKnown'
  BY <1>1 DEF Increasing, TreeInv, RootsAreKnown
<1> QED
  BY <1>3, <1>4, <1>5, <1>6, <1>7, <1>8 DEF IInv

\* A step that concerns the tree alone.
LEMMA TreeAlone ==
    ASSUME IInv, TypeOK', TreeInv',
           UNCHANGED <<chainVars, adv, named, payments, saves, record>>,
           pc' # "create"
    PROVE  IInv'
<1> SaveInv /\ RecordInv /\ WaitInv /\ LeafInv /\ NewInv /\ Increasing /\ RootsAreKnown
  BY DEF IInv
<1>1. UNCHANGED <<leaves, roots, slot, slotOf, adv, named, payments, saves, record>>
  BY DEF chainVars
<1>2. Latest' = Latest
  BY <1>1 DEF Latest
<1>3. SaveInv' /\ RecordInv'
  BY <1>1, <1>2 DEF SaveInv, RecordInv
<1>4. WaitInv' /\ LeafInv'
  BY <1>1, <1>2 DEF WaitInv, Schedulable, LeafInv, Leaf
<1>5. NewInv' /\ Increasing' /\ RootsAreKnown'
  BY <1>1, <1>2 DEF NewInv, Fresh, Increasing, RootsAreKnown
<1> QED
  BY <1>3, <1>4, <1>5 DEF IInv

\* The leaves to add are the next ones of the pool: the root says so.
LEMMA LeavesAreNext ==
    ASSUME IInv, SyncMerkleTree, pc' = "add"
    PROVE  TreeInv'
<1> TypeOK /\ TreeInv
  BY DEF IInv
<1> DEFINE m == roots[record]
<1>1. /\ tree \o todo' = SubSeq(leaves, 1, m)
      /\ PaymentsToAdd # {} /\ todo' \in InOrder(PaymentsToAdd)
      /\ UNCHANGED <<leaves, tree>>
  BY DEF SyncMerkleTree, UnderRoot, chainVars
<1>2. todo' \in Seq(Advances) /\ todo' # <<>> /\ Len(todo') \in Nat
  <2>1. PaymentsToAdd \subseteq Advances
    BY DEF PaymentsToAdd, TypeOK
  <2>2. IsFiniteSet(PaymentsToAdd)
    BY <2>1, TreasurySets, FS_Subset
  <2>3. Cardinality(PaymentsToAdd) \in Nat /\ Cardinality(PaymentsToAdd) # 0
    BY <1>1, <2>2, FS_CardinalityType, FS_EmptySet
  <2>4. todo' \in [1 .. Cardinality(PaymentsToAdd) -> PaymentsToAdd]
    BY <1>1 DEF InOrder
  <2>5. todo' \in Seq(Advances)
    BY <1>1, InOrderType DEF TypeOK
  <2>6. DOMAIN todo' = 1 .. Cardinality(PaymentsToAdd)
    BY <2>4
  <2> QED
    BY <2>3, <2>5, <2>6, EmptySeq, LenProperties
<1>3. m \in 0 .. Len(leaves) /\ Len(leaves) \in Nat
  BY ElementOfSeq, LenProperties DEF TypeOK
<1>4. /\ Len(SubSeq(leaves, 1, m)) = m
      /\ \A i \in 1 .. m : SubSeq(leaves, 1, m)[i] = leaves[i]
  <2>1. m \in Int /\ m >= 0
    BY <1>3
  <2>2. \A i \in 1 .. m : leaves[i] \in Advances
    BY <1>3, ElementOfSeq DEF TypeOK
  <2>3. /\ Len(SubSeq(leaves, 1, m)) = IF 1 <= m THEN m - 1 + 1 ELSE 0
        /\ \A i \in 1 .. m - 1 + 1 : SubSeq(leaves, 1, m)[i] = leaves[1 + i - 1]
    BY <2>1, <2>2, SubSeqProperties
  <2> HIDE DEF m
  <2> QED
    BY <2>1, <2>3
<1>5. /\ Len(tree \o todo') = Len(tree) + Len(todo') /\ Len(tree) \in Nat
      /\ \A i \in 1 .. Len(tree) + Len(todo') :
            (tree \o todo')[i] = IF i <= Len(tree) THEN tree[i] ELSE todo'[i - Len(tree)]
  BY <1>2, ConcatProperties, LenProperties DEF TypeOK
<1>6. Len(tree) + Len(todo') = m
  BY <1>1, <1>4, <1>5
<1>7. ASSUME NEW n \in 1 .. Len(todo')
      PROVE  todo'[n] = leaves[Len(tree) + n]
  <2> DEFINE i == Len(tree) + n
  <2>1. Len(tree) \in Nat /\ Len(todo') \in Nat
    BY <1>2, <1>5
  <2>2. i \in 1 .. Len(tree) + Len(todo') /\ ~(i <= Len(tree)) /\ i - Len(tree) = n
    BY <2>1
  <2>3. i \in 1 .. m
    BY <1>6, <2>2
  <2>4. (tree \o todo')[i] = todo'[n]
    BY <1>5, <2>2
  <2>5. (tree \o todo')[i] = leaves[i]
    BY <1>1, <1>4, <2>3
  <2> QED
    BY <2>4, <2>5
<1> HIDE DEF m
<1>8. /\ Len(tree) + Len(todo') <= Len(leaves)
      /\ \A n \in 1 .. Len(todo') : todo'[n] = leaves[Len(tree) + n]
  BY <1>3, <1>6, <1>7
<1> QED
  BY <1>1, <1>2, <1>8 DEF TreeInv

\* A leaf that is added is the next one of the pool.
LEMMA LeafIsNext ==
    ASSUME IInv, AddLeaf
    PROVE  TreeInv'
<1> TypeOK /\ TreeInv
  BY DEF IInv
<1>1. /\ todo # <<>> /\ Len(tree) + Len(todo) <= Len(leaves)
      /\ \A n \in 1 .. Len(tree) : tree[n] = leaves[n]
      /\ \A n \in 1 .. Len(todo) : todo[n] = leaves[Len(tree) + n]
      /\ Len(tree) \in Nat /\ Len(todo) \in Nat /\ Len(leaves) \in Nat
  BY LenProperties DEF AddLeaf, TreeInv, TypeOK
<1>2. leaves' = leaves
  BY DEF AddLeaf, chainVars
<1>3. /\ Head(todo) = todo[1] /\ Len(todo) >= 1 /\ Head(todo) \in Advances
      /\ Tail(todo) \in Seq(Advances) /\ Len(Tail(todo)) = Len(todo) - 1
      /\ \A n \in 1 .. Len(todo) - 1 : Tail(todo)[n] = todo[n + 1]
  BY <1>1, HeadTailProperties, EmptySeq DEF TypeOK
<1>4. /\ Len(tree') = Len(tree) + 1
      /\ \A n \in 1 .. Len(tree) : tree'[n] = tree[n]
      /\ tree'[Len(tree) + 1] = Head(todo)
  BY <1>1, <1>3, AppendProperties DEF TypeOK, AddLeaf
<1>5. \A n \in 1 .. Len(tree') : tree'[n] = leaves[n]
  BY <1>1, <1>3, <1>4
<1>6. pc' = "add" => todo' # <<>>
  <2>1. pc' = "add" => Len(todo) # 1
    BY DEF AddLeaf
  <2>2. todo' = Tail(todo)
    BY DEF AddLeaf
  <2>3. Len(todo) # 1 => Len(todo') # 0
    BY <1>1, <1>3, <2>2
  <2>4. Len(<<>>) = 0
    BY EmptySeq
  <2> QED
    BY <2>1, <2>3, <2>4
<1>7. /\ Len(tree') + Len(todo') <= Len(leaves)
      /\ \A n \in 1 .. Len(todo') : todo'[n] = leaves[Len(tree') + n]
  <2>1. todo' = Tail(todo) /\ Len(todo') = Len(todo) - 1
    BY <1>3 DEF AddLeaf
  <2>2. \A n \in 1 .. Len(todo) - 1 : todo'[n] = leaves[Len(tree) + (n + 1)]
    BY <1>1, <1>3, <2>1
  <2> QED
    BY <1>1, <1>3, <1>4, <2>1, <2>2
<1> QED
  BY <1>1, <1>2, <1>3, <1>4, <1>5, <1>6, <1>7 DEF TreeInv

\* When a save is created, the worker has seen the root of the last one, and
\* something to add to the history.
LEMMA SaveIsDue ==
    ASSUME IInv, MaybeSaveRecentRoot, pc' = "create"
    PROVE  /\ saves # <<>> => Latest.state = "Confirmed" /\ Latest.previous < record
           /\ \E a \in Submitted : Fresh(a)
<1> TypeOK /\ SaveInv /\ RecordInv /\ LeafInv
  BY DEF IInv
<1>1. /\ saves # <<>> => Latest.state = "Confirmed" /\ roots[Latest.previous] # roots[record]
      /\ Collected # {} \/ AnyFinalized
  BY DEF MaybeSaveRecentRoot
<1>2. saves # <<>> => Len(saves) \in DOMAIN saves /\ Latest \in SaveIntents
  <2>1. saves # <<>> => Len(saves) \in 1 .. Len(saves)
    BY EmptySeq, LenProperties DEF TypeOK
  <2> QED
    BY <2>1, ElementOfSeq, LenProperties DEF TypeOK, Latest
<1>3. saves # <<>> => Latest.slot # 0 /\ Latest.slot \in Nat
  BY <1>1, <1>2 DEF SaveInv, Latest, SaveIntents
<1>4. saves # <<>> => Latest.previous < record
  <2>1. record \in Nat
    BY LenProperties DEF TypeOK
  <2> QED
    BY <1>1, <1>2, <2>1 DEF RecordInv, SaveIntents
<1>5. CASE Collected # {}
  <2>1. PICK a \in Advances : adv[a] = "Unknown"
    BY <1>5 DEF Collected
  <2>2. ~Leaf(a)
    BY <2>1 DEF LeafInv
  <2> QED
    BY <1>1, <1>4, <2>1, <2>2 DEF Submitted, Fresh, Leaf
<1>6. CASE AnyFinalized
  <2>1. PICK a \in payments : slotOf[a] > (IF saves = <<>> THEN 0 ELSE Latest.slot) + 1
    BY <1>6 DEF AnyFinalized
  <2>2. a \in Advances /\ Leaf(a) /\ slotOf[a] \in Nat
    BY LenProperties DEF TypeOK, LeafInv
  <2>3. a \in Submitted
    BY <2>2 DEF LeafInv, Submitted
  <2>4. \A n \in DOMAIN leaves : n \in Nat /\ n > 0
    <3>1. leaves \in Seq(Advances)
      BY DEF TypeOK
    <3>2. DOMAIN leaves = 1 .. Len(leaves) /\ Len(leaves) \in Nat
      BY <3>1, LenProperties
    <3> QED
      BY <3>2
  <2>5. roots[Len(roots)] \in Nat
    <3>1. Len(roots) \in 1 .. Len(roots)
      BY EmptySeq, LenProperties DEF TypeOK
    <3>2. roots[Len(roots)] \in 0 .. Len(leaves)
      BY <3>1, ElementOfSeq DEF TypeOK
    <3> QED
      BY <3>2
  <2>6. Fresh(a)
    <3> SUFFICES ASSUME NEW n \in DOMAIN leaves, leaves[n] = a PROVE n > roots[Len(roots)]
      BY DEF Fresh
    <3>1. CASE saves = <<>>
      BY <2>4, <3>1 DEF LeafInv
    <3>2. CASE saves # <<>>
      <4>1. slotOf[a] > Latest.slot + 1
        BY <2>1, <3>2
      <4>2. ~(slotOf[a] <= Latest.slot)
        BY <1>3, <2>2, <3>2, <4>1
      <4>3. ~(n <= roots[Len(roots)])
        BY <1>3, <3>2, <4>2 DEF LeafInv
      <4> QED
        BY <2>4, <2>5, <4>3
    <3> QED
      BY <3>1, <3>2
  <2> QED
    BY <1>1, <1>4, <2>3, <2>6
<1> QED
  BY <1>1, <1>5, <1>6

\* The worker decides to save a root.
LEMMA SaveDecided ==
    ASSUME IInv, MaybeSaveRecentRoot
    PROVE  IInv'
<1> TypeOK /\ SaveInv /\ RecordInv /\ WaitInv /\ LeafInv /\ NewInv /\ Increasing
      /\ TreeInv /\ RootsAreKnown
  BY DEF IInv
<1>1. pc = "save" /\ pc' \in {"gates", "create", "idle"}
      /\ UNCHANGED <<leaves, roots, slot, slotOf, adv, named, awake, payments, saves, record,
                     tree, timedOut, todo>>
  BY DEF MaybeSaveRecentRoot, chainVars, advanceVars
<1>2. TypeOK'
  BY WorkerType DEF Worker, MaybeSaveRecentRoot
<1>3. CASE pc' # "create"
  <2>1. record <= record'
    BY <1>1, LenProperties DEF TypeOK
  <2> QED
    BY <1>1, <1>2, <1>3, <2>1, Calm DEF chainVars
<1>4. CASE pc' = "create"
  <2>1. /\ saves # <<>> => Latest.state = "Confirmed" /\ Latest.previous < record
        /\ \E a \in Submitted : Fresh(a)
    BY <1>4, SaveIsDue
  <2>2. Latest' = Latest
    BY <1>1 DEF Latest
  <2>3. SaveInv'
    BY <1>1, <2>1, <2>2 DEF SaveInv
  <2>4. RecordInv'
    BY <1>1, <2>1, <2>2 DEF RecordInv
  <2>5. WaitInv' /\ LeafInv'
    BY <1>1, <2>2 DEF WaitInv, Schedulable, LeafInv, Leaf
  <2>6. NewInv'
    BY <1>1, <2>1, <2>2 DEF NewInv, Fresh, Submitted
  <2>7. Increasing' /\ TreeInv' /\ RootsAreKnown'
    BY <1>1, <1>4 DEF Increasing, TreeInv, RootsAreKnown
  <2> QED
    BY <1>2, <2>3, <2>4, <2>5, <2>6, <2>7 DEF IInv
<1> QED
  BY <1>3, <1>4

\* A new save waits for every advance that was submitted.
LEMMA SaveCreated ==
    ASSUME IInv, CreateSave
    PROVE  IInv'
<1> TypeOK /\ SaveInv /\ RecordInv /\ WaitInv /\ LeafInv /\ NewInv /\ Increasing
      /\ TreeInv /\ RootsAreKnown
  BY DEF IInv
<1> DEFINE new == [previous |-> record, earlier |-> Submitted, slot |-> 0, state |-> "Unknown"]
<1>1. /\ pc = "create" /\ pc' = "gates" /\ saves' = Append(saves, new)
      /\ UNCHANGED <<leaves, roots, slot, slotOf, adv, named, awake, payments, record, tree, todo>>
      /\ \A a \in Advances : adv[a] = "signing" => Len(saves) < named[a] + RootsPerRPC
  BY DEF CreateSave, chainVars, advanceVars
<1>2. Len(saves) \in Nat /\ DOMAIN saves = 1 .. Len(saves) /\ record \in Nat /\ record >= 1
  BY LenProperties DEF TypeOK
<1>3. new \in SaveIntents
  BY <1>2 DEF SaveIntents, Submitted
<1> HIDE DEF new
<1>4. /\ Len(saves') = Len(saves) + 1 /\ DOMAIN saves' = 1 .. Len(saves) + 1
      /\ \A n \in 1 .. Len(saves) : saves'[n] = saves[n]
      /\ saves'[Len(saves) + 1] = new
      /\ saves' # <<>>
  <2>1. /\ saves' \in Seq(SaveIntents) /\ saves' # <<>>
        /\ Len(saves') = Len(saves) + 1
        /\ \A n \in 1 .. Len(saves) : saves'[n] = saves[n]
        /\ saves'[Len(saves) + 1] = new
    <3>1. saves \in Seq(SaveIntents) /\ saves' = Append(saves, new)
      BY <1>1 DEF TypeOK
    <3> QED
      BY <1>3, <3>1, AppendProperties
  <2> QED
    BY <2>1, LenProperties
<1>5. Latest' = new
  BY <1>4 DEF Latest
<1>6. /\ new.previous = record /\ new.earlier = Submitted /\ new.slot = 0
      /\ new.state = "Unknown"
  BY DEF new
<1>7. TypeOK'
  BY <1>1, WorkerType DEF Worker
<1>8. saves # <<>> => /\ Len(saves) \in 1 .. Len(saves) /\ Latest \in SaveIntents
                      /\ Latest.state = "Confirmed" /\ Latest.previous < record
                      /\ Len(saves) <= Latest.previous /\ Latest.previous \in Nat
                      /\ Latest.slot # 0
  <2>1. saves # <<>> => Len(saves) \in 1 .. Len(saves)
    BY <1>2, EmptySeq DEF TypeOK
  <2>2. saves # <<>> => Latest \in SaveIntents
    BY <2>1, ElementOfSeq DEF TypeOK, Latest
  <2>3. saves # <<>> => Latest.state = "Confirmed" /\ Latest.slot # 0
    BY <1>1, <1>2, <2>1 DEF SaveInv, Latest
  <2> QED
    BY <1>1, <2>1, <2>2, <2>3 DEF RecordInv, SaveIntents
<1>9. SaveInv'
  <2>1. Len(roots) = Len(saves) + 1
    BY <1>8 DEF SaveInv
  <2>2. \A n \in 1 .. Len(saves) : saves[n].state = "Confirmed" /\ saves[n].slot # 0
    BY <1>2, <1>8 DEF SaveInv, Latest
  <2>3. \A n \in DOMAIN saves' :
            /\ n < Len(saves') => saves'[n].state = "Confirmed"
            /\ saves'[n].state = "Unknown" => saves'[n].slot = 0
            /\ saves'[n].state = "Confirmed" => saves'[n].slot # 0
    BY <1>2, <1>4, <1>6, <2>2
  <2> QED
    BY <1>1, <1>4, <1>5, <1>6, <2>1, <2>3 DEF SaveInv
<1>10. RecordInv'
  <2>1. record >= Len(saves) + 1
    <3>1. CASE saves = <<>>
      BY <1>2, <3>1, EmptySeq
    <3>2. CASE saves # <<>>
      BY <1>2, <1>8, <3>2
    <3> QED
      BY <3>1, <3>2
  <2> QED
    BY <1>1, <1>2, <1>4, <1>5, <1>6, <2>1 DEF RecordInv
<1>11. WaitInv'
  <2>1. \A a \in Advances : adv[a] = "signing" => Len(saves) + 1 <= named[a] + RootsPerRPC
    <3>1. \A a \in Advances : named[a] \in Nat
      BY LenProperties DEF TypeOK
    <3> QED
      BY <1>1, <1>2, <3>1, TreasuryBounds
  <2>2. \A a \in Schedulable, k \in 1 .. Len(saves) + 1 :
            k > named[a] + RootsPerRPC => a \in saves'[k].earlier
    <3>1. \A a \in Schedulable : a \in Submitted
      BY DEF Schedulable, Submitted
    <3> QED
      BY <1>2, <1>4, <1>6, <3>1 DEF WaitInv
  <2>3. \A k \in 1 .. Len(saves) + 1 : \A a \in saves'[k].earlier :
            /\ adv[a] \notin {"none", "signing"}
            /\ saves'[k].state # "Unknown" => a \notin Schedulable
    BY <1>2, <1>4, <1>6 DEF WaitInv, Submitted
  <2>4. adv' = adv /\ named' = named /\ Schedulable' = Schedulable
    BY <1>1 DEF Schedulable
  <2> QED
    BY <1>4, <2>1, <2>2, <2>3, <2>4 DEF WaitInv
<1>12. LeafInv'
  BY <1>1, <1>4, <1>5, <1>6 DEF LeafInv, Leaf
<1>13. NewInv'
  <2>1. \E a \in Submitted : Fresh(a)
    BY <1>1 DEF NewInv
  <2> QED
    BY <1>1, <1>5, <1>6, <2>1 DEF NewInv, Fresh
<1>14. Increasing' /\ TreeInv' /\ RootsAreKnown'
  BY <1>1 DEF Increasing, TreeInv, RootsAreKnown
<1> QED
  BY <1>7, <1>9, <1>10, <1>11, <1>12, <1>13, <1>14 DEF IInv

(***************************************************************************)
(* The invariant.                                                          *)
(***************************************************************************)

LEMMA WorkerStep ==
    ASSUME IInv, Worker \/ Abort \/ TimeOut
    PROVE  IInv'
<1>1. TypeOK /\ (pc = "add" => todo # <<>>) /\ record \in Nat
  <2>1. TypeOK /\ TreeInv
    BY DEF IInv
  <2>2. record \in Nat
    BY <2>1, LenProperties DEF TypeOK
  <2> QED
    BY <2>1, <2>2 DEF TreeInv
<1>2. TypeOK'
  BY <1>1, WorkerType
<1>3. CASE UpdateAccountState
  <2>1. record <= record'
    BY <1>1, <1>3, LenProperties DEF UpdateAccountState, TypeOK
  <2> QED
    BY <1>2, <1>3, <2>1, Calm DEF UpdateAccountState, advanceVars
<1>4. CASE SyncMerkleTree /\ pc' # "add"
  <2>1. pc' # "create"
    BY <1>4 DEF SyncMerkleTree
  <2>2. TreeInv'
    BY <1>4 DEF SyncMerkleTree, IInv, TreeInv, chainVars
  <2> QED
    BY <1>2, <1>4, <2>1, <2>2, TreeAlone DEF SyncMerkleTree, advanceVars
<1>5. CASE SyncMerkleTree /\ pc' = "add"
  BY <1>2, <1>5, LeavesAreNext, TreeAlone DEF SyncMerkleTree, advanceVars
<1>6. CASE AddLeaf
  BY <1>2, <1>6, LeafIsNext, TreeAlone DEF AddLeaf, advanceVars
<1>7. CASE MaybeSaveRecentRoot
  BY <1>7, SaveDecided
<1>8. CASE CreateSave
  BY <1>8, SaveCreated
<1>9. CASE OpenFloodGates
  BY <1>1, <1>2, <1>9, Calm DEF OpenFloodGates
<1>10. CASE Abort
  BY <1>1, <1>2, <1>10, Calm DEF Abort, advanceVars
<1>11. CASE TimeOut
  BY <1>1, <1>2, <1>11, Calm DEF TimeOut, advanceVars, workerVars
<1> QED
  BY <1>3, <1>4, <1>5, <1>6, <1>7, <1>8, <1>9, <1>10, <1>11 DEF Worker

LEMMA InvStep == IInv /\ [Next]_vars => IInv'
<1> SUFFICES ASSUME IInv, [Next]_vars PROVE IInv'
  OBVIOUS
<1>1. ASSUME NEW a \in Advances,
             Sign(a) \/ Submit(a) \/ Schedule(a) \/ Execute(a) \/ SavePayment(a) \/ Confirm(a)
      PROVE  IInv'
  <2>1. TypeOK'
    BY <1>1, AdvanceType DEF IInv
  <2> QED
    BY <1>1, <2>1, AdvanceKeepsWait, AdvanceKeepsLeaves DEF IInv
<1>2. ASSUME NEW k \in DOMAIN saves, ScheduleSave(k) \/ ExecuteSave(k) \/ ConfirmSave(k)
      PROVE  IInv'
  BY <1>2, SaveMarked, SaveExecuted
<1>3. CASE Worker \/ Abort \/ TimeOut
  BY <1>3, WorkerStep
<1>4. CASE UNCHANGED vars
  <2>1. TypeOK' /\ record \in Nat
    BY <1>4, LenProperties DEF IInv, TypeOK, vars, chainVars, advanceVars, workerVars
  <2> QED
    BY <1>4, <2>1, Calm DEF vars, advanceVars, workerVars
<1> QED
  BY <1>1, <1>2, <1>3, <1>4 DEF Next, Sequencer

LEMMA Invariance == Spec => []IInv
BY InvInit, InvStep, PTL DEF Spec

(***************************************************************************)
(* The theorems.                                                           *)
(***************************************************************************)

\* The variables have their types (Treasury).
THEOREM TypeCorrect == Spec => []TypeOK
<1>1. IInv => TypeOK
  BY DEF IInv
<1> QED
  BY <1>1, Invariance, PTL

\* The tree in the database is that of the pool, some leaves behind
\* (syncMerkleTree).
THEOREM TreeFollows == Spec => []TreeIsThatOfPool
<1>1. IInv => TreeIsThatOfPool
  <2> SUFFICES ASSUME IInv PROVE TreeIsThatOfPool
    OBVIOUS
  <2>1. tree \in Seq(Advances) /\ leaves \in Seq(Advances) /\ TreeInv
    BY DEF IInv, TypeOK
  <2> DEFINE n == Len(tree)
  <2>2. n \in Nat /\ Len(leaves) \in Nat /\ n <= Len(leaves)
    BY <2>1, LenProperties DEF TreeInv
  <2>3. \A i \in 1 .. n : leaves[i] \in Advances
    BY <2>1, <2>2, ElementOfSeq
  <2>4. \A i \in 1 .. n : tree[i] = leaves[i]
    BY <2>1 DEF TreeInv
  <2> HIDE DEF n
  <2>5. /\ SubSeq(leaves, 1, n) \in Seq(Advances)
        /\ Len(SubSeq(leaves, 1, n)) = IF 1 <= n THEN n - 1 + 1 ELSE 0
        /\ \A i \in 1 .. n - 1 + 1 : SubSeq(leaves, 1, n)[i] = leaves[1 + i - 1]
    BY <2>2, <2>3, SubSeqProperties
  <2>6. /\ Len(SubSeq(leaves, 1, n)) = n
        /\ \A i \in 1 .. n : SubSeq(leaves, 1, n)[i] = leaves[i]
    BY <2>2, <2>5
  <2> USE DEF n
  <2>7. tree = SubSeq(leaves, 1, n)
    BY <2>1, <2>4, <2>5, <2>6, SeqEqual
  <2> QED
    BY <2>2, <2>7 DEF TreeIsThatOfPool
<1> QED
  BY <1>1, Invariance, PTL

\* No advance comes too late for the root it names
\* (SaveRecentRootFulfillmentHandler).
THEOREM RootsInTime == Spec => []RootsAreKnown
<1>1. IInv => RootsAreKnown
  BY DEF IInv
<1> QED
  BY <1>1, Invariance, PTL

\* No root is saved twice (maybeSaveRecentRoot).
THEOREM RootsGrow == Spec => []RootsDiffer
<1>1. IInv => RootsDiffer
  <2> SUFFICES ASSUME IInv, NEW m \in DOMAIN roots, NEW n \in DOMAIN roots,
                      roots[m] = roots[n]
               PROVE  m = n
    BY DEF RootsDiffer
  <2>1. m \in Nat /\ n \in Nat /\ roots[m] \in 0 .. Len(leaves)
    BY ElementOfSeq, LenProperties DEF IInv, TypeOK
  <2>2. ~(m < n) /\ ~(n < m)
    BY <2>1 DEF IInv, Increasing
  <2> QED
    BY <2>1, <2>2
<1> QED
  BY <1>1, Invariance, PTL

=============================================================================
