---------------------------- MODULE CommitmentProofs ----------------------------
(***************************************************************************)
(* What is proved of Commitment, for any payments, amounts and funds, any  *)
(* batch sizes and any number of failed transactions and restarts:         *)
(*   - TypeCorrect: every variable keeps its type;                         *)
(*   - MovesForward: the record of a commitment only moves forward;        *)
(*   - RepaidReal: what is called repaid is back in the treasury;          *)
(*   - TransferArrives: no vault closes under a transfer on its way to it; *)
(*   - DivertedInTime: nothing is diverted to a vault that closes;         *)
(*   - DeficitCovers: the deficit counts every advance that is out;        *)
(*   - NeverOverdrawn: what is out never exceeds the funds.                *)
(*                                                                         *)
(* MovesForward.  Every writer but one goes through the guard of the       *)
(* store, or checks the state it leaves.  The one that matters is Reserve: *)
(* it writes the state of a commitment it looked at before it took the     *)
(* lock, so RecordInv says what may not happen to that commitment          *)
(* meanwhile.                                                              *)
(*                                                                         *)
(* The others.  The worker decides on a copy of a record, and on the       *)
(* records and fulfillments of other commitments as they are at that       *)
(* moment; the save comes later.  FlowInv says that whatever was decided   *)
(* stays right: CloseReady, GCReady and Returned are stable (Stays),       *)
(* because a repayment is only diverted to a leaf that is not old yet      *)
(* (TreeInv), and a vault only closes when its leaf is old (VaultInv).     *)
(*                                                                         *)
(* NeverOverdrawn adds sums up: whatever counts now counted before or      *)
(* holds the lock (FundsInv).  Induction over sets is replaced by a        *)
(* smallest set that is wrong (SmallestSet).                               *)
(***************************************************************************)
EXTENDS Commitment, FiniteSetTheorems, TLAPS

\* A commitment that waits for its reservation is untouched.
ReserveInv == \A c \in reserving : com[c].state = StateUnknown

\* Nobody holds a copy of an untouched commitment that is further than it.
CopyInv ==
    \A c \in Commitments :
        com[c].state = StateUnknown =>
            /\ draft[c].state = StateUnknown
            /\ work[c].step \in {"save", "saveRepaid"} =>
                   work[c].save.state = StateUnknown

RecordInv == TypeOK /\ ReserveInv /\ CopyInv

\* The states of a commitment, as numbers.
USE DEF StateUnknown, StatePayingDestination, StateReadyToOpen, StateOpening,
        StateOpen, StateClosing, StateClosed, StateReadyToRemoveFromMerkleTree

(***************************************************************************)
(* Types.                                                                  *)
(***************************************************************************)

\* The mark functions of the worker lead to states.
LEMMA MarkType ==
    /\ DOMAIN MarkTo = {"markOpening", "markClosing", "markGC"}
    /\ \A s \in DOMAIN MarkTo : MarkTo[s] \in 3 .. 7
    /\ \A s \in DOMAIN MarkTo : MarkFrom[s] \subseteq 2 .. 6
    /\ \A s \in DOMAIN MarkTo : \A x \in MarkFrom[s] : x <= MarkTo[s]
BY DEF MarkTo, MarkFrom

\* A record stays one when one of its fields is replaced.
LEMMA RecordType ==
    ASSUME NEW r \in Records
    PROVE  /\ \A s \in States : [r EXCEPT !.state = s] \in Records
           /\ [r EXCEPT !.repaid = TRUE] \in Records
           /\ \A d \in Commitments \cup {NoVault} : [r EXCEPT !.div = d] \in Records
BY DEF Records

\* The records the model starts from are records.
LEMMA BlankType == Blank \in Records /\ Repayable \in Records /\ Idle \in Works
<1>1. Blank \in Records
  BY DEF Blank, Records, States
<1>2. Repayable \in Records
  <2>1. \A s \in States : [Blank EXCEPT !.state = s] \in Records
    BY <1>1, RecordType
  <2>2. StateReadyToOpen \in States
    BY DEF States
  <2> QED BY <2>1, <2>2 DEF Repayable
<1>3. Idle \in Works
  BY <1>1 DEF Idle, Works, Steps
<1> QED BY <1>1, <1>2, <1>3

\* Writing a record keeps the type of the store.
LEMMA StoreType ==
    ASSUME NEW c \in Commitments, com \in [Commitments -> Records]
    PROVE  /\ \A r \in Records : [com EXCEPT ![c] = r] \in [Commitments -> Records]
           /\ \A s \in States : SetState(c, s) => com' \in [Commitments -> Records]
<1>1. ASSUME NEW s \in States PROVE [com[c] EXCEPT !.state = s] \in Records
  <2>1. com[c] \in Records
    OBVIOUS
  <2> QED BY <2>1, RecordType
<1>2. ASSUME NEW r \in Records PROVE [com EXCEPT ![c] = r] \in [Commitments -> Records]
  OBVIOUS
<1> QED BY <1>1, <1>2 DEF SetState

\* Moving the worker on keeps the type of its progress.
LEMMA WorkType ==
    ASSUME NEW c \in Commitments, work \in [Commitments -> Works]
    PROVE  /\ \A s \in Steps : \A r \in Records :
                 At(c, s, r) => work' \in [Commitments -> Works]
           /\ \A s \in Steps : GoTo(c, s) => work' \in [Commitments -> Works]
           /\ Finish(c) => work' \in [Commitments -> Works]
<1>1. ASSUME NEW s \in Steps, NEW r \in Records
      PROVE  [step |-> s, record |-> work[c].record, save |-> r] \in Works
  BY DEF Works
<1>2. Blank \in Records /\ Idle \in Works
  BY BlankType
<1> QED BY <1>1, <1>2 DEF At, GoTo, Finish

\* The initial state of every variable has its type.
LEMMA InitType == Init => TypeOK
<1> SUFFICES ASSUME Init PROVE TypeOK
  OBVIOUS
<1> DEFINE paid == Range(Paid)
           roots == IF Paid = <<>> THEN 0 ELSE Len(Paid) - 1
<1>1. Paid \in Seq(Commitments)
  BY Vaults
<1>2. paid \subseteq Commitments
  BY <1>1 DEF Range
<1>3. roots \in 0 .. Len(Paid)
  BY <1>1
<1>4. \A c \in Commitments :
        Cardinality({i \in 1 .. roots : c \in Range(SubSeq(Paid, i + 1, Len(Paid)))}) \in Nat
  <2> TAKE c \in Commitments
  <2>1. IsFiniteSet(1 .. roots)
    BY <1>3, FS_Interval
  <2>2. IsFiniteSet({i \in 1 .. roots : c \in Range(SubSeq(Paid, i + 1, Len(Paid)))})
    BY <2>1, FS_Subset
  <2> QED BY <2>2, FS_CardinalityType
<1>5. saved \subseteq Commitments
  BY <1>2 DEF Init
<1>6. com \in [Commitments -> Records]
  BY BlankType DEF Init
<1>7. root \in [Commitments -> Nat]
  BY <1>4 DEF Init
<1>8. ful \in [Fuls -> FulStates]
  BY DEF Init, FulStates
<1>9. awake \subseteq Fuls
  BY <1>2 DEF Init, Fuls, Kinds
<1>10. outcome \in [Fuls -> {"none", "finalized", "failed"}]
  BY DEF Init
<1>11. ledger \in Seq(Commitments) /\ savedRoot \in 0 .. Len(ledger)
       /\ synced \in 0 .. savedRoot /\ aged \in 0 .. synced
  BY <1>1, <1>3 DEF Init
<1>12. rootRequested \in BOOLEAN /\ rootAfter \subseteq Commitments
       /\ overdue \subseteq Commitments /\ reserving \subseteq Commitments
       /\ decided \subseteq Fuls /\ succeeded \subseteq Fuls
  BY DEF Init
<1>13. target \in [Commitments -> Commitments \cup {NoVault}]
       /\ draft \in [Commitments -> Records]
       /\ work \in [Commitments -> Works]
  BY BlankType DEF Init
<1>14. fails \in 0 .. MaxFails /\ crashes \in 0 .. MaxCrashes
  BY Bounds DEF Init
<1> QED BY <1>5, <1>6, <1>7, <1>8, <1>9, <1>10, <1>11, <1>12, <1>13, <1>14 DEF TypeOK

\* Every step keeps the types.
LEMMA StepType == TypeOK /\ [Next]_vars => TypeOK'
<1> SUFFICES ASSUME TypeOK, [Next]_vars PROVE TypeOK'
  OBVIOUS
<1> USE DEF TypeOK
<1>1. ASSUME NEW c \in Commitments, SubmitPayment(c) PROVE TypeOK'
  <2>1. ful' \in [Fuls -> FulStates]
    BY <1>1 DEF SubmitPayment, Fuls, Kinds, FulStates
  <2>2. root' \in [Commitments -> Nat]
    BY <1>1 DEF SubmitPayment
  <2>3. awake' \subseteq Fuls
    BY <1>1 DEF SubmitPayment, Fuls, Kinds
  <2> QED
    BY <1>1, <2>1, <2>2, <2>3 DEF SubmitPayment, chainVars, treeVars, rpcVars, seqVars, faultVars
<1>2. ASSUME NEW c \in Commitments, CheckFunds(c) PROVE TypeOK'
  BY <1>2 DEF CheckFunds, chainVars, treeVars, rpcVars, seqVars, faultVars
<1>3. ASSUME NEW c \in Commitments, Reserve(c) PROVE TypeOK'
  <2>1. com' \in [Commitments -> Records]
    BY <1>3, StoreType DEF Reserve, States
  <2> QED
    BY <1>3, <2>1 DEF Reserve, chainVars, treeVars, rpcVars, seqVars, faultVars
<1>4. ASSUME NEW c \in Commitments, RevokeTemporary(c) PROVE TypeOK'
  <2>1. ful' \in [Fuls -> FulStates]
    BY <1>4 DEF RevokeTemporary, FulStates
  <2> QED
    BY <1>4, <2>1 DEF RevokeTemporary, chainVars, treeVars, rpcVars, seqVars, faultVars
<1>5. ASSUME NEW c \in Commitments, NEW k \in Kinds, Decide(k, c) PROVE TypeOK'
  BY <1>5 DEF Decide, Fuls, chainVars, treeVars, rpcVars, seqVars, faultVars
<1>6. ASSUME NEW f \in Fuls, MarkPending(f) PROVE TypeOK'
  <2>1. ful' \in [Fuls -> FulStates]
    BY <1>6 DEF MarkPending, FulStates
  <2> QED
    BY <1>6, <2>1 DEF MarkPending, chainVars, treeVars, rpcVars, seqVars, faultVars
<1>7. ASSUME NEW c \in Commitments, NEW k \in Kinds, OnSuccess(k, c) PROVE TypeOK'
  <2>1. com' \in [Commitments -> Records]
    <3>1. \/ com' = com
          \/ SetState(c, StateReadyToOpen)
          \/ SetState(c, StateOpen)
          \/ SetState(c, StateClosed)
      BY <1>7 DEF OnSuccess, MarkCommitment
    <3>2. com \in [Commitments -> Records]
      OBVIOUS
    <3> QED BY <3>1, <3>2, StoreType DEF States
  <2>2. awake' \subseteq Fuls
    BY <1>7 DEF OnSuccess, Wake, Fuls, Kinds
  <2> QED
    BY <1>7, <2>1, <2>2 DEF OnSuccess, Fuls, chainVars, treeVars, rpcVars, seqVars, faultVars
<1>8. ASSUME NEW f \in Fuls, MarkConfirmed(f) PROVE TypeOK'
  <2>1. ful' \in [Fuls -> FulStates]
    BY <1>8 DEF MarkConfirmed, FulStates
  <2> QED
    BY <1>8, <2>1 DEF MarkConfirmed, chainVars, treeVars, rpcVars, seqVars, faultVars
<1>9. ASSUME NEW f \in Fuls, MarkFailed(f) PROVE TypeOK'
  <2>1. ful' \in [Fuls -> FulStates]
    BY <1>9 DEF MarkFailed, FulStates
  <2> QED
    BY <1>9, <2>1 DEF MarkFailed, chainVars, treeVars, rpcVars, seqVars, faultVars
<1>10. ASSUME NEW c \in Commitments, NEW k \in Kinds, Land(k, c) PROVE TypeOK'
  <2>1. outcome' \in [Fuls -> {"none", "finalized", "failed"}]
    BY <1>10 DEF Land
  <2>2. ledger' \in Seq(Commitments) /\ Len(ledger') \in Nat /\ Len(ledger') >= Len(ledger)
    <3>1. ledger \in Seq(Commitments)
      OBVIOUS
    <3>2. Append(ledger, c) \in Seq(Commitments) /\ Len(Append(ledger, c)) = Len(ledger) + 1
      BY <3>1
    <3>3. ledger' = ledger \/ ledger' = Append(ledger, c)
      BY <1>10 DEF Land
    <3>4. Len(ledger) \in Nat
      BY <3>1
    <3>5. CASE ledger' = ledger
      BY <3>1, <3>4, <3>5
    <3>6. CASE ledger' = Append(ledger, c)
      BY <3>2, <3>4, <3>6
    <3> QED BY <3>3, <3>5, <3>6
  <2>3. savedRoot' \in 0 .. Len(ledger')
    <3>1. savedRoot' = savedRoot /\ savedRoot \in 0 .. Len(ledger)
      BY <1>10 DEF Land, treeVars
    <3> QED BY <2>2, <3>1
  <2> QED
    BY <1>10, <2>1, <2>2, <2>3 DEF Land, chainVars, treeVars, rpcVars, seqVars, faultVars
<1>11. ASSUME NEW c \in Commitments, NEW k \in Kinds, FailOnChain(k, c) PROVE TypeOK'
  <2>1. outcome' \in [Fuls -> {"none", "finalized", "failed"}]
    BY <1>11 DEF FailOnChain
  <2>2. fails' \in 0 .. MaxFails
    <3>1. fails < MaxFails /\ fails' = fails + 1
      BY <1>11 DEF FailOnChain
    <3>2. fails \in 0 .. MaxFails /\ MaxFails \in Nat
      BY Bounds
    <3> QED BY <3>1, <3>2
  <2> QED
    BY <1>11, <2>1, <2>2 DEF FailOnChain, chainVars, treeVars, rpcVars, seqVars, faultVars
<1>12. ASSUME RequestRecentRoot PROVE TypeOK'
  BY <1>12 DEF RequestRecentRoot, chainVars, treeVars, rpcVars, seqVars, faultVars
<1>13. ASSUME SaveRecentRoot PROVE TypeOK'
  <2>1. savedRoot' \in 0 .. Len(ledger) /\ synced \in 0 .. savedRoot'
    <3>1. Len(ledger) \in Nat
      OBVIOUS
    <3>2. savedRoot' = Len(ledger)
      BY <1>13 DEF SaveRecentRoot
    <3> QED BY <3>1, <3>2
  <2> QED
    BY <1>13, <2>1 DEF SaveRecentRoot, chainVars, treeVars, rpcVars, seqVars, faultVars
<1>14. ASSUME SyncLeaf PROVE TypeOK'
  BY <1>14 DEF SyncLeaf, chainVars, treeVars, rpcVars, seqVars, faultVars
<1>15. ASSUME LeafAges PROVE TypeOK'
  BY <1>15 DEF LeafAges, chainVars, treeVars, rpcVars, seqVars, faultVars
<1>16. ASSUME NEW c \in Commitments, DeadlinePasses(c) PROVE TypeOK'
  BY <1>16 DEF DeadlinePasses, chainVars, treeVars, rpcVars, seqVars, faultVars
<1>17. ASSUME NEW c \in Commitments, StartUpgrade(c) PROVE TypeOK'
  <2>1. target' \in [Commitments -> Commitments \cup {NoVault}]
    <3>1. PICK i \in 1 .. synced : target' = [target EXCEPT ![c] = ledger[i]]
      BY <1>17 DEF StartUpgrade
    <3>2. ledger \in Seq(Commitments) /\ i \in 1 .. Len(ledger)
      OBVIOUS
    <3>3. ledger[i] \in Commitments
      BY <3>2
    <3> QED BY <3>1, <3>3
  <2> QED
    BY <1>17, <2>1 DEF StartUpgrade, chainVars, treeVars, rpcVars, seqVars, faultVars
<1>18. ASSUME NEW c \in Commitments, ReadForUpgrade(c) PROVE TypeOK'
  <2>1. draft' \in [Commitments -> Records]
    BY <1>18, RecordType DEF ReadForUpgrade
  <2> QED
    BY <1>18, <2>1 DEF ReadForUpgrade, chainVars, treeVars, rpcVars, seqVars, faultVars
<1>19. ASSUME NEW c \in Commitments, CommitUpgrade(c) PROVE TypeOK'
  <2>1. com' \in [Commitments -> Records]
    BY <1>19 DEF CommitUpgrade
  <2>2. ful' \in [Fuls -> FulStates]
    BY <1>19 DEF CommitUpgrade, FulStates
  <2>3. awake' \subseteq Fuls
    BY <1>19 DEF CommitUpgrade, Fuls, Kinds
  <2>4. target' \in [Commitments -> Commitments \cup {NoVault}] /\ draft' \in [Commitments -> Records]
    BY <1>19, BlankType DEF CommitUpgrade, EndUpgrade
  <2> QED
    BY <1>19, <2>1, <2>2, <2>3, <2>4 DEF CommitUpgrade, chainVars, treeVars, rpcVars, seqVars, faultVars
<1>20. ASSUME NEW c \in Commitments, AbortUpgrade(c) PROVE TypeOK'
  <2>1. target' \in [Commitments -> Commitments \cup {NoVault}] /\ draft' \in [Commitments -> Records]
    BY <1>20, BlankType DEF AbortUpgrade, EndUpgrade
  <2> QED
    BY <1>20, <2>1 DEF AbortUpgrade, chainVars, treeVars, rpcVars, seqVars, faultVars
<1>21. ASSUME NEW c \in Commitments, Poll(c) PROVE TypeOK'
  <2>1. work' \in [Commitments -> Works]
    BY <1>21, BlankType DEF Poll, Steps, Works
  <2> QED
    BY <1>21, <2>1 DEF Poll, WorkerUnchanged, chainVars, treeVars, rpcVars, seqVars, faultVars
<1>22. ASSUME NEW c \in Commitments, CheckRepaid(c) PROVE TypeOK'
  <2>1. work' \in [Commitments -> Works]
    BY <1>22, WorkType, RecordType DEF CheckRepaid, Steps
  <2> QED
    BY <1>22, <2>1 DEF CheckRepaid, WorkerUnchanged, chainVars, treeVars, rpcVars, seqVars, faultVars
<1>23. ASSUME NEW c \in Commitments, HandleReadyToOpen(c) PROVE TypeOK'
  <2>1. work' \in [Commitments -> Works]
    BY <1>23, WorkType DEF HandleReadyToOpen, Inject, MaybeGC, Steps
  <2>2. ful' \in [Fuls -> FulStates]
    BY <1>23 DEF HandleReadyToOpen, Inject, MaybeGC, FulStates
  <2>3. awake' \subseteq Fuls
    <3>1. awake' = awake \/ awake' = awake \cup {<<"open", c>>}
      BY <1>23 DEF HandleReadyToOpen, Inject, MaybeGC
    <3> QED BY <3>1 DEF Fuls, Kinds
  <2> QED
    BY <1>23, <2>1, <2>2, <2>3 DEF HandleReadyToOpen, WorkerUnchanged, chainVars, treeVars, rpcVars, seqVars, faultVars
<1>24. ASSUME NEW c \in Commitments, HandleOpen(c) PROVE TypeOK'
  <2>1. work' \in [Commitments -> Works]
    BY <1>24, WorkType DEF HandleOpen, Steps
  <2> QED
    BY <1>24, <2>1 DEF HandleOpen, WorkerUnchanged, chainVars, treeVars, rpcVars, seqVars, faultVars
<1>25. ASSUME NEW c \in Commitments, HandleClosed(c) PROVE TypeOK'
  <2>1. work' \in [Commitments -> Works]
    BY <1>25, WorkType DEF HandleClosed, MaybeGC, Steps
  <2>2. ful' = ful /\ awake' = awake
    BY <1>25 DEF HandleClosed, MaybeGC
  <2> QED
    BY <1>25, <2>1, <2>2 DEF HandleClosed, WorkerUnchanged, chainVars, treeVars, rpcVars, seqVars, faultVars
<1>26. ASSUME NEW c \in Commitments, Mark(c) PROVE TypeOK'
  <2>1. work' \in [Commitments -> Works]
    <3> DEFINE step == work[c].step
    <3>1. step \in DOMAIN MarkTo
      BY <1>26 DEF Mark
    <3>2. MarkTo[step] \in States
      BY <3>1, MarkType DEF States
    <3>3. com[c] \in Records
      OBVIOUS
    <3>4. [com[c] EXCEPT !.state = MarkTo[step]] \in Records
      BY <3>2, <3>3, RecordType
    <3>5. \/ At(c, "save", [com[c] EXCEPT !.state = MarkTo[step]])
          \/ Finish(c)
      BY <1>26 DEF Mark
    <3> QED BY <3>4, <3>5, WorkType DEF Steps
  <2>2. awake' \subseteq Fuls
    BY <1>26 DEF Mark, Wake, Fuls, Kinds
  <2> QED
    BY <1>26, <2>1, <2>2 DEF Mark, WorkerUnchanged, chainVars, treeVars, rpcVars, seqVars, faultVars
<1>27. ASSUME NEW c \in Commitments, Save(c) PROVE TypeOK'
  <2>1. work' \in [Commitments -> Works]
    BY <1>27, WorkType DEF Save, Steps
  <2>2. com' \in [Commitments -> Records]
    BY <1>27 DEF Save, Works
  <2> QED
    BY <1>27, <2>1, <2>2 DEF Save, WorkerUnchanged, chainVars, treeVars, rpcVars, seqVars, faultVars
<1>28. ASSUME Crash PROVE TypeOK'
  <2>1. target' \in [Commitments -> Commitments \cup {NoVault}] /\ draft' \in [Commitments -> Records]
    BY <1>28, BlankType DEF Crash
  <2>2. work' \in [Commitments -> Works]
    BY <1>28, BlankType DEF Crash
  <2>3. crashes' \in 0 .. MaxCrashes
    BY <1>28, Bounds DEF Crash
  <2> QED
    BY <1>28, <2>1, <2>2, <2>3 DEF Crash, chainVars, treeVars, rpcVars, seqVars, faultVars
<1>29. CASE UNCHANGED vars
  BY <1>29 DEF vars, chainVars, treeVars, rpcVars, seqVars, faultVars
<1>30. ASSUME NEW c \in Commitments, Sequencer(c) PROVE TypeOK'
  BY <1>30, <1>2, <1>3, <1>4, <1>5, <1>6, <1>7, <1>8, <1>9 DEF Sequencer, Fuls
<1>31. ASSUME NEW c \in Commitments, Worker(c) PROVE TypeOK'
  BY <1>31, <1>21, <1>22, <1>23, <1>24, <1>25, <1>26, <1>27 DEF Worker
<1>32. ASSUME NEW c \in Commitments, Upgrade(c) PROVE TypeOK'
  BY <1>32, <1>17, <1>18, <1>19, <1>20 DEF Upgrade
<1>33. CASE Environment
  BY <1>33, <1>12, <1>13, <1>14, <1>15, <1>1, <1>16, <1>10, <1>11 DEF Environment
<1> QED
  BY <1>28, <1>29, <1>30, <1>31, <1>32, <1>33 DEF Next

\* Every variable keeps its type.
THEOREM TypeCorrect == Spec => []TypeOK
<1>1. Init => TypeOK
  BY InitType
<1>2. TypeOK /\ [Next]_vars => TypeOK'
  BY StepType
<1> QED BY <1>1, <1>2, PTL DEF Spec

(***************************************************************************)
(* The record of a commitment.                                             *)
(***************************************************************************)

\* What a step may do to the record of every commitment.
Forward ==
    \A c \in Commitments :
        /\ com[c].state <= com'[c].state
        /\ com[c].div # NoVault => com'[c].div = com[c].div
        /\ com[c].repaid => com'[c].repaid

\* Replacing a field of a record leaves the others.
LEMMA RecordField ==
    ASSUME NEW r \in Records
    PROVE  /\ r.state \in States /\ r.repaid \in BOOLEAN
           /\ \A s \in States :
                 /\ [r EXCEPT !.state = s].state = s
                 /\ [r EXCEPT !.state = s].repaid = r.repaid
                 /\ [r EXCEPT !.state = s].div = r.div
           /\ [r EXCEPT !.repaid = TRUE].state = r.state
           /\ \A d \in Commitments \cup {NoVault} : [r EXCEPT !.div = d].state = r.state
BY DEF Records

\* Replacing the record of c leaves the other records.
LEMMA StoreField ==
    ASSUME NEW c \in Commitments, com \in [Commitments -> Records],
           NEW r \in Records, com' = [com EXCEPT ![c] = r]
    PROVE  com'[c] = r /\ \A d \in Commitments \ {c} : com'[d] = com[d]
OBVIOUS

\* A state that moves on takes the record forward.
LEMMA SetStateForward ==
    ASSUME NEW c \in Commitments, com \in [Commitments -> Records],
           NEW s \in States, com[c].state <= s, SetState(c, s)
    PROVE  /\ Forward
           /\ com'[c].state = s
           /\ \A d \in Commitments \ {c} : com'[d] = com[d]
<1>1. com[c] \in Records /\ [com[c] EXCEPT !.state = s] \in Records
  BY RecordType
<1>2. com'[c] = [com[c] EXCEPT !.state = s] /\ \A d \in Commitments \ {c} : com'[d] = com[d]
  BY <1>1 DEF SetState
<1>3. com'[c].state = s /\ com'[c].repaid = com[c].repaid /\ com'[c].div = com[c].div
  BY <1>1, <1>2, RecordField
<1>4. \A d \in Commitments : com[d].state <= com[d].state
  BY RecordField DEF States
<1>5. \A d \in Commitments : com[d].state <= com'[d].state
  BY <1>2, <1>3, <1>4
<1>6. \A d \in Commitments : com'[d].repaid = com[d].repaid /\ com'[d].div = com[d].div
  BY <1>2, <1>3
<1> QED BY <1>2, <1>3, <1>5, <1>6, Zenon DEF Forward

\* A record the store accepts is not behind the one it replaces.
LEMMA AcceptedForward ==
    ASSUME NEW c \in Commitments, com \in [Commitments -> Records],
           NEW r \in Records, StoreAccepts(com[c], r), com' = [com EXCEPT ![c] = r]
    PROVE  /\ Forward
           /\ com'[c] = r
           /\ \A d \in Commitments \ {c} : com'[d] = com[d]
<1>1. com'[c] = r /\ \A d \in Commitments \ {c} : com'[d] = com[d]
  BY StoreField
<1>2. \A d \in Commitments : com[d].state \in States
  BY RecordField
<1> QED BY <1>1, <1>2 DEF Forward, StoreAccepts, States

\* The invariant holds at first.
LEMMA RecordInit == Init => RecordInv
<1> SUFFICES ASSUME Init PROVE RecordInv
  OBVIOUS
<1>1. TypeOK
  BY InitType
<1>2. ReserveInv
  BY DEF Init, ReserveInv
<1>3. CopyInv
  BY DEF Init, CopyInv, Blank, Idle
<1> QED BY <1>1, <1>2, <1>3 DEF RecordInv

\* The invariant is inductive, and a step from it takes every record forward.
LEMMA RecordStep == RecordInv /\ [Next]_vars => RecordInv' /\ Forward
<1> SUFFICES ASSUME RecordInv, [Next]_vars PROVE RecordInv' /\ Forward
  OBVIOUS
<1> USE DEF RecordInv
<1> DEFINE Goal == ReserveInv' /\ CopyInv' /\ Forward
<1>type. /\ com \in [Commitments -> Records] /\ work \in [Commitments -> Works]
        /\ draft \in [Commitments -> Records] /\ reserving \subseteq Commitments
        /\ target \in [Commitments -> Commitments \cup {NoVault}]
  BY DEF TypeOK
<1>state. \A c \in Commitments : com[c].state \in States
  BY <1>type, RecordField
<1>same. ASSUME com' = com PROVE Forward
  BY <1>same, <1>state DEF Forward, States
<1>idle. ASSUME com' = com, reserving' \subseteq reserving, draft' = draft, work' = work
        PROVE  Goal
  BY <1>idle, <1>same DEF ReserveInv, CopyInv
<1>work. ASSUME com' = com, reserving' = reserving, draft' = draft,
                NEW c \in Commitments,
                \/ Finish(c)
                \/ \E s \in Steps \ {"save", "saveRepaid"} : GoTo(c, s)
        PROVE  Goal
  <2>1. work'[c].step \notin {"save", "saveRepaid"}
    BY <1>work, <1>type DEF Finish, GoTo, At, Idle
  <2>2. \A d \in Commitments \ {c} : work'[d] = work[d]
    BY <1>work, <1>type DEF Finish, GoTo, At
  <2> QED BY <2>1, <2>2, <1>work, <1>same DEF ReserveInv, CopyInv
<1>1. ASSUME NEW c \in Commitments, SubmitPayment(c) PROVE Goal
  BY <1>1, <1>idle DEF SubmitPayment, rpcVars, seqVars
<1>2. ASSUME NEW c \in Commitments, RevokeTemporary(c) PROVE Goal
  BY <1>2, <1>idle DEF RevokeTemporary, rpcVars, seqVars
<1>3. ASSUME NEW c \in Commitments, NEW k \in Kinds, Decide(k, c) PROVE Goal
  BY <1>3, <1>idle DEF Decide, rpcVars, seqVars
<1>4. ASSUME NEW f \in Fuls, MarkPending(f) PROVE Goal
  BY <1>4, <1>idle DEF MarkPending, rpcVars, seqVars
<1>5. ASSUME NEW f \in Fuls, MarkConfirmed(f) PROVE Goal
  BY <1>5, <1>idle DEF MarkConfirmed, rpcVars, seqVars
<1>6. ASSUME NEW f \in Fuls, MarkFailed(f) PROVE Goal
  BY <1>6, <1>idle DEF MarkFailed, rpcVars, seqVars
<1>7. ASSUME NEW c \in Commitments, NEW k \in Kinds, Land(k, c) PROVE Goal
  BY <1>7, <1>idle DEF Land, rpcVars, seqVars
<1>8. ASSUME NEW c \in Commitments, NEW k \in Kinds, FailOnChain(k, c) PROVE Goal
  BY <1>8, <1>idle DEF FailOnChain, rpcVars, seqVars
<1>9. ASSUME RequestRecentRoot PROVE Goal
  BY <1>9, <1>idle DEF RequestRecentRoot, rpcVars, seqVars
<1>10. ASSUME SaveRecentRoot PROVE Goal
  BY <1>10, <1>idle DEF SaveRecentRoot, rpcVars, seqVars
<1>11. ASSUME SyncLeaf PROVE Goal
  BY <1>11, <1>idle DEF SyncLeaf, rpcVars, seqVars
<1>12. ASSUME LeafAges PROVE Goal
  BY <1>12, <1>idle DEF LeafAges, rpcVars, seqVars
<1>13. ASSUME NEW c \in Commitments, DeadlinePasses(c) PROVE Goal
  BY <1>13, <1>idle DEF DeadlinePasses, rpcVars, seqVars
<1>14. ASSUME NEW c \in Commitments, StartUpgrade(c) PROVE Goal
  BY <1>14, <1>idle DEF StartUpgrade, rpcVars, seqVars
<1>15. ASSUME NEW c \in Commitments, CheckFunds(c) PROVE Goal
  <2>1. reserving' = {c} /\ com[c].state = StateUnknown
    BY <1>15 DEF CheckFunds
  <2>2. com' = com /\ draft' = draft /\ work' = work
    BY <1>15 DEF CheckFunds, rpcVars
  <2> QED BY <2>1, <2>2, <1>same DEF ReserveInv, CopyInv
<1>16. ASSUME NEW c \in Commitments, Reserve(c) PROVE Goal
  <2>1. c \in reserving /\ SetState(c, StatePayingDestination)
    BY <1>16 DEF Reserve
  <2>2. reserving' = reserving \ {c} /\ draft' = draft /\ work' = work
    BY <1>16 DEF Reserve, rpcVars
  <2>3. com[c].state = StateUnknown
    BY <2>1 DEF ReserveInv
  <2>4. /\ Forward
        /\ com'[c].state = StatePayingDestination
        /\ \A d \in Commitments \ {c} : com'[d] = com[d]
    BY <2>1, <2>3, <1>type, SetStateForward DEF States
  <2>5. ReserveInv'
    BY <2>2, <2>4, <1>type DEF ReserveInv
  <2>6. CopyInv'
    BY <2>2, <2>4 DEF CopyInv
  <2> QED BY <2>4, <2>5, <2>6
<1>17. ASSUME NEW c \in Commitments, NEW k \in Kinds, OnSuccess(k, c) PROVE Goal
  <2>1. reserving' = reserving /\ draft' = draft /\ work' = work
    BY <1>17 DEF OnSuccess, rpcVars
  <2>2. CASE com' = com
    BY <2>1, <2>2, <1>idle
  <2>3. ASSUME NEW from \in States, NEW to \in States, 0 < from, from < to,
               MarkCommitment(c, from, to)
        PROVE  Goal
    <3>1. com[c].state \in {from, to} /\ SetState(c, to)
      BY <2>3 DEF MarkCommitment
    <3>2. com[c].state <= to /\ com[c].state # StateUnknown /\ to # StateUnknown
      BY <2>3, <3>1 DEF States
    <3>3. /\ Forward
          /\ com'[c].state = to
          /\ \A d \in Commitments \ {c} : com'[d] = com[d]
      BY <3>1, <3>2, <1>type, SetStateForward
    <3>4. ReserveInv'
      BY <2>1, <3>2, <3>3, <1>type DEF ReserveInv
    <3>5. CopyInv'
      BY <2>1, <3>2, <3>3 DEF CopyInv
    <3> QED BY <3>3, <3>4, <3>5
  <2>4. \/ com' = com
        \/ MarkCommitment(c, StatePayingDestination, StateReadyToOpen)
        \/ MarkCommitment(c, StateOpening, StateOpen)
        \/ MarkCommitment(c, StateClosing, StateClosed)
    BY <1>17 DEF OnSuccess
  <2> HIDE DEF Goal
  <2> QED BY <2>2, <2>3, <2>4 DEF States
<1>18. ASSUME NEW c \in Commitments, ReadForUpgrade(c) PROVE Goal
  <2>1. com' = com /\ reserving' = reserving /\ work' = work
    BY <1>18 DEF ReadForUpgrade, seqVars
  <2>2. draft' = [draft EXCEPT ![c] = [com[c] EXCEPT !.div = target[c]]]
    BY <1>18 DEF ReadForUpgrade
  <2>3. draft'[c].state = com[c].state
    BY <2>2, <1>type, RecordField
  <2>4. \A d \in Commitments \ {c} : draft'[d] = draft[d]
    BY <2>2, <1>type
  <2> QED BY <2>1, <2>3, <2>4, <1>same DEF ReserveInv, CopyInv
<1>19. ASSUME NEW c \in Commitments, CommitUpgrade(c) PROVE Goal
  <2>1. reserving' = reserving /\ work' = work
    BY <1>19 DEF CommitUpgrade, seqVars
  <2>2. StoreAccepts(com[c], draft[c]) /\ com' = [com EXCEPT ![c] = draft[c]]
    BY <1>19 DEF CommitUpgrade
  <2>3. draft[c] \in Records
    BY <1>type
  <2>4. /\ Forward
        /\ com'[c] = draft[c]
        /\ \A d \in Commitments \ {c} : com'[d] = com[d]
    BY <2>2, <2>3, <1>type, AcceptedForward
  <2>5. \A d \in Commitments : draft'[d] = draft[d] \/ draft'[d].state = StateUnknown
    BY <1>19, <1>type DEF CommitUpgrade, EndUpgrade, Blank
  <2>6. com[c].state = StateUnknown => draft[c].state = StateUnknown
    BY DEF CopyInv
  <2>7. com'[c].state = StateUnknown => com[c].state = StateUnknown
    BY <2>4, <1>state DEF Forward, States
  <2>8. ReserveInv'
    BY <2>1, <2>4, <2>6, <1>type DEF ReserveInv
  <2>9. CopyInv'
    BY <2>1, <2>4, <2>5, <2>7 DEF CopyInv
  <2> QED BY <2>4, <2>8, <2>9
<1>20. ASSUME NEW c \in Commitments, AbortUpgrade(c) PROVE Goal
  <2>1. com' = com /\ reserving' = reserving /\ work' = work
    BY <1>20 DEF AbortUpgrade, seqVars
  <2>2. \A d \in Commitments : draft'[d] = draft[d] \/ draft'[d].state = StateUnknown
    BY <1>20, <1>type DEF AbortUpgrade, EndUpgrade, Blank
  <2> QED BY <2>1, <2>2, <1>same DEF ReserveInv, CopyInv
<1>21. ASSUME NEW c \in Commitments, Poll(c) PROVE Goal
  <2>1. com' = com /\ reserving' = reserving /\ draft' = draft
    BY <1>21 DEF Poll, WorkerUnchanged, seqVars, rpcVars
  <2>2. work'[c].step = "repay" /\ \A d \in Commitments \ {c} : work'[d] = work[d]
    BY <1>21, <1>type DEF Poll
  <2> QED BY <2>1, <2>2, <1>same DEF ReserveInv, CopyInv
<1>22. ASSUME NEW c \in Commitments, CheckRepaid(c) PROVE Goal
  <2>1. com' = com /\ reserving' = reserving /\ draft' = draft
    BY <1>22 DEF CheckRepaid, WorkerUnchanged, seqVars, rpcVars
  <2>2. CASE GoTo(c, "decide")
    BY <2>1, <2>2, <1>work DEF Steps
  <2>3. CASE At(c, "saveRepaid", [com[c] EXCEPT !.repaid = TRUE])
    <3>1. work'[c].save.state = com[c].state
      BY <2>3, <1>type, RecordField DEF At
    <3>2. \A d \in Commitments \ {c} : work'[d] = work[d]
      BY <2>3, <1>type DEF At
    <3> QED BY <2>1, <3>1, <3>2, <1>same DEF ReserveInv, CopyInv
  <2> QED BY <1>22, <2>2, <2>3 DEF CheckRepaid
<1>23. ASSUME NEW c \in Commitments, HandleReadyToOpen(c) PROVE Goal
  <2>1. com' = com /\ reserving' = reserving /\ draft' = draft
    BY <1>23 DEF HandleReadyToOpen, WorkerUnchanged, seqVars, rpcVars
  <2>2. Finish(c) \/ \E s \in Steps \ {"save", "saveRepaid"} : GoTo(c, s)
    BY <1>23 DEF HandleReadyToOpen, Inject, MaybeGC, Steps
  <2> QED BY <2>1, <2>2, <1>work
<1>24. ASSUME NEW c \in Commitments, HandleOpen(c) PROVE Goal
  <2>1. com' = com /\ reserving' = reserving /\ draft' = draft
    BY <1>24 DEF HandleOpen, WorkerUnchanged, seqVars, rpcVars
  <2>2. Finish(c) \/ \E s \in Steps \ {"save", "saveRepaid"} : GoTo(c, s)
    BY <1>24 DEF HandleOpen, Steps
  <2> QED BY <2>1, <2>2, <1>work
<1>25. ASSUME NEW c \in Commitments, HandleClosed(c) PROVE Goal
  <2>1. com' = com /\ reserving' = reserving /\ draft' = draft
    BY <1>25 DEF HandleClosed, WorkerUnchanged, seqVars, rpcVars
  <2>2. Finish(c) \/ \E s \in Steps \ {"save", "saveRepaid"} : GoTo(c, s)
    BY <1>25 DEF HandleClosed, MaybeGC, Steps
  <2> QED BY <2>1, <2>2, <1>work
<1>26. ASSUME NEW c \in Commitments, Mark(c) PROVE Goal
  <2> DEFINE step == work[c].step
             new == [com[c] EXCEPT !.state = MarkTo[step]]
  <2>1. com' = com /\ reserving' = reserving /\ draft' = draft
    BY <1>26 DEF Mark, WorkerUnchanged, seqVars, rpcVars
  <2>2. step \in DOMAIN MarkTo
    BY <1>26 DEF Mark
  <2>3. CASE Finish(c)
    BY <2>1, <2>3, <1>work
  <2>4. CASE com[c].state \in MarkFrom[step] /\ At(c, "save", new)
    <3>1. com[c].state # StateUnknown
      BY <2>2, <2>4, MarkType
    <3>2. \A d \in Commitments \ {c} : work'[d] = work[d]
      BY <2>4, <1>type DEF At
    <3> QED BY <2>1, <3>1, <3>2, <1>same DEF ReserveInv, CopyInv
  <2> QED BY <1>26, <2>3, <2>4 DEF Mark
<1>27. ASSUME NEW c \in Commitments, Save(c) PROVE Goal
  <2> DEFINE new == work[c].save
  <2>1. reserving' = reserving /\ draft' = draft /\ work[c].step \in {"save", "saveRepaid"}
    BY <1>27 DEF Save, WorkerUnchanged, seqVars, rpcVars
  <2>2. \/ Finish(c)
        \/ GoTo(c, "decide")
    BY <1>27 DEF Save
  <2>3. CASE com' = com
    BY <2>1, <2>2, <2>3, <1>work DEF Steps
  <2>4. CASE StoreAccepts(com[c], new) /\ com' = [com EXCEPT ![c] = new]
    <3>1. new \in Records
      BY <1>type DEF Works
    <3>2. /\ Forward
          /\ com'[c] = new
          /\ \A d \in Commitments \ {c} : com'[d] = com[d]
      BY <2>4, <3>1, <1>type, AcceptedForward
    <3>3. com[c].state = StateUnknown => new.state = StateUnknown
      BY <2>1 DEF CopyInv
    <3>4. com'[c].state = StateUnknown => com[c].state = StateUnknown
      BY <3>2, <1>state DEF Forward, States
    <3>5. work'[c].step \notin {"save", "saveRepaid"}
          /\ \A d \in Commitments \ {c} : work'[d] = work[d]
      BY <2>2, <1>type DEF Finish, GoTo, At, Idle
    <3>6. ReserveInv'
      BY <2>1, <3>2, <3>3, <1>type DEF ReserveInv
    <3>7. CopyInv'
      BY <2>1, <3>2, <3>4, <3>5 DEF CopyInv
    <3> QED BY <3>2, <3>6, <3>7
  <2> QED BY <1>27, <2>3, <2>4 DEF Save
<1>28. ASSUME Crash PROVE Goal
  <2>1. com' = com /\ reserving' = {}
    BY <1>28 DEF Crash
  <2>2. \A d \in Commitments :
          draft'[d].state = StateUnknown /\ work'[d].step = "idle"
    BY <1>28 DEF Crash, Blank, Idle
  <2> QED BY <2>1, <2>2, <1>same DEF ReserveInv, CopyInv
<1>29. ASSUME UNCHANGED vars PROVE Goal
  <2>1. com' = com /\ reserving' = reserving /\ draft' = draft /\ work' = work
    BY <1>29 DEF vars, rpcVars, seqVars
  <2> QED BY <2>1, <1>idle
<1>30. ASSUME NEW c \in Commitments, Sequencer(c) PROVE Goal
  BY <1>30, <1>15, <1>16, <1>2, <1>3, <1>4, <1>17, <1>5, <1>6 DEF Sequencer, Fuls
<1>31. ASSUME NEW c \in Commitments, Worker(c) PROVE Goal
  BY <1>31, <1>21, <1>22, <1>23, <1>24, <1>25, <1>26, <1>27 DEF Worker
<1>32. ASSUME NEW c \in Commitments, Upgrade(c) PROVE Goal
  BY <1>32, <1>14, <1>18, <1>19, <1>20 DEF Upgrade
<1>33. ASSUME Environment PROVE Goal
  BY <1>33, <1>9, <1>10, <1>11, <1>12, <1>1, <1>13, <1>7, <1>8 DEF Environment
<1>34. Goal
  <2> HIDE DEF Goal
  <2>1. CASE UNCHANGED vars
    BY <2>1, <1>29
  <2>2. CASE Next
    BY <2>2, <1>28, <1>30, <1>31, <1>32, <1>33 DEF Next
  <2> QED BY <2>1, <2>2
<1>35. TypeOK'
  BY StepType
<1> QED BY <1>34, <1>35

\* Whatever the sequencer, the worker, the upgrades and the restarts interleave,
\* no state of a commitment is undone, no diversion lost or changed and no
\* repayment forgotten.
THEOREM MovesForward == Spec => RecordMovesForward
<1>1. Init => RecordInv
  BY RecordInit
<1>2. RecordInv /\ [Next]_vars => RecordInv'
  BY RecordStep
<1>3. RecordInv /\ [Next]_vars => [Forward]_vars
  BY RecordStep
<1> QED BY <1>1, <1>2, <1>3, PTL DEF Spec, RecordMovesForward, Forward

(***************************************************************************)
(* Advances and repayments.                                                *)
(***************************************************************************)

Finalized(k, c) == outcome[<<k, c>>] = "finalized"
Begun == {"Pending", "Confirmed", "Failed"}
Final == {"Revoked", "Confirmed", "Failed"}

\* A fulfillment reaches the blockchain while it is pending, and is confirmed
\* when it was finalized there.
FulInv ==
    \A f \in Fuls :
        /\ f \in decided => ful[f] = "Unknown"
        /\ f \in succeeded => ful[f] = "Pending" /\ outcome[f] = "finalized"
        /\ ful[f] = "Confirmed" => outcome[f] = "finalized"
        /\ outcome[f] # "none" => ful[f] \in Begun

\* Which fulfillments a commitment has.
SavedInv ==
    /\ reserving \subseteq saved
    /\ \A c \in Commitments :
          /\ c \notin saved => /\ ful[<<"advance", c>>] = "None"
                               /\ ful[<<"temporary", c>>] = "None"
                               /\ com[c].state = StateUnknown
          /\ com[c].div = NoVault <=> ful[<<"permanent", c>>] = "None"
          /\ ful[<<"permanent", c>>] # "Revoked"
          /\ ful[<<"open", c>>] = "None" => ful[<<"close", c>>] = "None"

\* c was paid before d, or with it, and both are in the tree of the database.
LeafOrder(c, d) == \E i \in 1 .. synced : \E j \in 1 .. i : ledger[i] = d /\ ledger[j] = c

\* Leaves are distinct, and repayments are diverted to later ones; an upgrade
\* that is open has a leaf in hand that is not old yet.
TreeInv ==
    /\ \A i, j \in 1 .. Len(ledger) : ledger[i] = ledger[j] => i = j
    /\ \A i \in 1 .. Len(ledger) : Finalized("advance", ledger[i])
    /\ \A c \in Commitments :
          /\ target[c] # NoVault => /\ LeafOrder(c, target[c])
                                    /\ ~NextLeafIsOld(target[c])
                                    /\ com[c].div = NoVault
          /\ com[c].div # NoVault => LeafOrder(c, com[c].div)

\* The record an upgrade is about to save is not ahead of the one it replaces.
DraftInv ==
    \A c \in Commitments :
        /\ draft[c].div \in {NoVault, target[c]}
        /\ draft[c].div = NoVault => draft[c] = Blank
        /\ draft[c].state <= com[c].state
        /\ draft[c].repaid => com[c].repaid

\* What a step leaves of the fulfillments.
FulSteps ==
    /\ \A f \in Fuls :
          /\ outcome[f] # "none" => outcome'[f] = outcome[f]
          /\ ful[f] \in Final => ful'[f] = ful[f]
          /\ ful'[f] \in Begun => ful[f] \in Begun \/ f \in decided
          /\ ful'[f] = "Pending" => ful[f] = "Pending" \/ f \in decided
    /\ \A c \in Commitments :
          /\ ful'[<<"temporary", c>>] \in Scheduable =>
                 ful[<<"temporary", c>>] \in Scheduable \/ c \notin saved
          /\ \A k \in Kinds : <<k, c>> \in decided' => <<k, c>> \in decided \/ CanSubmit(k, c)
          /\ \A k \in Kinds : ful'[<<k, c>>] = "None" => ful[<<k, c>>] = "None"
          /\ \A k \in Kinds \ {"temporary"} :
                 ful'[<<k, c>>] = "Revoked" => ful[<<k, c>>] = "Revoked"
          /\ \A k \in Kinds :
                 ful[<<k, c>>] = "None" /\ ful'[<<k, c>>] # "None" =>
                     /\ k \in {"advance", "temporary"} => c \in saved'
                     /\ k = "permanent" => com'[c].div # NoVault
                     /\ k \in {"open", "close"} => ful'[<<"open", c>>] # "None"

\* Fulfillments that are created were none before, and have no outcome.
LEMMA Creation ==
    ASSUME FulInv, UNCHANGED <<outcome, decided, succeeded>>,
           \A f \in Fuls : \/ ful'[f] = ful[f]
                           \/ ful[f] = "None" /\ ful'[f] = "Unknown"
    PROVE  /\ FulInv'
           /\ \A f \in Fuls :
                 /\ outcome[f] # "none" => outcome'[f] = outcome[f]
                 /\ ful[f] \in Final => ful'[f] = ful[f]
                 /\ ful'[f] \in Begun => ful[f] \in Begun \/ f \in decided
                 /\ ful'[f] = "Pending" => ful[f] = "Pending" \/ f \in decided
BY DEF FulInv, Begun, Final

\* Fulfillments only move from their creation to the blockchain and on to their
\* last state.
LEMMA FulStep ==
    ASSUME TypeOK, FulInv, SavedInv, TreeInv, DraftInv, [Next]_vars
    PROVE  FulInv' /\ FulSteps
<1> /\ ful \in [Fuls -> FulStates]
    /\ outcome \in [Fuls -> {"none", "finalized", "failed"}]
    /\ decided \subseteq Fuls /\ succeeded \subseteq Fuls
  BY DEF TypeOK
<1>kinds. \A c \in Commitments : \A k \in Kinds : <<k, c>> \in Fuls
  BY DEF Fuls
<1>same. ASSUME ful' = ful, outcome' = outcome, decided' \subseteq decided,
                succeeded' \subseteq succeeded
         PROVE  FulInv' /\ FulSteps
  BY <1>same DEF FulInv, FulSteps
<1>set. ASSUME NEW f \in Fuls, NEW s \in FulStates, ful' = [ful EXCEPT ![f] = s],
               outcome' = outcome, decided' \subseteq decided, succeeded' \subseteq succeeded,
               f \notin decided' \cup succeeded',
               ful[f] \notin Final \cup {"None"}, s # "None",
               s = "Revoked" => \E c \in Commitments : f = <<"temporary", c>>,
               s \in Begun => ful[f] \in Begun \/ f \in decided,
               s = "Pending" => ful[f] = "Pending" \/ f \in decided,
               s = "Unknown" => ful[f] \in Scheduable,
               s = "Confirmed" => outcome[f] = "finalized",
               outcome[f] # "none" => s \in Begun
        PROVE  FulInv' /\ FulSteps
  <2>1. \A g \in Fuls : ful'[g] = IF g = f THEN s ELSE ful[g]
    BY <1>set
  <2>2. FulInv'
    BY <1>set, <2>1 DEF FulInv
  <2>3. \A g \in Fuls :
          /\ outcome[g] # "none" => outcome'[g] = outcome[g]
          /\ ful[g] \in Final => ful'[g] = ful[g]
          /\ ful'[g] \in Begun => ful[g] \in Begun \/ g \in decided
          /\ ful'[g] = "Pending" => ful[g] = "Pending" \/ g \in decided
    BY <1>set, <2>1
  <2>4. \A g \in decided : ful[g] = "Unknown"
    BY DEF FulInv
  <2>5. \A g \in Fuls : ful'[g] \in Scheduable => ful[g] \in Scheduable
    BY <1>set, <2>1, <2>4 DEF Scheduable
  <2>6. \A g \in Fuls : ful'[g] = "None" <=> ful[g] = "None"
    BY <1>set, <2>1
  <2>7. \A c \in Commitments : \A k \in Kinds \ {"temporary"} :
            ful'[<<k, c>>] = "Revoked" => ful[<<k, c>>] = "Revoked"
    BY <1>set, <1>kinds, <2>1
  <2> QED
    BY <1>set, <1>kinds, <2>2, <2>3, <2>5, <2>6, <2>7 DEF FulSteps, Kinds
<1>1. ASSUME NEW c \in Commitments, SubmitPayment(c) PROVE FulInv' /\ FulSteps
  <2>1. /\ ful' = [ful EXCEPT ![<<"advance", c>>] = "Unknown", ![<<"temporary", c>>] = "Unknown"]
        /\ UNCHANGED <<outcome, decided, succeeded>>
        /\ c \notin saved
    BY <1>1 DEF SubmitPayment, chainVars, seqVars
  <2>2. ful[<<"advance", c>>] = "None" /\ ful[<<"temporary", c>>] = "None"
    BY <2>1 DEF SavedInv
  <2>3. \A f \in Fuls : ful'[f] = ful[f] \/ (ful[f] = "None" /\ ful'[f] = "Unknown")
    BY <2>1, <2>2
  <2>4. \A d \in Commitments \ {c} : ful'[<<"temporary", d>>] = ful[<<"temporary", d>>]
    BY <2>1, <1>kinds DEF Kinds
  <2>5. c \in saved' /\ \A k \in Kinds \ {"advance", "temporary"} : \A d \in Commitments :
                               ful'[<<k, d>>] = ful[<<k, d>>]
    BY <1>1, <2>1, <1>kinds DEF SubmitPayment
  <2>6. \A k \in Kinds : \A d \in Commitments \ {c} : ful'[<<k, d>>] = ful[<<k, d>>]
    BY <2>1, <1>kinds
  <2>7. /\ FulInv'
        /\ \A f \in Fuls :
              /\ outcome[f] # "none" => outcome'[f] = outcome[f]
              /\ ful[f] \in Final => ful'[f] = ful[f]
              /\ ful'[f] \in Begun => ful[f] \in Begun \/ f \in decided
              /\ ful'[f] = "Pending" => ful[f] = "Pending" \/ f \in decided
    BY ONLY FulInv, <2>1, <2>3, Creation
  <2>8. \A k \in Kinds : \A d \in Commitments :
           \/ ful'[<<k, d>>] = ful[<<k, d>>]
           \/ ful[<<k, d>>] = "None" /\ ful'[<<k, d>>] = "Unknown" /\ d = c
                 /\ k \in {"advance", "temporary"}
    BY <1>kinds, <2>3, <2>5, <2>6
  <2>9. ASSUME NEW d \in Commitments
        PROVE  /\ ful'[<<"temporary", d>>] \in Scheduable =>
                     ful[<<"temporary", d>>] \in Scheduable \/ d \notin saved
               /\ \A k \in Kinds : <<k, d>> \in decided' => <<k, d>> \in decided \/ CanSubmit(k, d)
               /\ \A k \in Kinds : ful'[<<k, d>>] = "None" => ful[<<k, d>>] = "None"
               /\ \A k \in Kinds \ {"temporary"} :
                      ful'[<<k, d>>] = "Revoked" => ful[<<k, d>>] = "Revoked"
    <3>1. ASSUME NEW k \in Kinds PROVE ful'[<<k, d>>] = "None" => ful[<<k, d>>] = "None"
      BY ONLY <2>8, <2>9, <3>1
    <3>2. ASSUME NEW k \in Kinds PROVE ful'[<<k, d>>] = "Revoked" => ful[<<k, d>>] = "Revoked"
      BY ONLY <2>8, <2>9, <3>2
    <3>3. ful'[<<"temporary", d>>] = ful[<<"temporary", d>>] \/ d \notin saved
      BY ONLY <2>1, <2>8, <2>9 DEF Kinds
    <3> QED
      BY ONLY <2>1, <3>1, <3>2, <3>3
  <2>10. \A d \in Commitments : \A k \in Kinds :
            ful[<<k, d>>] = "None" /\ ful'[<<k, d>>] # "None" =>
               d \in saved' /\ k \in {"advance", "temporary"}
    BY ONLY <2>5, <2>8
  <2> QED
    BY ONLY <2>7, <2>9, <2>10 DEF FulSteps
<1>2. ASSUME NEW c \in Commitments, NEW k \in Kinds, Decide(k, c) PROVE FulInv' /\ FulSteps
  <2>1. /\ ful[<<k, c>>] = "Unknown" /\ CanSubmit(k, c)
        /\ decided' = decided \cup {<<k, c>>}
        /\ UNCHANGED <<ful, outcome, succeeded>>
    BY <1>2 DEF Decide, chainVars
  <2> QED
    BY <2>1 DEF FulInv, FulSteps
<1>3. ASSUME NEW f \in Fuls, MarkPending(f) PROVE FulInv' /\ FulSteps
  <2>1. /\ f \in decided /\ decided' = decided \ {f}
        /\ ful' = [ful EXCEPT ![f] = "Pending"]
        /\ UNCHANGED <<outcome, succeeded>>
    BY <1>3 DEF MarkPending, chainVars
  <2>2. ful[f] = "Unknown" /\ f \notin succeeded
    BY <2>1 DEF FulInv
  <2> QED
    BY <1>set, <2>1, <2>2 DEF FulStates, Begun, Final
<1>4. ASSUME NEW f \in Fuls, MarkConfirmed(f) PROVE FulInv' /\ FulSteps
  <2>1. /\ f \in succeeded /\ succeeded' = succeeded \ {f}
        /\ ful' = [ful EXCEPT ![f] = "Confirmed"]
        /\ UNCHANGED <<outcome, decided>>
    BY <1>4 DEF MarkConfirmed, chainVars
  <2>2. ful[f] = "Pending" /\ outcome[f] = "finalized" /\ f \notin decided
    BY <2>1 DEF FulInv
  <2> QED
    BY <1>set, <2>1, <2>2 DEF FulStates, Begun, Final
<1>5. ASSUME NEW f \in Fuls, MarkFailed(f) PROVE FulInv' /\ FulSteps
  <2>1. /\ ful[f] = "Pending" /\ outcome[f] = "failed"
        /\ ful' = [ful EXCEPT ![f] = "Failed"]
        /\ UNCHANGED <<outcome, decided, succeeded>>
    BY <1>5 DEF MarkFailed, chainVars, seqVars
  <2>2. f \notin decided /\ f \notin succeeded
    BY <2>1 DEF FulInv
  <2> QED
    BY <1>set, <2>1, <2>2 DEF FulStates, Begun, Final
<1>6. ASSUME NEW c \in Commitments, RevokeTemporary(c) PROVE FulInv' /\ FulSteps
  <2> DEFINE f == <<"temporary", c>>
  <2>1. /\ f \in Fuls /\ f \notin decided /\ ful[f] = "Unknown"
        /\ ful' = [ful EXCEPT ![f] = "Revoked"]
        /\ UNCHANGED <<outcome, decided, succeeded>>
        /\ \E d \in Commitments : f = <<"temporary", d>>
    BY <1>6, <1>kinds DEF RevokeTemporary, chainVars, seqVars, Kinds
  <2>2. f \notin succeeded /\ outcome[f] = "none"
    BY <2>1 DEF FulInv, Begun
  <2> HIDE DEF f
  <2> QED
    BY <1>set, <2>1, <2>2 DEF FulStates, Begun, Final
<1>7. ASSUME NEW c \in Commitments, NEW k \in Kinds, Land(k, c) \/ FailOnChain(k, c)
      PROVE  FulInv' /\ FulSteps
  <2>1. /\ ful[<<k, c>>] = "Pending" /\ outcome[<<k, c>>] = "none"
        /\ \E o \in {"finalized", "failed"} : outcome' = [outcome EXCEPT ![<<k, c>>] = o]
        /\ UNCHANGED <<ful, decided, succeeded>>
    BY <1>7 DEF Land, FailOnChain, seqVars
  <2> QED
    BY <2>1, <1>kinds DEF FulInv, FulSteps, Begun
<1>8. ASSUME NEW c \in Commitments, NEW k \in Kinds, OnSuccess(k, c) PROVE FulInv' /\ FulSteps
  <2>1. /\ ful[<<k, c>>] = "Pending" /\ outcome[<<k, c>>] = "finalized"
        /\ succeeded' = succeeded \cup {<<k, c>>}
        /\ UNCHANGED <<ful, outcome, decided>>
    BY <1>8 DEF OnSuccess, chainVars
  <2> QED
    BY <2>1 DEF FulInv, FulSteps
<1>9. ASSUME NEW c \in Commitments, CommitUpgrade(c) PROVE FulInv' /\ FulSteps
  <2>1. /\ ful' = [ful EXCEPT ![<<"permanent", c>>] = "Unknown"]
        /\ UNCHANGED <<outcome, decided, succeeded>>
        /\ draft[c] # Blank
    BY <1>9 DEF CommitUpgrade, chainVars, seqVars
  <2>2. ful[<<"permanent", c>>] = "None"
    BY <2>1 DEF DraftInv, TreeInv, SavedInv
  <2>3. \A f \in Fuls : ful'[f] = ful[f] \/ (ful[f] = "None" /\ ful'[f] = "Unknown")
    BY <2>1, <2>2
  <2>4. \A d \in Commitments : ful'[<<"temporary", d>>] = ful[<<"temporary", d>>]
    BY <2>1, <1>kinds DEF Kinds
  <2>5. \A k \in Kinds : \A d \in Commitments :
            <<k, d>> # <<"permanent", c>> => ful'[<<k, d>>] = ful[<<k, d>>]
    BY <2>1, <1>kinds
  <2>6. com'[c].div # NoVault
    BY <1>9, <2>1 DEF CommitUpgrade, DraftInv, TypeOK
  <2> QED
    BY <1>kinds, <2>1, <2>3, <2>4, <2>5, <2>6, Creation DEF FulSteps
<1>10. ASSUME NEW c \in Commitments, HandleReadyToOpen(c) PROVE FulInv' /\ FulSteps
  <2>1. UNCHANGED <<outcome, decided, succeeded>>
    BY <1>10 DEF HandleReadyToOpen, WorkerUnchanged, chainVars, seqVars
  <2>2. CASE ful' = ful
    BY <2>1, <2>2, <1>same
  <2>3. CASE /\ ful[<<"open", c>>] = "None"
             /\ ful' = [ful EXCEPT ![<<"open", c>>] = "Unknown", ![<<"close", c>>] = "Unknown"]
    <3>1. ful[<<"open", c>>] = "None" /\ ful[<<"close", c>>] = "None"
      BY <2>3 DEF SavedInv
    <3>2. \A f \in Fuls : ful'[f] = ful[f] \/ (ful[f] = "None" /\ ful'[f] = "Unknown")
      BY <2>3, <3>1
    <3>3. \A d \in Commitments : ful'[<<"temporary", d>>] = ful[<<"temporary", d>>]
      BY <2>3, <1>kinds DEF Kinds
    <3>4. \A k \in Kinds : \A d \in Commitments :
              <<k, d>> \notin {<<"open", c>>, <<"close", c>>} => ful'[<<k, d>>] = ful[<<k, d>>]
      BY <2>3, <1>kinds
    <3>5. ful'[<<"open", c>>] # "None"
      BY <2>3, <1>kinds DEF Kinds
    <3> QED
      BY <1>kinds, <2>1, <3>2, <3>3, <3>4, <3>5, Creation DEF FulSteps
  <2> QED
    BY <1>10, <2>2, <2>3 DEF HandleReadyToOpen, Inject, MaybeGC
<1>11. ASSUME NEW c \in Commitments,
              \/ CheckFunds(c) \/ Reserve(c) \/ DeadlinePasses(c)
              \/ StartUpgrade(c) \/ ReadForUpgrade(c) \/ AbortUpgrade(c)
              \/ Poll(c) \/ CheckRepaid(c) \/ HandleOpen(c) \/ HandleClosed(c) \/ Mark(c) \/ Save(c)
       PROVE  FulInv' /\ FulSteps
  <2>1. UNCHANGED <<ful, outcome, decided, succeeded>>
    BY <1>11 DEF CheckFunds, Reserve, DeadlinePasses, StartUpgrade, ReadForUpgrade, AbortUpgrade,
                 Poll, CheckRepaid, HandleOpen, HandleClosed, MaybeGC, Mark, Save,
                 WorkerUnchanged, chainVars, seqVars
  <2> QED
    BY <2>1, <1>same
<1>12. CASE RequestRecentRoot \/ SaveRecentRoot \/ SyncLeaf \/ LeafAges \/ Crash \/ UNCHANGED vars
  <2>1. /\ ful' = ful /\ outcome' = outcome
        /\ decided' \subseteq decided /\ succeeded' \subseteq succeeded
    BY <1>12 DEF RequestRecentRoot, SaveRecentRoot, SyncLeaf, LeafAges, Crash, vars,
                 chainVars, seqVars
  <2> QED
    BY <2>1, <1>same
<1>13. ASSUME NEW c \in Commitments, Sequencer(c) PROVE FulInv' /\ FulSteps
  BY <1>13, <1>kinds, <1>2, <1>3, <1>4, <1>5, <1>6, <1>8, <1>11 DEF Sequencer
<1>14. ASSUME NEW c \in Commitments, Worker(c) \/ Upgrade(c) PROVE FulInv' /\ FulSteps
  BY <1>14, <1>9, <1>10, <1>11 DEF Worker, Upgrade
<1>15. CASE Environment
  BY <1>15, <1>1, <1>7, <1>11, <1>12 DEF Environment
<1> QED
  BY <1>12, <1>13, <1>14, <1>15 DEF Next

\* The vault of c may be closed: its leaf is old, no repayment that is diverted
\* to it is under way, and its own has arrived or is diverted elsewhere.
CloseReady(c) ==
    /\ NextLeafIsOld(c)
    /\ Finalized("open", c)
    /\ \A d \in Commitments : com[d].div = c => ful[<<"permanent", d>>] = "Confirmed"
    /\ com[c].div = NoVault => ful[<<"temporary", c>>] = "Confirmed"

\* Nothing is diverted to c any more, and what was is back.
GCReady(c) ==
    /\ NextLeafIsOld(c)
    /\ \/ CloseReady(c) /\ Finalized("close", c)
       \/ \A d \in Commitments : com[d].div # c

\* What it takes for the state of c to be s.
MayReach(c, s) ==
    /\ s \in {StateOpen, StateClosing, StateClosed} => Finalized("open", c)
    /\ s \in {StateClosing, StateClosed} => CloseReady(c)
    /\ s = StateClosed => Finalized("close", c)
    /\ s = StateReadyToRemoveFromMerkleTree => GCReady(c)

\* A vault is closed only after the repayments to it, and repayments are
\* submitted only to a vault that was opened.
VaultInv ==
    \A c \in Commitments :
        /\ MayReach(c, com[c].state)
        /\ <<"advance", c>> \in decided \/ ful[<<"advance", c>>] \in Begun =>
               com[c].state # StateUnknown
        /\ <<"close", c>> \in decided \/ ful[<<"close", c>>] \in Begun =>
               com[c].state >= StateClosing /\ ful[<<"temporary", c>>] \notin Scheduable
        /\ <<"temporary", c>> \in decided \/ ful[<<"temporary", c>>] = "Pending" =>
               Finalized("open", c)
        /\ <<"permanent", c>> \in decided \/ ful[<<"permanent", c>>] = "Pending" =>
               com[c].div # NoVault /\ Finalized("open", com[c].div)

\* The copy of a record that the worker decides on is behind the database.
MayDecide(c, rec) ==
    /\ rec.state <= com[c].state
    /\ rec.state \in {StateUnknown, StateReadyToOpen, StateOpen, StateClosed}
    /\ rec.div # NoVault => com[c].div = rec.div
    /\ rec.state = StateReadyToOpen /\ rec.repaid => NextLeafIsOld(c)
    /\ rec.state = StateOpen => Finalized("open", c)
    /\ rec.state = StateClosed =>
          /\ Finalized("close", c)
          /\ rec.div = NoVault => ful[<<"temporary", c>>] = "Confirmed"

\* What the worker is about to save was justified when it was decided, and
\* still is.
MaySave(c, step, new) ==
    /\ step = "markClosing" => CloseReady(c)
    /\ step = "markGC" => GCReady(c)
    /\ new.repaid => Returned(c)
    /\ new.div # NoVault => com[c].div = new.div
    /\ new.state > com[c].state => MayReach(c, new.state)

WorkInv ==
    \A c \in Commitments :
        /\ MayDecide(c, work[c].record)
        /\ MaySave(c, work[c].step, work[c].save)

\* What a step leaves of the records.
ComStepOf(c) ==
    /\ com[c].state <= com'[c].state
    /\ com[c].state = StateUnknown /\ com'[c].state # StateUnknown => c \in reserving
    /\ com[c].div # NoVault => com'[c].div = com[c].div
    /\ com'[c].div # com[c].div => /\ com'[c].div = target[c] /\ target'[c] = NoVault
                                     /\ ful'[<<"permanent", c>>] # "None"
    /\ com[c].repaid => com'[c].repaid
    /\ com'[c].repaid => com[c].repaid \/ work[c].save.repaid
    /\ \/ com'[c].state = com[c].state
       \/ com'[c].state \in {StatePayingDestination, StateReadyToOpen}
       \/ com'[c].state = StateOpen /\ Finalized("open", c)
       \/ /\ com'[c].state = StateClosed /\ com[c].state = StateClosing
          /\ Finalized("close", c)
       \/ com'[c].state > com[c].state /\ com'[c].state = work[c].save.state

ComSteps == \A c \in Commitments : ComStepOf(c)

\* A record is changed by the sequencer, by an upgrade or by the worker.
LEMMA ComStep ==
    ASSUME RecordInv, DraftInv, WorkInv, [Next]_vars
    PROVE  ComSteps
<1> /\ com \in [Commitments -> Records] /\ work \in [Commitments -> Works]
    /\ draft \in [Commitments -> Records] /\ reserving \subseteq Commitments
  BY DEF RecordInv, TypeOK
<1>forward. Forward
  BY RecordStep
<1>state. \A c \in Commitments : com[c].state \in States
  BY RecordField
<1>one. ASSUME NEW c \in Commitments, com'[c] = com[c] PROVE ComStepOf(c)
  BY <1>one, <1>state DEF ComStepOf, States
<1>same. ASSUME com' = com PROVE ComSteps
  BY <1>same, <1>one DEF ComSteps
<1>set. ASSUME NEW c \in Commitments, NEW s \in States, SetState(c, s), com[c].state <= s,
               com[c].state = StateUnknown /\ s # StateUnknown => c \in reserving,
               \/ com[c].state = s
               \/ s \in {StatePayingDestination, StateReadyToOpen}
               \/ s = StateOpen /\ Finalized("open", c)
               \/ s = StateClosed /\ com[c].state = StateClosing /\ Finalized("close", c)
        PROVE  ComSteps
  <2>1. com[c] \in Records /\ [com[c] EXCEPT !.state = s] \in Records
    BY <1>set, RecordType
  <2>2. /\ com'[c] = [com[c] EXCEPT !.state = s]
        /\ \A d \in Commitments \ {c} : com'[d] = com[d]
    BY <1>set, <2>1 DEF SetState
  <2>3. com'[c].state = s /\ com'[c].repaid = com[c].repaid /\ com'[c].div = com[c].div
    BY <2>1, <2>2, RecordField
  <2> HIDE DEF Finalized
  <2>4. ComStepOf(c)
    <3>1. com[c].state \in States /\ s \in States
      BY <1>set, <1>state
    <3>2. com'[c].state = com[c].state \/ com'[c].state > com[c].state
      BY <1>set, <2>3, <3>1 DEF States
    <3> QED
      BY <1>set, <2>3, <3>1, <3>2 DEF ComStepOf, States
  <2> QED
    BY <1>one, <2>2, <2>4 DEF ComSteps
<1>1. ASSUME NEW c \in Commitments, Reserve(c) PROVE ComSteps
  <2>1. c \in reserving /\ SetState(c, StatePayingDestination) /\ com[c].state = StateUnknown
    BY <1>1 DEF Reserve, RecordInv, ReserveInv
  <2> QED
    BY <1>set, <2>1 DEF States
<1>2. ASSUME NEW c \in Commitments, NEW k \in Kinds, OnSuccess(k, c) PROVE ComSteps
  <2>1. CASE k = "advance" /\ MarkCommitment(c, StatePayingDestination, StateReadyToOpen)
    BY <2>1, <1>set DEF MarkCommitment, States
  <2>2. CASE k = "open" /\ MarkCommitment(c, StateOpening, StateOpen)
    <3>1. Finalized("open", c)
      BY <1>2, <2>2 DEF OnSuccess, Finalized
    <3> HIDE DEF Finalized
    <3> QED
      BY <2>2, <3>1, <1>set DEF MarkCommitment, States
  <2>3. CASE k = "close" /\ MarkCommitment(c, StateClosing, StateClosed)
    <3>1. Finalized("close", c)
      BY <1>2, <2>3 DEF OnSuccess, Finalized
    <3> HIDE DEF Finalized
    <3> QED
      BY <2>3, <3>1, <1>set DEF MarkCommitment, States
  <2> QED
    BY <1>2, <2>1, <2>2, <2>3, <1>same DEF OnSuccess
<1>3. ASSUME NEW c \in Commitments, CommitUpgrade(c) PROVE ComSteps
  <2>1. StoreAccepts(com[c], draft[c]) /\ com' = [com EXCEPT ![c] = draft[c]]
    BY <1>3 DEF CommitUpgrade
  <2>2. com'[c] = draft[c] /\ \A d \in Commitments \ {c} : com'[d] = com[d]
    BY <2>1
  <2>3. draft[c] \in Records /\ draft[c].state \in States
    BY RecordField
  <2>4. draft[c].state = com[c].state
    BY <2>1, <2>3, <1>state DEF StoreAccepts, DraftInv, States
  <2>5. /\ draft[c].repaid => com[c].repaid
        /\ draft[c].div = target[c]
        /\ target'[c] = NoVault
        /\ ful'[<<"permanent", c>>] # "None"
    BY <1>3 DEF CommitUpgrade, EndUpgrade, DraftInv, RecordInv, TypeOK, Fuls, Kinds
  <2> HIDE DEF Finalized
  <2>6. ComStepOf(c)
    BY <1>forward, <1>state, <2>2, <2>4, <2>5 DEF ComStepOf, Forward, States
  <2> QED
    BY <1>one, <2>2, <2>6 DEF ComSteps
<1>4. ASSUME NEW c \in Commitments, Save(c) PROVE ComSteps
  <2> DEFINE new == work[c].save
  <2>1. CASE com' = com
    BY <2>1, <1>same
  <2>2. CASE StoreAccepts(com[c], new) /\ com' = [com EXCEPT ![c] = new]
    <3>1. com'[c] = new /\ \A d \in Commitments \ {c} : com'[d] = com[d]
      BY <2>2
    <3>2. new \in Records /\ new.state \in States
      BY RecordField DEF Works
    <3>3. com[c].state = StateUnknown => new.state = StateUnknown
      BY <1>4 DEF Save, RecordInv, CopyInv
    <3>4. new.div # NoVault => com[c].div = new.div
      BY DEF WorkInv, MaySave
    <3>5. com[c].state <= new.state
      BY <2>2 DEF StoreAccepts
    <3> HIDE DEF Finalized, new
    <3>6. com'[c].state = com[c].state \/ com'[c].state > com[c].state
      BY <1>state, <3>1, <3>2, <3>5 DEF States
    <3>7. /\ com[c].state <= com'[c].state
          /\ com[c].div # NoVault => com'[c].div = com[c].div
          /\ com[c].repaid => com'[c].repaid
      BY <1>forward DEF Forward
    <3>8. /\ com'[c].div = com[c].div
          /\ com'[c].repaid => work[c].save.repaid
          /\ com'[c].state = work[c].save.state
          /\ com[c].state = StateUnknown => com'[c].state = StateUnknown
      BY <1>forward, <3>1, <3>3, <3>4 DEF new, Forward
    <3>9. ComStepOf(c)
      BY <3>6, <3>7, <3>8 DEF ComStepOf
    <3> QED
      BY <1>one, <3>1, <3>9 DEF ComSteps
  <2> QED
    BY <1>4, <2>1, <2>2 DEF Save
<1>5. ASSUME NEW c \in Commitments, Sequencer(c) PROVE ComSteps
  <2>1. ASSUME CheckFunds(c) \/ RevokeTemporary(c) PROVE ComSteps
    BY <2>1, <1>same DEF CheckFunds, RevokeTemporary
  <2>2. ASSUME NEW k \in Kinds,
               Decide(k, c) \/ MarkPending(<<k, c>>) \/ MarkConfirmed(<<k, c>>) \/ MarkFailed(<<k, c>>)
        PROVE  ComSteps
    BY <2>2, <1>same DEF Decide, MarkPending, MarkConfirmed, MarkFailed
  <2> QED
    BY <1>5, <1>1, <1>2, <2>1, <2>2 DEF Sequencer
<1>6. ASSUME NEW c \in Commitments, Worker(c) PROVE ComSteps
  <2>1. ASSUME \/ Poll(c) \/ CheckRepaid(c) \/ HandleReadyToOpen(c) \/ HandleOpen(c)
               \/ HandleClosed(c) \/ Mark(c)
        PROVE  ComSteps
    BY <2>1, <1>same DEF Poll, CheckRepaid, HandleReadyToOpen, HandleOpen, HandleClosed, Mark
  <2> QED
    BY <1>6, <1>4, <2>1 DEF Worker
<1>7. ASSUME NEW c \in Commitments, Upgrade(c) PROVE ComSteps
  <2>1. ASSUME StartUpgrade(c) \/ ReadForUpgrade(c) \/ AbortUpgrade(c) PROVE ComSteps
    BY <2>1, <1>same DEF StartUpgrade, ReadForUpgrade, AbortUpgrade
  <2> QED
    BY <1>7, <1>3, <2>1 DEF Upgrade
<1>8. CASE Environment \/ Crash \/ UNCHANGED vars
  <2>1. com' = com
    BY <1>8 DEF Environment, RequestRecentRoot, SaveRecentRoot, SyncLeaf, LeafAges,
                SubmitPayment, DeadlinePasses, Land, FailOnChain, Crash, vars
  <2> QED
    BY <2>1, <1>same
<1> QED
  BY <1>5, <1>6, <1>7, <1>8 DEF Next

\* What is old stays old.
OldStays == \A c \in Commitments : NextLeafIsOld(c) => NextLeafIsOld(c)'

\* The tree grows at its end, by leaves that are not in it yet, and an old leaf
\* is never selected again.
LEMMA TreeStep ==
    ASSUME RecordInv, TreeInv, FulInv, FulSteps, ComSteps, [Next]_vars
    PROVE  TreeInv' /\ OldStays
<1> /\ ledger \in Seq(Commitments) /\ Len(ledger) \in Nat
    /\ savedRoot \in 0 .. Len(ledger) /\ synced \in 0 .. savedRoot /\ aged \in 0 .. synced
    /\ target \in [Commitments -> Commitments \cup {NoVault}]
    /\ outcome \in [Fuls -> {"none", "finalized", "failed"}]
  BY DEF RecordInv, TypeOK
<1>len. synced \in 0 .. Len(ledger) /\ aged \in 0 .. Len(ledger)
  OBVIOUS
<1>kinds. \A c \in Commitments : \A k \in Kinds : <<k, c>> \in Fuls
  BY DEF Fuls
<1>paid. \A i \in 1 .. Len(ledger) : outcome'[<<"advance", ledger[i]>>] = "finalized"
  <2> TAKE i \in 1 .. Len(ledger)
  <2>1. ledger[i] \in Commitments
    OBVIOUS
  <2>2. <<"advance", ledger[i]>> \in Fuls
    BY <2>1, <1>kinds DEF Kinds
  <2>3. outcome[<<"advance", ledger[i]>>] = "finalized"
    BY DEF TreeInv, Finalized
  <2> QED
    BY <2>2, <2>3 DEF FulSteps
<1>div. \A c \in Commitments :
            com'[c].div # com[c].div => com'[c].div = target[c] /\ target'[c] = NoVault
  BY DEF ComSteps, ComStepOf
<1>1. ASSUME UNCHANGED <<ledger, synced, aged>>,
             \A c \in Commitments :
                 \/ target'[c] \in {target[c], NoVault}
                 \/ /\ LeafOrder(c, target'[c]) /\ ~NextLeafIsOld(target'[c])
                    /\ com'[c].div = NoVault
      PROVE  TreeInv' /\ OldStays
  <2>1. /\ \A c : NextLeafIsOld(c)' <=> NextLeafIsOld(c)
        /\ \A c, d : LeafOrder(c, d)' <=> LeafOrder(c, d)
    BY <1>1 DEF NextLeafIsOld, LeafOrder
  <2>2. /\ \A i, j \in 1 .. Len(ledger') : ledger'[i] = ledger'[j] => i = j
        /\ \A i \in 1 .. Len(ledger') : Finalized("advance", ledger[i])'
    BY <1>1, <1>paid DEF TreeInv, Finalized
  <2>3. ASSUME NEW c \in Commitments, target'[c] # NoVault
        PROVE  /\ LeafOrder(c, target'[c]) /\ ~NextLeafIsOld(target'[c])
               /\ com'[c].div = NoVault
    <3>1. CASE target'[c] = target[c]
      BY <1>div, <2>3, <3>1 DEF TreeInv
    <3> QED
      BY <1>1, <2>3, <3>1
  <2>4. ASSUME NEW c \in Commitments, com'[c].div # NoVault PROVE LeafOrder(c, com'[c].div)
    BY <1>div, <2>4 DEF TreeInv
  <2>5. TreeInv'
    BY <1>1, <2>1, <2>2, <2>3, <2>4 DEF TreeInv, LeafOrder, NextLeafIsOld, Finalized
  <2> QED
    BY <2>1, <2>5 DEF OldStays
<1>2. ASSUME \A i \in 1 .. Len(ledger) : ledger'[i] = ledger[i],
             Len(ledger') \in Nat, Len(ledger) <= Len(ledger'),
             synced' \in synced .. Len(ledger'), aged' \in aged .. synced',
             \A i, j \in 1 .. Len(ledger') : ledger'[i] = ledger'[j] => i = j,
             \A i \in 1 .. Len(ledger') : Finalized("advance", ledger[i])',
             \A c \in Commitments :
                 NextLeafIsOld(target[c])' => NextLeafIsOld(target[c]) \/ target[c] = NoVault,
             UNCHANGED <<com, target>>
      PROVE  TreeInv' /\ OldStays
  <2>1. ASSUME NEW c, NextLeafIsOld(c) PROVE NextLeafIsOld(c)'
    <3>1. PICK i \in 1 .. aged - 1 : ledger[i] = c
      BY <2>1 DEF NextLeafIsOld
    <3>2. i \in 1 .. aged' - 1 /\ ledger'[i] = c
      BY <1>2, <3>1
    <3> QED
      BY <3>2 DEF NextLeafIsOld
  <2>2. ASSUME NEW c, NEW d, LeafOrder(c, d) PROVE LeafOrder(c, d)'
    <3>1. PICK i \in 1 .. synced : \E j \in 1 .. i : ledger[i] = d /\ ledger[j] = c
      BY <2>2 DEF LeafOrder
    <3>2. PICK j \in 1 .. i : ledger[i] = d /\ ledger[j] = c
      BY <3>1
    <3>3. i \in 1 .. synced' /\ i \in 1 .. Len(ledger) /\ j \in 1 .. Len(ledger)
      BY <1>2, <3>1, <3>2
    <3>4. ledger'[i] = ledger[i] /\ ledger'[j] = ledger[j]
      BY <1>2, <3>3
    <3> QED
      BY <3>2, <3>3, <3>4 DEF LeafOrder
  <2>3. \A c \in Commitments :
          /\ target'[c] # NoVault => /\ LeafOrder(c, target[c])'
                                     /\ ~NextLeafIsOld(target[c])'
                                     /\ com'[c].div = NoVault
          /\ com'[c].div # NoVault => LeafOrder(c, com[c].div)'
    BY <1>2, <2>2 DEF TreeInv
  <2>4. TreeInv'
    <3>1. ASSUME NEW c \in Commitments, target'[c] # NoVault
          PROVE  LeafOrder(c, target[c])' /\ ~NextLeafIsOld(target[c])' /\ com'[c].div = NoVault
      BY <2>3, <3>1
    <3> QED
      BY <1>2, <2>3 DEF TreeInv, LeafOrder, NextLeafIsOld
  <2> QED
    BY <2>1, <2>4 DEF OldStays
<1>3. ASSUME NEW c \in Commitments, NEW k \in Kinds, Land(k, c) PROVE TreeInv' /\ OldStays
  <2>1. /\ outcome[<<k, c>>] = "none"
        /\ outcome' = [outcome EXCEPT ![<<k, c>>] = "finalized"]
        /\ ledger' = IF k = "advance" THEN Append(ledger, c) ELSE ledger
        /\ UNCHANGED <<synced, aged, com, target>>
    BY <1>3 DEF Land, treeVars, rpcVars
  <2>2. CASE k # "advance"
    BY <2>1, <2>2, <1>1
  <2>3. CASE k = "advance"
    <3>1. /\ ledger' \in Seq(Commitments) /\ Len(ledger') = Len(ledger) + 1
          /\ \A i \in 1 .. Len(ledger) : ledger'[i] = ledger[i]
          /\ ledger'[Len(ledger) + 1] = c
      BY <2>1, <2>3
    <3>2. \A i \in 1 .. Len(ledger) : ledger[i] # c
      BY <2>1, <2>3 DEF TreeInv, Finalized
    <3>3. \A i \in 1 .. Len(ledger') : i \in 1 .. Len(ledger) \/ i = Len(ledger) + 1
      BY <3>1
    <3>4. \A i, j \in 1 .. Len(ledger') : ledger'[i] = ledger'[j] => i = j
      BY <3>1, <3>2, <3>3 DEF TreeInv
    <3>5. \A i \in 1 .. Len(ledger') : Finalized("advance", ledger[i])'
      <4>1. outcome'[<<"advance", c>>] = "finalized"
        BY <2>1, <2>3, <1>kinds
      <4> QED
        BY <3>1, <3>3, <4>1, <1>paid DEF Finalized
    <3>6. \A d : NextLeafIsOld(d)' => NextLeafIsOld(d)
      <4>1. \A i \in 1 .. aged - 1 : ledger'[i] = ledger[i]
        BY <3>1
      <4> QED
        BY <2>1, <4>1 DEF NextLeafIsOld
    <3>7. /\ Len(ledger') \in Nat /\ Len(ledger) <= Len(ledger')
          /\ synced' \in synced .. Len(ledger') /\ aged' \in aged .. synced'
      BY <2>1, <3>1
    <3> QED
      BY <2>1, <3>1, <3>4, <3>5, <3>6, <3>7, <1>2
  <2> QED
    BY <2>2, <2>3
<1>4. CASE SyncLeaf
  <2>1. /\ synced < savedRoot /\ synced' = synced + 1
        /\ UNCHANGED <<ledger, aged, com, target, outcome>>
    BY <1>4 DEF SyncLeaf, chainVars, rpcVars
  <2>2. synced' \in synced .. Len(ledger') /\ aged' \in aged .. synced'
    BY <2>1
  <2>3. \A d : NextLeafIsOld(d)' => NextLeafIsOld(d)
    BY <2>1 DEF NextLeafIsOld
  <2>4. /\ \A i, j \in 1 .. Len(ledger') : ledger'[i] = ledger'[j] => i = j
        /\ \A i \in 1 .. Len(ledger') : Finalized("advance", ledger[i])'
    BY <2>1, <1>paid DEF TreeInv, Finalized
  <2> QED
    BY <2>1, <2>2, <2>3, <2>4, <1>2
<1>5. CASE LeafAges
  <2>1. /\ aged < synced /\ aged' = aged + 1
        /\ aged > 0 => \A c \in Commitments : target[c] # ledger[aged]
        /\ UNCHANGED <<ledger, synced, com, target, outcome>>
    BY <1>5 DEF LeafAges, chainVars, rpcVars
  <2>2. synced' \in synced .. Len(ledger') /\ aged' \in aged .. synced'
    BY <2>1
  <2>3. ASSUME NEW c \in Commitments, NextLeafIsOld(target[c])', ~NextLeafIsOld(target[c])
        PROVE  FALSE
    <3>1. PICK i \in 1 .. aged : ledger[i] = target[c]
      BY <2>1, <2>3 DEF NextLeafIsOld
    <3>2. i \notin 1 .. aged - 1
      BY <2>3, <3>1 DEF NextLeafIsOld
    <3>3. i = aged /\ aged > 0
      BY <3>1, <3>2
    <3> QED
      BY <2>1, <3>1, <3>3
  <2>4. /\ \A i, j \in 1 .. Len(ledger') : ledger'[i] = ledger'[j] => i = j
        /\ \A i \in 1 .. Len(ledger') : Finalized("advance", ledger[i])'
    BY <2>1, <1>paid DEF TreeInv, Finalized
  <2> QED
    BY <2>1, <2>2, <2>3, <2>4, <1>2
<1>6. ASSUME NEW c \in Commitments, StartUpgrade(c) PROVE TreeInv' /\ OldStays
  <2>1. PICK i \in 1 .. synced :
            /\ i >= aged
            /\ root[ledger[i]] <= i
            /\ c \in Leaves(root[ledger[i]])
            /\ target' = [target EXCEPT ![c] = ledger[i]]
    BY <1>6 DEF StartUpgrade
  <2>2. /\ UNCHANGED <<ledger, synced, aged, com>> /\ com[c].div = NoVault
    BY <1>6 DEF StartUpgrade, chainVars, treeVars
  <2>3. LeafOrder(c, ledger[i])
    <3>1. PICK j \in 1 .. root[ledger[i]] : ledger[j] = c
      BY <2>1 DEF Leaves
    <3>2. ledger[i] \in Commitments /\ root[ledger[i]] \in Nat
      <4>1. i \in 1 .. Len(ledger)
        BY <1>len
      <4>2. ledger[i] \in Commitments
        BY <4>1
      <4> QED
        BY <4>2 DEF RecordInv, TypeOK
    <3>3. j \in 1 .. i
      BY <2>1, <3>1, <3>2
    <3> QED
      BY <3>1, <3>3 DEF LeafOrder
  <2>4. ~NextLeafIsOld(ledger[i])
    <3> SUFFICES ASSUME NEW j \in 1 .. aged - 1, ledger[j] = ledger[i] PROVE FALSE
      BY DEF NextLeafIsOld
    <3>1. i \in 1 .. Len(ledger) /\ j \in 1 .. Len(ledger)
      BY <1>len
    <3>2. i = j
      BY <3>1 DEF TreeInv
    <3> QED
      BY <2>1, <3>2
  <2>5. \A d \in Commitments : target'[d] = IF d = c THEN ledger[i] ELSE target[d]
    BY <2>1
  <2> QED
    BY <2>2, <2>3, <2>4, <2>5, <1>1
<1>7. ASSUME NEW c \in Commitments, CommitUpgrade(c) \/ AbortUpgrade(c)
      PROVE  TreeInv' /\ OldStays
  <2>1. /\ target' = [target EXCEPT ![c] = NoVault]
        /\ UNCHANGED <<ledger, synced, aged>>
    BY <1>7 DEF CommitUpgrade, AbortUpgrade, EndUpgrade, chainVars, treeVars
  <2> QED
    BY <2>1, <1>1
<1>8. CASE Crash
  BY <1>8, <1>1 DEF Crash, chainVars, treeVars
<1>9. ASSUME UNCHANGED <<ledger, synced, aged, target>> PROVE TreeInv' /\ OldStays
  BY <1>9, <1>1
<1>10. ASSUME NEW c \in Commitments, Sequencer(c) PROVE TreeInv' /\ OldStays
  <2>1. UNCHANGED <<ledger, synced, aged, target>>
    BY <1>10 DEF Sequencer, CheckFunds, Reserve, RevokeTemporary, Decide, MarkPending, OnSuccess,
                 MarkConfirmed, MarkFailed, chainVars, treeVars, rpcVars
  <2> QED
    BY <2>1, <1>9
<1>11. ASSUME NEW c \in Commitments, Worker(c) \/ ReadForUpgrade(c) PROVE TreeInv' /\ OldStays
  <2>1. UNCHANGED <<ledger, synced, aged, target>>
    BY <1>11 DEF Worker, Poll, CheckRepaid, HandleReadyToOpen, HandleOpen, HandleClosed, Mark,
                 Save, WorkerUnchanged, ReadForUpgrade, chainVars, treeVars, rpcVars
  <2> QED
    BY <2>1, <1>9
<1>12. ASSUME \/ RequestRecentRoot \/ SaveRecentRoot \/ UNCHANGED vars
              \/ \E c \in Commitments : \/ SubmitPayment(c) \/ DeadlinePasses(c)
                                        \/ \E k \in Kinds : FailOnChain(k, c)
       PROVE  TreeInv' /\ OldStays
  <2>1. UNCHANGED <<ledger, synced, aged, target>>
    BY <1>12 DEF RequestRecentRoot, SaveRecentRoot, vars, SubmitPayment, DeadlinePasses,
                 FailOnChain, chainVars, treeVars, rpcVars
  <2> QED
    BY <2>1, <1>9
<1> QED
  BY <1>3, <1>4, <1>5, <1>6, <1>7, <1>8, <1>10, <1>11, <1>12 DEF Next, Environment, Upgrade

\* What a commitment may reach, and what came back, stays so: nothing is diverted
\* to a vault whose leaf is old.
LEMMA Stays ==
    ASSUME RecordInv, TreeInv, FulInv, SavedInv, OldStays, FulSteps, ComSteps,
           NEW c \in Commitments
    PROVE  /\ \A k \in Kinds : Finalized(k, c) => Finalized(k, c)'
           /\ CloseReady(c) => CloseReady(c)'
           /\ GCReady(c) => GCReady(c)'
           /\ \A s \in States : MayReach(c, s) => MayReach(c, s)'
           /\ Returned(c) => Returned(c)'
<1>fuls. \A d \in Commitments : \A k \in Kinds : <<k, d>> \in Fuls
  BY DEF Fuls
<1>kinds. {"advance", "temporary", "permanent", "open", "close"} \subseteq Kinds
  BY DEF Kinds
<1>1. \A d \in Commitments : \A k \in Kinds : Finalized(k, d) => Finalized(k, d)'
  BY <1>fuls DEF Finalized, FulSteps
<1>2. \A d \in Commitments : \A k \in Kinds :
          ful[<<k, d>>] = "Confirmed" => ful'[<<k, d>>] = "Confirmed"
  BY <1>fuls DEF FulSteps, Final
<1>3. NextLeafIsOld(c) => NextLeafIsOld(c)'
  BY DEF OldStays
<1>4. NextLeafIsOld(c) => \A d \in Commitments : com'[d].div = c => com[d].div = c
  <2> SUFFICES ASSUME NextLeafIsOld(c), NEW d \in Commitments, com'[d].div = c, com[d].div # c
               PROVE  FALSE
    OBVIOUS
  <2>1. target[d] = c /\ c # NoVault
    BY Vaults DEF ComSteps, ComStepOf
  <2>2. target[d] # NoVault => ~NextLeafIsOld(target[d])
    BY DEF TreeInv
  <2> QED
    BY <2>1, <2>2
<1>5. com'[c].div = NoVault => com[c].div = NoVault
  BY DEF ComSteps, ComStepOf
<1>6. CloseReady(c) => CloseReady(c)'
  BY <1>kinds, <1>1, <1>2, <1>3, <1>4, <1>5 DEF CloseReady
<1>7. GCReady(c) => GCReady(c)'
  BY <1>kinds, <1>1, <1>3, <1>4, <1>6 DEF GCReady
<1>8. \A s \in States : MayReach(c, s) => MayReach(c, s)'
  BY <1>kinds, <1>1, <1>6, <1>7 DEF MayReach
<1>9. Returned(c) => Returned(c)'
  <2>1. CASE Finalized("temporary", c) /\ Finalized("close", c)
    BY <1>1, <1>kinds, <2>1 DEF Returned, Finalized
  <2>2. CASE Finalized("permanent", c) /\ Finalized("close", com[c].div)
    <3>1. ful[<<"permanent", c>>] # "None"
      BY <2>2, <1>fuls, <1>kinds DEF Finalized, FulInv, Begun
    <3>2. com[c].div # NoVault /\ com[c].div \in Commitments
      <4>1. com[c].div # NoVault
        BY <3>1, <1>kinds DEF SavedInv
      <4>2. com[c] \in Records
        BY DEF RecordInv, TypeOK
      <4> QED
        BY <4>1, <4>2 DEF Records
    <3>3. com'[c].div = com[c].div
      BY <3>2 DEF ComSteps, ComStepOf
    <3>4. Finalized("permanent", c)' /\ outcome'[<<"close", com[c].div>>] = "finalized"
      BY <2>2, <3>2, <1>1, <1>kinds DEF Finalized
    <3> QED
      BY <3>3, <3>4 DEF Returned, Finalized
  <2> QED
    BY <2>1, <2>2 DEF Returned, Finalized
<1> QED
  BY <1>1, <1>6, <1>7, <1>8, <1>9

\* A closing vault has an old leaf, and nothing is diverted to it any more but
\* what has arrived.
LEMMA Closing ==
    ASSUME RecordInv, VaultInv, NEW c \in Commitments, com[c].state >= StateClosing
    PROVE  /\ NextLeafIsOld(c)
           /\ \A d \in Commitments : com[d].div = c => ful[<<"permanent", d>>] = "Confirmed"
<1>1. com[c].state \in States
  BY RecordField DEF RecordInv, TypeOK
<1>2. com[c].state \in {StateClosing, StateClosed, StateReadyToRemoveFromMerkleTree}
  BY <1>1 DEF States
<1> QED
  BY <1>2 DEF VaultInv, MayReach, CloseReady, GCReady

\* A vault that was closed on the blockchain was closing.
LEMMA ClosedWasClosing ==
    ASSUME FulInv, VaultInv, NEW c \in Commitments, Finalized("close", c)
    PROVE  com[c].state >= StateClosing
<1>1. <<"close", c>> \in Fuls
  BY DEF Fuls, Kinds
<1> QED
  BY <1>1 DEF FulInv, VaultInv, Finalized

\* Which fulfillments a commitment has changes with its record.
LEMMA SavedStep ==
    ASSUME RecordInv, SavedInv, FulInv, FulSteps, ComSteps, [Next]_vars
    PROVE  SavedInv'
<1>fuls. \A d \in Commitments : \A k \in Kinds : <<k, d>> \in Fuls
  BY DEF Fuls
<1>kinds. {"advance", "temporary", "permanent", "open", "close"} \subseteq Kinds
  BY DEF Kinds
<1>1. saved \subseteq saved' /\ reserving' \subseteq saved'
  <2>1. ASSUME NEW c \in Commitments, CheckFunds(c) PROVE saved' = saved /\ reserving' \subseteq saved'
    BY <2>1 DEF CheckFunds, SavedInv
  <2>2. ASSUME NEW c \in Commitments, SubmitPayment(c)
        PROVE  saved \subseteq saved' /\ reserving' \subseteq saved'
    BY <2>2 DEF SubmitPayment, SavedInv, seqVars
  <2>3. ASSUME saved' = saved, reserving' \subseteq reserving
        PROVE  saved \subseteq saved' /\ reserving' \subseteq saved'
    BY <2>3 DEF SavedInv
  <2>4. ASSUME NEW c \in Commitments, Sequencer(c)
        PROVE  saved \subseteq saved' /\ reserving' \subseteq saved'
    BY <2>4, <2>1, <2>3 DEF Sequencer, Reserve, RevokeTemporary, Decide, MarkPending, OnSuccess,
                            MarkConfirmed, MarkFailed, seqVars
  <2>5. ASSUME NEW c \in Commitments, Worker(c) \/ Upgrade(c)
        PROVE  saved \subseteq saved' /\ reserving' \subseteq saved'
    <3>1. saved' = saved /\ reserving' = reserving
      BY <2>5 DEF Worker, Poll, CheckRepaid, HandleReadyToOpen, HandleOpen, HandleClosed, Mark,
                  Save, WorkerUnchanged, Upgrade, StartUpgrade, ReadForUpgrade, CommitUpgrade,
                  AbortUpgrade, seqVars
    <3> QED
      BY <3>1, <2>3
  <2>6. CASE Environment
    BY <2>6, <2>2, <2>3 DEF Environment, RequestRecentRoot, SaveRecentRoot, SyncLeaf, LeafAges,
                            DeadlinePasses, Land, FailOnChain, seqVars
  <2>7. CASE Crash \/ UNCHANGED vars
    BY <2>7, <2>3 DEF Crash, vars, seqVars
  <2> QED
    BY <2>4, <2>5, <2>6, <2>7 DEF Next
<1>2. ASSUME NEW c \in Commitments, c \notin saved'
      PROVE  /\ ful'[<<"advance", c>>] = "None" /\ ful'[<<"temporary", c>>] = "None"
             /\ com'[c].state = StateUnknown
  <2>1. /\ ful[<<"advance", c>>] = "None" /\ ful[<<"temporary", c>>] = "None"
        /\ com[c].state = StateUnknown /\ c \notin reserving
    BY <1>1, <1>2 DEF SavedInv
  <2>2. com'[c].state = StateUnknown
    BY <2>1 DEF ComSteps, ComStepOf
  <2> QED
    BY <1>2, <1>kinds, <2>1, <2>2 DEF FulSteps
<1>3. ASSUME NEW c \in Commitments
      PROVE  /\ com'[c].div = NoVault <=> ful'[<<"permanent", c>>] = "None"
             /\ ful'[<<"permanent", c>>] # "Revoked"
             /\ ful'[<<"open", c>>] = "None" => ful'[<<"close", c>>] = "None"
  <2>1. /\ com[c].div = NoVault <=> ful[<<"permanent", c>>] = "None"
        /\ ful[<<"permanent", c>>] # "Revoked"
        /\ ful[<<"open", c>>] = "None" => ful[<<"close", c>>] = "None"
    BY DEF SavedInv
  <2>2. /\ com[c].div # NoVault => com'[c].div = com[c].div
        /\ com'[c].div # com[c].div => ful'[<<"permanent", c>>] # "None"
    BY DEF ComSteps, ComStepOf
  <2>3. /\ ful'[<<"permanent", c>>] = "None" => ful[<<"permanent", c>>] = "None"
        /\ ful[<<"permanent", c>>] = "None" /\ ful'[<<"permanent", c>>] # "None" =>
               com'[c].div # NoVault
        /\ ful'[<<"permanent", c>>] # "Revoked"
    BY <1>kinds, <2>1 DEF FulSteps
  <2>4. /\ ful'[<<"open", c>>] = "None" => ful[<<"open", c>>] = "None"
        /\ ful[<<"close", c>>] = "None" /\ ful'[<<"close", c>>] # "None" =>
               ful'[<<"open", c>>] # "None"
    BY <1>kinds DEF FulSteps
  <2> QED
    BY <2>1, <2>2, <2>3, <2>4
<1> QED
  BY <1>1, <1>2, <1>3 DEF SavedInv

\* The record of an open upgrade is the one it read, but for its vault.
LEMMA DraftStep ==
    ASSUME RecordInv, DraftInv, ComSteps, [Next]_vars
    PROVE  DraftInv'
<1> /\ draft \in [Commitments -> Records] /\ com \in [Commitments -> Records]
    /\ target \in [Commitments -> Commitments \cup {NoVault}]
  BY DEF RecordInv, TypeOK
<1> DEFINE Right(c) ==
              /\ draft[c].div \in {NoVault, target[c]}
              /\ draft[c].div = NoVault => draft[c] = Blank
              /\ draft[c].state <= com[c].state
              /\ draft[c].repaid => com[c].repaid
<1>states. \A c \in Commitments : /\ com[c].state \in States /\ draft[c].state \in States
                                  /\ com'[c].state \in States
  <2>1. com' \in [Commitments -> Records]
    BY StepType DEF RecordInv, TypeOK
  <2> QED
    BY <2>1, RecordField
<1>1. ASSUME NEW c \in Commitments, draft'[c] = draft[c],
             target'[c] = target[c] \/ target[c] = NoVault
      PROVE  Right(c)'
  <2>1. com[c].state <= com'[c].state /\ (com[c].repaid => com'[c].repaid)
    BY DEF ComSteps, ComStepOf
  <2>2. Right(c)
    BY DEF DraftInv
  <2>3. draft'[c].state <= com'[c].state
    BY <1>1, <1>states, <2>1, <2>2 DEF States
  <2> QED
    BY <1>1, <2>1, <2>2, <2>3
<1>2. ASSUME NEW c \in Commitments, draft'[c] = Blank PROVE Right(c)'
  <2>1. Blank.state = 0 /\ Blank.repaid = FALSE /\ Blank.div = NoVault
    BY DEF Blank
  <2> QED
    BY <1>2, <1>states, <2>1 DEF States
<1>3. ASSUME UNCHANGED <<draft, target>> PROVE DraftInv'
  BY <1>1, <1>3 DEF DraftInv
<1>4. ASSUME NEW c \in Commitments, StartUpgrade(c) PROVE DraftInv'
  <2>1. draft' = draft /\ target[c] = NoVault
        /\ \A d \in Commitments \ {c} : target'[d] = target[d]
    BY <1>4 DEF StartUpgrade
  <2> QED
    BY <1>1, <2>1 DEF DraftInv
<1>5. ASSUME NEW c \in Commitments, ReadForUpgrade(c) PROVE DraftInv'
  <2>1. /\ draft'[c] = [com[c] EXCEPT !.div = target[c]]
        /\ \A d \in Commitments \ {c} : draft'[d] = draft[d]
        /\ target' = target /\ target[c] # NoVault /\ com' = com
    BY <1>5 DEF ReadForUpgrade
  <2>2. draft'[c].div = target[c] /\ draft'[c].repaid = com[c].repaid
        /\ draft'[c].state = com[c].state
    BY <2>1 DEF Records
  <2>3. Right(c)'
    BY <2>1, <2>2, <1>states DEF States
  <2> QED
    BY <1>1, <2>1, <2>3 DEF DraftInv
<1>6. ASSUME NEW c \in Commitments, EndUpgrade(c) PROVE DraftInv'
  <2>1. /\ draft'[c] = Blank
        /\ \A d \in Commitments \ {c} : draft'[d] = draft[d] /\ target'[d] = target[d]
    BY <1>6 DEF EndUpgrade
  <2> QED
    BY <1>1, <1>2, <2>1 DEF DraftInv
<1>7. CASE Crash
  BY <1>2, <1>7 DEF Crash, DraftInv
<1>8. CASE Environment \/ UNCHANGED vars
  <2>1. UNCHANGED <<draft, target>>
    BY <1>8 DEF Environment, RequestRecentRoot, SaveRecentRoot, SyncLeaf, LeafAges,
                SubmitPayment, DeadlinePasses, Land, FailOnChain, vars, rpcVars
  <2> QED
    BY <2>1, <1>3
<1>9. ASSUME NEW c \in Commitments, Sequencer(c) \/ Worker(c) PROVE DraftInv'
  <2>1. UNCHANGED <<draft, target>>
    BY <1>9 DEF Sequencer, CheckFunds, Reserve, RevokeTemporary, Decide, MarkPending, OnSuccess,
                MarkConfirmed, MarkFailed, Worker, Poll, CheckRepaid, HandleReadyToOpen,
                HandleOpen, HandleClosed, Mark, Save, WorkerUnchanged, rpcVars
  <2> QED
    BY <2>1, <1>3
<1> QED
  BY <1>4, <1>5, <1>6, <1>7, <1>8, <1>9 DEF Next, Upgrade, CommitUpgrade, AbortUpgrade

\* Vaults are opened before and closed after the transfers to them.
LEMMA VaultStep ==
    ASSUME RecordInv, RecordInv', TreeInv, FulInv, SavedInv, VaultInv, WorkInv,
           OldStays, FulSteps, ComSteps
    PROVE  VaultInv'
<1>fuls. \A d \in Commitments : \A k \in Kinds : <<k, d>> \in Fuls
  BY DEF Fuls
<1>kinds. {"advance", "temporary", "permanent", "open", "close"} \subseteq Kinds
  BY DEF Kinds
<1>state. \A c \in Commitments : com[c].state \in States /\ com'[c].state \in States
  <2>1. com \in [Commitments -> Records] /\ com' \in [Commitments -> Records]
    BY DEF RecordInv, TypeOK
  <2> QED
    BY <2>1, RecordField
<1>forward. \A c \in Commitments : com[c].state <= com'[c].state
  BY DEF ComSteps, ComStepOf
<1>final. \A c \in Commitments : \A k \in Kinds : Finalized(k, c) => Finalized(k, c)'
  BY Stays
<1>open. \A c \in Commitments : VaultIsOpen(c) => Finalized("open", c)
  BY DEF VaultIsOpen, VaultInv, MayReach
<1>sent. \A c \in Commitments : \A k \in Kinds :
            /\ <<k, c>> \in decided' =>
                  <<k, c>> \in decided \/ CanSubmit(k, c)
            /\ ful'[<<k, c>>] \in Begun =>
                  <<k, c>> \in decided \/ ful[<<k, c>>] \in Begun
            /\ ful'[<<k, c>>] = "Pending" =>
                  <<k, c>> \in decided \/ ful[<<k, c>>] = "Pending"
  BY <1>fuls DEF FulSteps
<1>1. ASSUME NEW c \in Commitments PROVE MayReach(c, com[c].state)'
  <2>stays. \A s \in States : MayReach(c, s) => MayReach(c, s)'
    BY Stays
  <2>old. MayReach(c, com[c].state)
    BY DEF VaultInv
  <2>1. CASE com'[c].state = com[c].state
    BY <1>state, <2>1, <2>stays, <2>old DEF MayReach
  <2>2. CASE com'[c].state \in {StatePayingDestination, StateReadyToOpen}
    BY <2>2 DEF MayReach
  <2>3. CASE com'[c].state = StateOpen /\ Finalized("open", c)
    BY <1>kinds, <1>final, <2>3 DEF MayReach
  <2>4. CASE /\ com'[c].state = StateClosed /\ com[c].state = StateClosing
             /\ Finalized("close", c)
    <3>1. Finalized("open", c) /\ CloseReady(c)
      BY <2>4, <2>old DEF MayReach
    <3>2. CloseReady(c)'
      BY <3>1, Stays
    <3> QED
      BY <1>kinds, <1>final, <2>4, <3>1, <3>2 DEF MayReach
  <2>5. CASE com'[c].state > com[c].state /\ com'[c].state = work[c].save.state
    <3>1. MayReach(c, work[c].save.state)
      BY <2>5 DEF WorkInv, MaySave
    <3> QED
      BY <1>state, <2>5, <2>stays, <3>1 DEF MayReach
  <2> QED
    BY <2>1, <2>2, <2>3, <2>4, <2>5 DEF ComSteps, ComStepOf
<1>2. ASSUME NEW c \in Commitments,
             <<"advance", c>> \in decided' \/ ful'[<<"advance", c>>] \in Begun
      PROVE  com'[c].state # StateUnknown
  <2>1. CASE CanSubmit("advance", c)
    BY <1>state, <1>forward, <2>1 DEF CanSubmit, States
  <2>2. CASE <<"advance", c>> \in decided \/ ful[<<"advance", c>>] \in Begun
    <3>1. com[c].state # StateUnknown
      BY <2>2 DEF VaultInv
    <3> QED
      BY <1>state, <1>forward, <3>1 DEF States
  <2> QED
    BY <1>2, <1>sent, <1>kinds, <2>1, <2>2
<1>3. ASSUME NEW c \in Commitments,
             <<"close", c>> \in decided' \/ ful'[<<"close", c>>] \in Begun
      PROVE  com'[c].state >= StateClosing /\ ful'[<<"temporary", c>>] \notin Scheduable
  <2>1. com[c].state >= StateClosing /\ ful[<<"temporary", c>>] \notin Scheduable
    <3>1. CASE CanSubmit("close", c)
      <4>1. /\ com[c].state = StateClosing
            /\ {f \in AtVault(c) : ful[f] \in Scheduable} = {<<"close", c>>}
        BY <3>1 DEF CanSubmit
      <4>2. <<"temporary", c>> \in AtVault(c) /\ <<"temporary", c>> # <<"close", c>>
        BY DEF AtVault
      <4> QED
        BY <4>1, <4>2
    <3>2. CASE <<"close", c>> \in decided \/ ful[<<"close", c>>] \in Begun
      BY <3>2 DEF VaultInv
    <3> QED
      BY <1>3, <1>sent, <1>kinds, <3>1, <3>2
  <2>2. c \in saved
    <3>1. c \notin saved => com[c].state = StateUnknown
      BY DEF SavedInv
    <3> QED
      BY <1>state, <2>1, <3>1 DEF States
  <2>3. ful'[<<"temporary", c>>] \notin Scheduable
    BY <2>1, <2>2 DEF FulSteps
  <2>4. com'[c].state >= StateClosing
    BY <1>state, <1>forward, <2>1 DEF States
  <2> QED
    BY <2>3, <2>4
<1>4. ASSUME NEW c \in Commitments,
             <<"temporary", c>> \in decided' \/ ful'[<<"temporary", c>>] = "Pending"
      PROVE  Finalized("open", c)'
  <2>1. Finalized("open", c)
    BY <1>4, <1>sent, <1>kinds, <1>open DEF VaultInv, CanSubmit
  <2> QED
    BY <2>1, <1>final, <1>kinds
<1>5. ASSUME NEW c \in Commitments,
             <<"permanent", c>> \in decided' \/ ful'[<<"permanent", c>>] = "Pending"
      PROVE  com'[c].div # NoVault /\ Finalized("open", com[c].div)'
  <2>1. com[c].div # NoVault => com[c].div \in Commitments
    BY DEF RecordInv, TypeOK, Records
  <2>2. com[c].div # NoVault /\ Finalized("open", com[c].div)
    BY <1>5, <1>sent, <1>kinds, <1>open, <2>1 DEF VaultInv, CanSubmit
  <2>3. com'[c].div = com[c].div
    BY <2>2 DEF ComSteps, ComStepOf
  <2> QED
    BY <2>1, <2>2, <2>3, <1>final, <1>kinds DEF Finalized
<1> QED
  BY <1>1, <1>2, <1>3, <1>4, <1>5 DEF VaultInv

\* What was paid before an old leaf is an old leaf.
LEMMA EarlierIsOld ==
    ASSUME RecordInv, TreeInv, NEW c \in Commitments, NEW d \in Commitments,
           LeafOrder(c, d), NextLeafIsOld(d)
    PROVE  NextLeafIsOld(c)
<1>1. PICK i \in 1 .. synced : \E j \in 1 .. i : ledger[i] = d /\ ledger[j] = c
  BY DEF LeafOrder
<1>2. PICK j \in 1 .. i : ledger[i] = d /\ ledger[j] = c
  BY <1>1
<1>3. PICK n \in 1 .. aged - 1 : ledger[n] = d
  BY DEF NextLeafIsOld
<1>4. /\ ledger \in Seq(Commitments) /\ savedRoot \in 0 .. Len(ledger)
      /\ synced \in 0 .. savedRoot /\ aged \in 0 .. synced
  BY DEF RecordInv, TypeOK
<1>5. i \in 1 .. Len(ledger) /\ n \in 1 .. Len(ledger)
  BY <1>1, <1>3, <1>4
<1>6. i = n
  BY <1>2, <1>3, <1>5 DEF TreeInv
<1>7. j \in 1 .. aged - 1
  BY <1>2, <1>3, <1>4, <1>6
<1> QED
  BY <1>2, <1>7 DEF NextLeafIsOld

\* A payment whose money is back, although its own vault was not closed, has an
\* old leaf.
LEMMA RepaidIsOld ==
    ASSUME RecordInv, TreeInv, FulInv, SavedInv, VaultInv,
           NEW c \in Commitments, Returned(c), com[c].state < StateClosing
    PROVE  NextLeafIsOld(c)
<1>1. com[c].state \in States
  BY RecordField DEF RecordInv, TypeOK
<1>2. ~Finalized("close", c)
  BY <1>1, ClosedWasClosing DEF States
<1>3. Finalized("permanent", c) /\ Finalized("close", com[c].div)
  BY <1>2 DEF Returned, Finalized
<1>4. <<"permanent", c>> \in Fuls
  BY DEF Fuls, Kinds
<1>5. com[c].div # NoVault
  BY <1>3, <1>4 DEF FulInv, SavedInv, Finalized, Begun
<1>6. com[c].div \in Commitments
  BY <1>5 DEF RecordInv, TypeOK, Records
<1>7. NextLeafIsOld(com[c].div)
  BY <1>3, <1>6, ClosedWasClosing, Closing
<1> QED
  BY <1>5, <1>6, <1>7, EarlierIsOld DEF TreeInv

\* What the worker has in hand stays justified.
LEMMA WorkStays ==
    ASSUME RecordInv, RecordInv', TreeInv, FulInv, SavedInv, OldStays, FulSteps, ComSteps,
           NEW c \in Commitments, NEW r \in Records
    PROVE  /\ MayDecide(c, r) => MayDecide(c, r)'
           /\ \A s \in Steps : MaySave(c, s, r) => MaySave(c, s, r)'
<1>fuls. \A k \in Kinds : <<k, c>> \in Fuls
  BY DEF Fuls
<1>kinds. {"advance", "temporary", "permanent", "open", "close"} \subseteq Kinds
  BY DEF Kinds
<1>state. /\ com[c].state \in States /\ com'[c].state \in States /\ r.state \in States
          /\ com[c].state <= com'[c].state
  <2>1. com \in [Commitments -> Records] /\ com' \in [Commitments -> Records]
    BY DEF RecordInv, TypeOK
  <2>2. com[c].state <= com'[c].state
    BY DEF ComSteps, ComStepOf
  <2>3. r.state \in States
    BY DEF Records
  <2> QED
    BY <2>1, <2>2, <2>3, RecordField
<1>div. com[c].div # NoVault => com'[c].div = com[c].div
  BY DEF ComSteps, ComStepOf
<1>stays. /\ \A k \in Kinds : Finalized(k, c) => Finalized(k, c)'
          /\ CloseReady(c) => CloseReady(c)'
          /\ GCReady(c) => GCReady(c)'
          /\ \A s \in States : MayReach(c, s) => MayReach(c, s)'
          /\ Returned(c) => Returned(c)'
  BY Stays
<1>old. NextLeafIsOld(c) => NextLeafIsOld(c)'
  BY DEF OldStays
<1>back. ful[<<"temporary", c>>] = "Confirmed" => ful'[<<"temporary", c>>] = "Confirmed"
  BY <1>fuls, <1>kinds DEF FulSteps, Final
<1>1. ASSUME MayDecide(c, r) PROVE MayDecide(c, r)'
  <2>1. r.state <= com'[c].state
    BY <1>1, <1>state DEF MayDecide, States
  <2>2. r.div # NoVault => com'[c].div = r.div
    BY <1>1, <1>div DEF MayDecide
  <2> QED
    BY <1>1, <1>kinds, <1>stays, <1>old, <1>back, <2>1, <2>2 DEF MayDecide
<1>2. ASSUME NEW s \in Steps, MaySave(c, s, r) PROVE MaySave(c, s, r)'
  <2>1. r.state > com'[c].state => r.state > com[c].state
    BY <1>state DEF States
  <2>2. r.div # NoVault => com'[c].div = r.div
    BY <1>2, <1>div DEF MaySave
  <2> QED
    BY <1>2, <1>state, <1>stays, <2>1, <2>2 DEF MaySave
<1> QED
  BY <1>1, <1>2

\* The money is back when the worker says so.
LEMMA RepaidMeansReturned ==
    ASSUME RecordInv, FulInv, VaultInv, WorkInv, NEW c \in Commitments,
           RepaymentPlayedOut(work[c].record)
    PROVE  Returned(c)
<1> DEFINE rec == work[c].record
<1>fuls. \A d \in Commitments : \A k \in Kinds : <<k, d>> \in Fuls
  BY DEF Fuls
<1>kinds. {"advance", "temporary", "permanent", "open", "close"} \subseteq Kinds
  BY DEF Kinds
<1>confirmed. \A k \in Kinds : ful[<<k, c>>] = "Confirmed" => Finalized(k, c)
  BY <1>fuls DEF FulInv, Finalized
<1>rec. rec \in Records /\ MayDecide(c, rec)
  BY DEF RecordInv, TypeOK, WorkInv, Works
<1> HIDE DEF rec
<1>1. CASE rec.div = NoVault
  <2>1. rec.state = StateClosed
    BY <1>1, <1>rec DEF RepaymentPlayedOut, MayDecide, rec
  <2>2. Finalized("close", c) /\ ful[<<"temporary", c>>] = "Confirmed"
    BY <1>1, <1>rec, <2>1 DEF MayDecide
  <2> QED
    BY <1>confirmed, <1>kinds, <2>2 DEF Returned, Finalized
<1>2. CASE rec.div # NoVault
  <2> DEFINE d == rec.div
  <2>1. d \in Commitments /\ com[c].div = d /\ com[d].state >= StateClosed
    BY <1>2, <1>rec DEF RepaymentPlayedOut, MayDecide, Records, rec
  <2> HIDE DEF d
  <2>2. com[d].state \in States
    BY <2>1, RecordField DEF RecordInv, TypeOK
  <2>3. ful[<<"permanent", c>>] = "Confirmed"
    BY <2>1, <2>2, Closing DEF States
  <2>4. com[d].state \in {StateClosed, StateReadyToRemoveFromMerkleTree}
    BY <2>1, <2>2 DEF States
  <2>5. Finalized("close", d)
    BY <2>1, <2>4 DEF VaultInv, MayReach, GCReady
  <2> QED
    BY <1>confirmed, <1>kinds, <2>1, <2>3, <2>5 DEF Returned, Finalized
<1> QED
  BY <1>1, <1>2

\* The commitment worker closes a vault, collects a commitment and calls a
\* payment repaid when it may, however old what it decides on is.
LEMMA WorkStep ==
    ASSUME RecordInv, RecordInv', TreeInv, FulInv, SavedInv, VaultInv, WorkInv, RepaidIsReal,
           OldStays, FulSteps, ComSteps, [Next]_vars
    PROVE  WorkInv'
<1> /\ com \in [Commitments -> Records] /\ work \in [Commitments -> Works]
    /\ ful \in [Fuls -> FulStates]
  BY DEF RecordInv, TypeOK
<1>records. \A c \in Commitments : /\ com[c] \in Records /\ work[c].step \in Steps
                                  /\ work[c].record \in Records /\ work[c].save \in Records
  BY DEF Works
<1>state. \A c \in Commitments : com[c].state \in States /\ com'[c].state \in States
  <2>1. com' \in [Commitments -> Records]
    BY DEF RecordInv, TypeOK
  <2> QED
    BY <2>1, RecordField
<1>fuls. \A d \in Commitments : \A k \in Kinds : <<k, d>> \in Fuls
  BY DEF Fuls
<1>kinds. {"advance", "temporary", "permanent", "open", "close"} \subseteq Kinds
  BY DEF Kinds
<1>inv. \A c \in Commitments : /\ MayDecide(c, work[c].record)
                              /\ MaySave(c, work[c].step, work[c].save)
  BY DEF WorkInv
<1>decide. \A c \in Commitments : \A r \in Records : MayDecide(c, r) => MayDecide(c, r)'
  BY WorkStays
<1>save. \A c \in Commitments : \A s \in Steps : \A r \in Records :
            MaySave(c, s, r) => MaySave(c, s, r)'
  BY WorkStays
<1>blank. /\ Blank \in Records /\ Blank.state = 0 /\ Blank.repaid = FALSE /\ Blank.div = NoVault
          /\ \A c \in Commitments : MayDecide(c, Blank)
          /\ \A c \in Commitments : \A s \in Steps \ {"markClosing", "markGC"} :
                MaySave(c, s, Blank)
  <2>1. Blank \in Records /\ Blank.state = 0 /\ Blank.repaid = FALSE /\ Blank.div = NoVault
    BY BlankType DEF Blank
  <2>2. ASSUME NEW c \in Commitments PROVE MayDecide(c, Blank)
    BY <1>state, <2>1 DEF MayDecide, States
  <2>3. ASSUME NEW c \in Commitments, NEW s \in Steps \ {"markClosing", "markGC"}
        PROVE  MaySave(c, s, Blank)
    BY <1>state, <2>1, <2>3 DEF MaySave, States
  <2> QED
    BY <2>1, <2>2, <2>3
<1> DEFINE Justified(c) == /\ MayDecide(c, work[c].record)
                           /\ MaySave(c, work[c].step, work[c].save)
<1>keep. ASSUME NEW c \in Commitments, work'[c] = work[c] PROVE Justified(c)'
  BY <1>keep, <1>records, <1>inv, <1>decide, <1>save DEF MayDecide, MaySave
<1>rest. ASSUME NEW c \in Commitments, Justified(c)',
               \A d \in Commitments \ {c} : work'[d] = work[d]
        PROVE  WorkInv'
  BY <1>rest, <1>keep DEF WorkInv
<1>same. ASSUME work' = work PROVE WorkInv'
  BY <1>same, <1>keep DEF WorkInv
<1>set. ASSUME NEW c \in Commitments, NEW s \in Steps, NEW r \in Records, NEW new \in Records,
              work' = [work EXCEPT ![c] = [step |-> s, record |-> r, save |-> new]],
              MayDecide(c, r), MaySave(c, s, new)
       PROVE  WorkInv'
  <2>1. /\ work'[c].step = s /\ work'[c].record = r /\ work'[c].save = new
        /\ \A d \in Commitments \ {c} : work'[d] = work[d]
    BY <1>set
  <2>2. MayDecide(c, r)' /\ MaySave(c, s, new)'
    BY <1>set, <1>decide, <1>save
  <2>3. Justified(c)'
    BY <2>1, <2>2 DEF MayDecide, MaySave
  <2> QED
    BY <2>1, <2>3, <1>rest
<1> HIDE DEF Justified
<1>at. ASSUME NEW c \in Commitments, NEW s \in Steps, NEW new \in Records, At(c, s, new),
             MaySave(c, s, new)
      PROVE  WorkInv'
  BY <1>at, <1>set, <1>records, <1>inv DEF At
<1>goto. ASSUME NEW c \in Commitments, NEW s \in Steps, GoTo(c, s),
               s = "markClosing" => CloseReady(c), s = "markGC" => GCReady(c)
        PROVE  WorkInv'
  <2>1. MaySave(c, s, Blank)
    BY <1>goto, <1>blank, <1>state DEF MaySave, States
  <2> QED
    BY <1>goto, <1>at, <1>blank, <2>1 DEF GoTo
<1>finish. ASSUME NEW c \in Commitments, Finish(c) PROVE WorkInv'
  <2>1. work' = [work EXCEPT ![c] = [step |-> "idle", record |-> Blank, save |-> Blank]]
    BY <1>finish DEF Finish, Idle
  <2> QED
    BY <2>1, <1>blank, <1>set DEF Steps
<1>may. \A c \in Commitments : MayReach(c, com[c].state)
  BY DEF VaultInv
<1>1. ASSUME NEW c \in Commitments, Poll(c) PROVE WorkInv'
  <2>1. /\ com[c].state \in {StateReadyToOpen, StateOpen, StateClosed}
        /\ work' = [work EXCEPT ![c] = [step |-> "repay", record |-> com[c], save |-> Blank]]
    BY <1>1 DEF Poll
  <2>2. com[c].state = StateReadyToOpen /\ com[c].repaid => NextLeafIsOld(c)
    BY RepaidIsOld DEF RepaidIsReal
  <2>3. com[c].state = StateOpen => Finalized("open", c)
    BY <1>may DEF MayReach
  <2>4. com[c].state = StateClosed =>
            /\ Finalized("close", c)
            /\ com[c].div = NoVault => ful[<<"temporary", c>>] = "Confirmed"
    BY <1>may DEF MayReach, CloseReady
  <2>5. MayDecide(c, com[c])
    BY <1>state, <2>1, <2>2, <2>3, <2>4 DEF MayDecide, States
  <2> QED
    BY <1>set, <1>records, <1>blank, <2>1, <2>5 DEF Steps
<1>2. ASSUME NEW c \in Commitments, CheckRepaid(c) PROVE WorkInv'
  <2>1. CASE GoTo(c, "decide")
    BY <2>1, <1>goto DEF Steps
  <2>2. CASE /\ At(c, "saveRepaid", [com[c] EXCEPT !.repaid = TRUE])
             /\ RepaymentPlayedOut(work[c].record)
    <3> DEFINE new == [com[c] EXCEPT !.repaid = TRUE]
    <3>1. new \in Records /\ new.state = com[c].state /\ new.div = com[c].div
      <4>1. com[c] \in Records
        OBVIOUS
      <4> QED
        BY <4>1 DEF Records
    <3>2. Returned(c)
      BY <2>2, RepaidMeansReturned
    <3> HIDE DEF new
    <3>3. MaySave(c, "saveRepaid", new)
      BY <1>state, <3>1, <3>2 DEF MaySave, States
    <3> QED
      BY <1>at, <2>2, <3>1, <3>3 DEF new, Steps
  <2> QED
    BY <1>2, <2>1, <2>2 DEF CheckRepaid
<1>3. ASSUME NEW c \in Commitments, HandleReadyToOpen(c) PROVE WorkInv'
  <2>1. CASE Finish(c) \/ GoTo(c, "markOpening")
    BY <2>1, <1>goto, <1>finish DEF Steps
  <2>2. CASE work[c].record.repaid /\ ~ShouldOpen(c) /\ GoTo(c, "markGC")
    <3>1. NextLeafIsOld(c)
      BY <1>3, <2>2, <1>inv DEF HandleReadyToOpen, MayDecide
    <3>2. GCReady(c)
      BY <2>2, <3>1 DEF ShouldOpen, GCReady
    <3> QED
      BY <2>2, <3>2, <1>goto DEF Steps
  <2> QED
    BY <1>3, <2>1, <2>2 DEF HandleReadyToOpen, Inject, MaybeGC
<1>4. ASSUME NEW c \in Commitments, HandleOpen(c) PROVE WorkInv'
  <2>1. CASE Finish(c)
    BY <2>1, <1>finish
  <2>2. CASE ShouldClose(c) /\ GoTo(c, "markClosing")
    <3>1. Finalized("open", c)
      BY <1>4, <1>inv DEF HandleOpen, MayDecide
    <3>2. NextLeafIsOld(c)
      BY <2>2 DEF ShouldClose
    <3>3. ASSUME NEW d \in Commitments, com[d].div = c PROVE ful[<<"permanent", d>>] = "Confirmed"
      <4>1. ful[<<"permanent", d>>] \in FulStates
        BY <1>fuls, <1>kinds
      <4>2. ful[<<"permanent", d>>] \notin Scheduable \cup {"Failed"}
        BY <2>2, <3>3 DEF ShouldClose, DivertedConfirmed
      <4>3. ful[<<"permanent", d>>] \notin {"None", "Revoked"}
        BY <3>3, Vaults DEF SavedInv
      <4> QED
        BY <4>1, <4>2, <4>3 DEF FulStates, Scheduable
    <3>4. com[c].div = NoVault => ful[<<"temporary", c>>] = "Confirmed"
      BY <2>2, <1>inv DEF ShouldClose, MayDecide
    <3>5. CloseReady(c)
      BY <3>1, <3>2, <3>3, <3>4 DEF CloseReady
    <3> QED
      BY <2>2, <3>5, <1>goto DEF Steps
  <2> QED
    BY <1>4, <2>1, <2>2 DEF HandleOpen
<1>5. ASSUME NEW c \in Commitments, HandleClosed(c) PROVE WorkInv'
  <2>1. CASE Finish(c)
    BY <2>1, <1>finish
  <2>2. CASE GoTo(c, "markGC")
    <3>1. StateClosed <= com[c].state
      BY <1>5, <1>inv DEF HandleClosed, MayDecide
    <3>2. com[c].state \in {StateClosed, StateReadyToRemoveFromMerkleTree}
      BY <1>state, <3>1 DEF States
    <3>3. GCReady(c)
      BY <1>may, <3>2 DEF MayReach, GCReady, CloseReady
    <3> QED
      BY <2>2, <3>3, <1>goto DEF Steps
  <2> QED
    BY <1>5, <2>1, <2>2 DEF HandleClosed, MaybeGC
<1>6. ASSUME NEW c \in Commitments, Mark(c) PROVE WorkInv'
  <2> DEFINE to == MarkTo[work[c].step]
             new == [com[c] EXCEPT !.state = to]
  <2>1. CASE Finish(c)
    BY <2>1, <1>finish
  <2>2. CASE work[c].step \in DOMAIN MarkTo /\ At(c, "save", new)
    <3>1. \/ work[c].step = "markOpening" /\ to = StateOpening
          \/ work[c].step = "markClosing" /\ to = StateClosing
          \/ work[c].step = "markGC" /\ to = StateReadyToRemoveFromMerkleTree
      BY <2>2 DEF MarkTo
    <3>2. to \in States
      BY <3>1 DEF States
    <3> HIDE DEF to
    <3>3. new \in Records /\ new.state = to /\ new.repaid = com[c].repaid /\ new.div = com[c].div
      <4>1. com[c] \in Records
        OBVIOUS
      <4> QED
        BY <3>2, <4>1 DEF Records
    <3> HIDE DEF new
    <3>4. MayReach(c, to)
      BY <3>1, <1>inv DEF MaySave, MayReach, CloseReady
    <3>5. MaySave(c, "save", new)
      BY <3>3, <3>4 DEF MaySave, RepaidIsReal
    <3> QED
      BY <1>at, <2>2, <3>3, <3>5 DEF new, to, Steps
  <2> QED
    BY <1>6, <2>1, <2>2 DEF Mark
<1>7. ASSUME NEW c \in Commitments, Save(c) PROVE WorkInv'
  BY <1>7, <1>goto, <1>finish DEF Save, Steps
<1>8. ASSUME NEW c \in Commitments, Worker(c) PROVE WorkInv'
  BY <1>8, <1>1, <1>2, <1>3, <1>4, <1>5, <1>6, <1>7 DEF Worker
<1>9. CASE Crash
  <2>1. \A c \in Commitments : work'[c] = [step |-> "idle", record |-> Blank, save |-> Blank]
    BY <1>9 DEF Crash, Idle
  <2>2. ASSUME NEW c \in Commitments PROVE Justified(c)'
    <3>1. MayDecide(c, Blank)' /\ MaySave(c, "idle", Blank)'
      BY <1>blank, <1>decide, <1>save DEF Steps
    <3> QED
      BY <2>1, <3>1 DEF Justified, MayDecide, MaySave
  <2> QED
    BY <2>2 DEF Justified, WorkInv
<1>10. ASSUME NEW c \in Commitments, Sequencer(c) \/ Upgrade(c) PROVE WorkInv'
  <2>1. work' = work
    BY <1>10 DEF Sequencer, CheckFunds, Reserve, RevokeTemporary, Decide, MarkPending, OnSuccess,
                 MarkConfirmed, MarkFailed, Upgrade, StartUpgrade, ReadForUpgrade, CommitUpgrade,
                 AbortUpgrade
  <2> QED
    BY <2>1, <1>same
<1>11. CASE Environment \/ UNCHANGED vars
  <2>1. work' = work
    BY <1>11 DEF Environment, RequestRecentRoot, SaveRecentRoot, SyncLeaf, LeafAges,
                 SubmitPayment, DeadlinePasses, Land, FailOnChain, vars
  <2> QED
    BY <2>1, <1>same
<1> QED
  BY <1>8, <1>9, <1>10, <1>11 DEF Next

\* A payment is only called repaid when its money is back.
LEMMA RepaidStep ==
    ASSUME RecordInv, TreeInv, FulInv, SavedInv, WorkInv, RepaidIsReal,
           OldStays, FulSteps, ComSteps
    PROVE  RepaidIsReal'
<1> SUFFICES ASSUME NEW c \in Commitments, com'[c].repaid PROVE Returned(c)'
  BY DEF RepaidIsReal
<1>1. com[c].repaid \/ work[c].save.repaid
  BY DEF ComSteps, ComStepOf
<1>2. Returned(c)
  BY <1>1 DEF RepaidIsReal, WorkInv, MaySave
<1> QED
  BY <1>2, Stays

\* Everything that is known of the way of the money.
FlowInv ==
    /\ RecordInv
    /\ FulInv
    /\ SavedInv
    /\ TreeInv
    /\ DraftInv
    /\ VaultInv
    /\ WorkInv
    /\ RepaidIsReal

\* It holds at first: the advances of Paid were executed, and nothing else was.
LEMMA FlowInit == Init => FlowInv
<1> SUFFICES ASSUME Init PROVE FlowInv
  OBVIOUS
<1> DEFINE paid == Range(Paid)
<1>record. RecordInv
  BY RecordInit
<1>paid. paid \subseteq Commitments /\ \A i \in 1 .. Len(Paid) : Paid[i] \in paid
  BY Vaults DEF Range
<1>init. /\ saved = paid /\ reserving = {} /\ decided = {} /\ succeeded = {} /\ ledger = Paid
         /\ \A c \in Commitments : /\ com[c] = IF c \in paid THEN Repayable ELSE Blank
                                   /\ target[c] = NoVault /\ draft[c] = Blank /\ work[c] = Idle
  BY DEF Init
<1>blank. /\ Blank.state = 0 /\ Blank.repaid = FALSE /\ Blank.div = NoVault
          /\ Repayable.state = 2 /\ Repayable.repaid = FALSE /\ Repayable.div = NoVault
          /\ Idle.step = "idle" /\ Idle.record = Blank /\ Idle.save = Blank
  BY DEF Blank, Repayable, Idle
<1>com. \A c \in Commitments : /\ com[c].state \in {0, 2} /\ ~com[c].repaid /\ com[c].div = NoVault
                               /\ c \notin paid => com[c].state = 0
                               /\ c \in paid => com[c].state = 2
  BY <1>init, <1>blank
<1>ful. \A k \in Kinds : \A c \in Commitments :
            /\ ful[<<k, c>>] = IF c \notin paid THEN "None"
                               ELSE IF k = "temporary" THEN "Unknown"
                               ELSE IF k = "advance" THEN "Confirmed" ELSE "None"
            /\ outcome[<<k, c>>] = IF k = "advance" /\ c \in paid THEN "finalized" ELSE "none"
  <2> TAKE k \in Kinds
  <2> TAKE c \in Commitments
  <2>1. <<k, c>> \in Fuls
    BY DEF Fuls
  <2>2. \A s \in {"temporary", "advance"} : <<k, c>> \in {s} \X paid <=> k = s /\ c \in paid
    OBVIOUS
  <2>3. /\ ful[<<k, c>>] = CASE <<k, c>> \in {"temporary"} \X paid -> "Unknown"
                              [] <<k, c>> \in {"advance"} \X paid -> "Confirmed"
                              [] OTHER -> "None"
        /\ outcome[<<k, c>>] = IF <<k, c>> \in {"advance"} \X paid THEN "finalized" ELSE "none"
    BY <2>1 DEF Init
  <2> HIDE DEF paid
  <2>4. ful[<<k, c>>] = IF c \notin paid THEN "None"
                        ELSE IF k = "temporary" THEN "Unknown"
                        ELSE IF k = "advance" THEN "Confirmed" ELSE "None"
    <3>1. CASE c \notin paid
      BY <2>2, <2>3, <3>1
    <3>2. CASE c \in paid /\ k = "temporary"
      BY <2>2, <2>3, <3>2
    <3>3. CASE c \in paid /\ k = "advance"
      BY <2>2, <2>3, <3>3
    <3>4. CASE k \notin {"temporary", "advance"}
      BY <2>2, <2>3, <3>4
    <3> QED
      BY <3>1, <3>2, <3>3, <3>4
  <2> QED
    BY <2>2, <2>3, <2>4
<1>kinds. {"advance", "temporary", "permanent", "open", "close"} \subseteq Kinds
  BY DEF Kinds
<1> HIDE DEF paid
<1>1. FulInv
  <2> SUFFICES ASSUME NEW k \in Kinds, NEW c \in Commitments
               PROVE  /\ ful[<<k, c>>] = "Confirmed" => outcome[<<k, c>>] = "finalized"
                      /\ outcome[<<k, c>>] # "none" => ful[<<k, c>>] \in Begun
    BY <1>init DEF FulInv, Fuls
  <2> QED
    BY <1>ful DEF Begun
<1>2. SavedInv
  BY <1>init, <1>com, <1>ful, <1>kinds DEF SavedInv
<1>3. TreeInv
  <2>1. \A i, j \in 1 .. Len(ledger) : ledger[i] = ledger[j] => i = j
    BY <1>init, Vaults
  <2>2. \A i \in 1 .. Len(ledger) : Finalized("advance", ledger[i])
    BY <1>init, <1>paid, <1>ful, <1>kinds DEF Finalized
  <2> QED
    BY <1>init, <1>com, <2>1, <2>2 DEF TreeInv
<1>4. DraftInv
  BY <1>init, <1>blank, <1>com DEF DraftInv
<1>5. VaultInv
  <2> SUFFICES ASSUME NEW c \in Commitments
               PROVE  /\ MayReach(c, com[c].state)
                      /\ ful[<<"advance", c>>] \in Begun => com[c].state # StateUnknown
                      /\ ful[<<"close", c>>] \notin Begun
                      /\ ful[<<"temporary", c>>] # "Pending"
                      /\ ful[<<"permanent", c>>] # "Pending"
    BY <1>init DEF VaultInv
  <2> QED
    BY <1>com, <1>ful, <1>kinds DEF MayReach, Begun
<1>6. WorkInv
  BY <1>init, <1>blank, <1>com DEF WorkInv, MayDecide, MaySave
<1>7. RepaidIsReal
  BY <1>com DEF RepaidIsReal
<1> QED
  BY <1>record, <1>1, <1>2, <1>3, <1>4, <1>5, <1>6, <1>7 DEF FlowInv

\* It is inductive.
LEMMA FlowStep == FlowInv /\ [Next]_vars => FlowInv'
<1> SUFFICES ASSUME FlowInv, [Next]_vars PROVE FlowInv'
  OBVIOUS
<1> USE DEF FlowInv
<1>1. FulInv' /\ FulSteps
  BY FulStep DEF RecordInv
<1>2. ComSteps
  BY ComStep
<1>3. RecordInv'
  BY RecordStep
<1>4. TreeInv' /\ OldStays
  BY <1>1, <1>2, TreeStep
<1>5. SavedInv'
  BY <1>1, <1>2, SavedStep
<1>6. DraftInv'
  BY <1>2, DraftStep
<1>7. VaultInv'
  BY <1>1, <1>2, <1>3, <1>4, VaultStep
<1>8. WorkInv'
  BY <1>1, <1>2, <1>3, <1>4, WorkStep
<1>9. RepaidIsReal'
  BY <1>1, <1>2, <1>4, RepaidStep
<1> QED
  BY <1>1, <1>3, <1>4, <1>5, <1>6, <1>7, <1>8, <1>9

LEMMA FlowInvariance == Spec => []FlowInv
<1>1. Init => FlowInv
  BY FlowInit
<1>2. FlowInv /\ [Next]_vars => FlowInv'
  BY FlowStep
<1> QED
  BY <1>1, <1>2, PTL DEF Spec

\* TreasuryRepaid is only set on a payment whose money is back: one of its two
\* transfers executed, and the vault it went to was closed after it, whatever
\* copies of the records maybeMarkTreasuryAsRepaid looked at.
THEOREM RepaidReal == Spec => []RepaidIsReal
<1>1. FlowInv => RepaidIsReal
  BY DEF FlowInv
<1> QED
  BY <1>1, FlowInvariance, PTL

\* A vault is not closed under a transfer that is on its way to it, although the
\* close is scheduled from another commitment than the transfer.
THEOREM TransferArrives == Spec => []TransferHasVault
<1>1. FlowInv => TransferHasVault
  <2> SUFFICES ASSUME FlowInv, NEW c \in Commitments,
                      outcome[<<"temporary", c>>] = "none", outcome[<<"permanent", c>>] = "none"
               PROVE  /\ ful[<<"temporary", c>>] = "Pending" => VaultExists(c)
                      /\ ful[<<"permanent", c>>] = "Pending" => VaultExists(com[c].div)
    BY DEF TransferHasVault
  <2> USE DEF FlowInv
  <2>fuls. \A d \in Commitments : \A k \in Kinds : <<k, d>> \in Fuls
    BY DEF Fuls
  <2>kinds. {"advance", "temporary", "permanent", "open", "close"} \subseteq Kinds
    BY DEF Kinds
  <2>1. ASSUME ful[<<"temporary", c>>] = "Pending" PROVE VaultExists(c)
    <3>1. Finalized("open", c)
      BY <2>1 DEF VaultInv
    <3>2. ASSUME Finalized("close", c) PROVE FALSE
      <4>1. ful[<<"close", c>>] \in Begun
        BY <3>2, <2>fuls, <2>kinds DEF FulInv, Finalized
      <4> QED
        BY <2>1, <4>1 DEF VaultInv, Scheduable
    <3> QED
      BY <3>1, <3>2 DEF VaultExists, Finalized
  <2>2. ASSUME ful[<<"permanent", c>>] = "Pending" PROVE VaultExists(com[c].div)
    <3>1. com[c].div # NoVault /\ Finalized("open", com[c].div)
      BY <2>2 DEF VaultInv
    <3>2. com[c].div \in Commitments
      BY <3>1 DEF RecordInv, TypeOK, Records
    <3>3. ASSUME Finalized("close", com[c].div) PROVE FALSE
      <4>1. ful[<<"permanent", c>>] = "Confirmed"
        BY <3>2, <3>3, ClosedWasClosing, Closing
      <4> QED
        BY <2>2, <4>1
    <3> QED
      BY <3>1, <3>3 DEF VaultExists, Finalized
  <2> QED
    BY <2>1, <2>2
<1> QED
  BY <1>1, FlowInvariance, PTL

\* The ten minutes of shouldCloseCommitmentVault are enough: what is diverted to
\* a vault that is closing, closed or collected arrived before.
THEOREM DivertedInTime == Spec => []NothingDivertedToClosing
<1>1. FlowInv => NothingDivertedToClosing
  <2> SUFFICES ASSUME FlowInv, NEW c \in Commitments,
                      com[c].div # NoVault, com[com[c].div].state >= StateClosing
               PROVE  ful[<<"permanent", c>>] = "Confirmed"
    BY DEF NothingDivertedToClosing
  <2>1. com[c].div \in Commitments
    BY DEF FlowInv, RecordInv, TypeOK, Records
  <2> QED
    BY <2>1, Closing DEF FlowInv
<1> QED
  BY <1>1, FlowInvariance, PTL

\* What the treasury paid or may still pay, and has not got back, belongs to a
\* commitment that is saved, past StateUnknown and not repaid.
LEMMA FlowCovers ==
    ASSUME FlowInv, NEW c \in Commitments, Advanced(c), ~Returned(c)
    PROVE  c \in saved /\ com[c].state # StateUnknown /\ ~com[c].repaid
<1>1. <<"advance", c>> \in Fuls
  BY DEF Fuls, Kinds
<1>2. ful[<<"advance", c>>] \in Begun
  BY <1>1 DEF FlowInv, FulInv, Advanced, Begun
<1>3. com[c].state # StateUnknown
  BY <1>2 DEF FlowInv, VaultInv
<1>4. c \in saved
  BY <1>3 DEF FlowInv, SavedInv
<1> QED
  BY <1>3, <1>4 DEF FlowInv, RepaidIsReal

\* GetUsedTreasuryPoolDeficit counts every advance that is out.
THEOREM DeficitCovers ==
    Spec => [](\A c \in Commitments :
                  Advanced(c) /\ ~Returned(c) =>
                      c \in saved /\ com[c].state # StateUnknown /\ ~com[c].repaid)
<1> DEFINE Covered == \A c \in Commitments :
                         Advanced(c) /\ ~Returned(c) =>
                             c \in saved /\ com[c].state # StateUnknown /\ ~com[c].repaid
<1>1. FlowInv => Covered
  BY FlowCovers
<1> QED
  BY <1>1, FlowInvariance, PTL

(***************************************************************************)
(* Sums.  Total is a fold over a set: what it adds up to is shown by       *)
(* looking at a smallest set it is wrong about.                            *)
(***************************************************************************)

\* Of some finite sets one has no other below it.
LEMMA SmallestSet ==
    ASSUME NEW S, IsFiniteSet(S), NEW B \in SUBSET (SUBSET S), B # {}
    PROVE  \E T \in B : \A U \in B : U \subseteq T => U = T
<1>1. IsWellFoundedOn(StrictSubsetOrdering(S), SUBSET S)
  BY FS_StrictSubsetOrderingWellFounded, FS_FiniteSubsetsOfFinite
<1>2. PICK T \in B : \A U \in B : <<U, T>> \notin StrictSubsetOrdering(S)
  BY <1>1, WFMin
<1>3. \A U \in B : U \in SUBSET S /\ T \in SUBSET S
  OBVIOUS
<1>4. \A U \in B : U \subseteq T => U = T
  BY <1>2, <1>3 DEF StrictSubsetOrdering
<1> QED
  BY <1>4

\* The element the fold takes first.
Pick(s) == CHOOSE x \in s : TRUE

\* g sums up the subsets of S.
IsSum(S, g) == g = [s \in SUBSET S |-> IF s = {} THEN 0
                                       ELSE Amount[Pick(s)] + g[s \ {Pick(s)}]]

\* The sum over S is what a function that sums up its subsets says of it.
LEMMA TotalDef == \A S : Total(S) = (CHOOSE g : IsSum(S, g))[S]
BY DEF Total, MapThenSumSet, MapThenFoldSet, IsSum, Pick

LEMMA PickIn == \A S : S # {} => Pick(S) \in S
BY DEF Pick

\* What a sum is at a set.
LEMMA SumAt ==
    ASSUME NEW S, NEW g, IsSum(S, g), NEW s \in SUBSET S
    PROVE  /\ s = {} => g[s] = 0
           /\ s # {} => g[s] = Amount[Pick(s)] + g[s \ {Pick(s)}]
<1>1. g = [t \in SUBSET S |-> IF t = {} THEN 0 ELSE Amount[Pick(t)] + g[t \ {Pick(t)}]]
  BY DEF IsSum
<1>2. g[s] = IF s = {} THEN 0 ELSE Amount[Pick(s)] + g[s \ {Pick(s)}]
  BY <1>1
<1> QED
  BY <1>2

\* Two functions that sum up sets agree on those they both know.
LEMMA SumUnique ==
    ASSUME NEW S, NEW T, IsFiniteSet(T), T \subseteq S,
           NEW g, NEW h, IsSum(S, g), IsSum(T, h)
    PROVE  \A s \in SUBSET T : g[s] = h[s]
<1> DEFINE B == {s \in SUBSET T : g[s] # h[s]}
<1> SUFFICES ASSUME B # {} PROVE FALSE
  OBVIOUS
<1>sub. B \in SUBSET (SUBSET T)
  OBVIOUS
<1>1. PICK s \in B : \A u \in B : u \subseteq s => u = s
  <2> HIDE DEF B
  <2> QED
    BY <1>sub, SmallestSet
<1>2. s \in SUBSET T /\ s \in SUBSET S /\ g[s] # h[s]
  OBVIOUS
<1>3. CASE s = {}
  BY <1>2, <1>3, SumAt
<1>4. CASE s # {}
  <2> DEFINE u == s \ {Pick(s)}
  <2>1. Pick(s) \in s
    BY <1>4, PickIn
  <2>2. u \in SUBSET T /\ u \subseteq s /\ u # s
    BY <1>2, <2>1
  <2>3. g[u] = h[u]
    BY <1>1, <2>2
  <2>4. g[s] = Amount[Pick(s)] + g[u] /\ h[s] = Amount[Pick(s)] + h[u]
    BY <1>2, <1>4, SumAt
  <2> QED
    BY <1>2, <2>3, <2>4
<1> QED
  BY <1>3, <1>4

\* A function that sums up the subsets of T does so for what is below.
LEMMA SumBelow ==
    ASSUME NEW S, NEW T, T \subseteq S, NEW g, IsSum(S, g)
    PROVE  IsSum(T, [s \in SUBSET T |-> g[s]])
<1> DEFINE h == [s \in SUBSET T |-> g[s]]
<1>1. ASSUME NEW s \in SUBSET T
      PROVE  h[s] = IF s = {} THEN 0 ELSE Amount[Pick(s)] + h[s \ {Pick(s)}]
  <2>1. h[s] = g[s] /\ h[s \ {Pick(s)}] = g[s \ {Pick(s)}] /\ s \in SUBSET S
    OBVIOUS
  <2> HIDE DEF h
  <2> QED
    BY <2>1, SumAt
<1>2. h = [s \in SUBSET T |-> h[s]]
  OBVIOUS
<1> HIDE DEF h
<1>3. h = [s \in SUBSET T |-> IF s = {} THEN 0 ELSE Amount[Pick(s)] + h[s \ {Pick(s)}]]
  BY <1>1, <1>2
<1> QED
  BY <1>3 DEF IsSum, h

\* There is a function that sums up the subsets of a finite set.
LEMMA SumExists ==
    ASSUME NEW S, IsFiniteSet(S)
    PROVE  \E g : IsSum(S, g)
<1> DEFINE B == {T \in SUBSET S : ~ \E g : IsSum(T, g)}
<1> SUFFICES ASSUME B # {} PROVE FALSE
  OBVIOUS
<1>sub. B \in SUBSET (SUBSET S)
  OBVIOUS
<1>1. PICK T \in B : \A U \in B : U \subseteq T => U = T
  <2> HIDE DEF B
  <2> QED
    BY <1>sub, SmallestSet
<1>2. T \in SUBSET S /\ ~ \E g : IsSum(T, g)
  OBVIOUS
<1>3. \A U \in SUBSET T : U # T => \E g : IsSum(U, g)
  BY <1>1, <1>2
<1> HIDE DEF B
<1>fin. \A U \in SUBSET T : IsFiniteSet(U)
  BY <1>2, FS_Subset
<1>total. \A U \in SUBSET T : U # T => IsSum(U, CHOOSE g : IsSum(U, g))
  BY <1>3
\* Below T, the sum of a set is its first element and the sum of the rest.
<1>4. ASSUME NEW u \in SUBSET T, u # T
      PROVE  Total(u) = IF u = {} THEN 0 ELSE Amount[Pick(u)] + Total(u \ {Pick(u)})
  <2> DEFINE g == CHOOSE g : IsSum(u, g)
             v == u \ {Pick(u)}
             h == CHOOSE h : IsSum(v, h)
  <2>1. IsSum(u, g) /\ Total(u) = g[u]
    BY <1>4, <1>total, TotalDef
  <2>2. CASE u = {}
    BY <2>1, <2>2, SumAt
  <2>3. CASE u # {}
    <3>1. v \in SUBSET T /\ v \subseteq u /\ v # T
      BY <1>4
    <3>2. IsSum(v, h) /\ Total(v) = h[v]
      BY <3>1, <1>total, TotalDef
    <3>3. IsFiniteSet(v)
      BY <3>1, <1>fin
    <3> HIDE DEF g, h
    <3>4. g[u] = Amount[Pick(u)] + g[v]
      BY <2>1, <2>3, SumAt
    <3>5. g[v] = h[v]
      <4> HIDE DEF v
      <4>1. \A s \in SUBSET v : g[s] = h[s]
        BY ONLY <2>1, <3>1, <3>2, <3>3, SumUnique
      <4> QED
        BY ONLY <4>1
    <3> QED
      BY <2>1, <2>3, <3>2, <3>4, <3>5
  <2> QED
    BY <2>2, <2>3
<1> DEFINE f == [s \in SUBSET T |-> IF s = {} THEN 0 ELSE Amount[Pick(s)] + Total(s \ {Pick(s)})]
<1>5. ASSUME NEW s \in SUBSET T
      PROVE  f[s] = IF s = {} THEN 0 ELSE Amount[Pick(s)] + f[s \ {Pick(s)}]
  <2>1. CASE s = {}
    BY <2>1
  <2>2. CASE s # {}
    <3> DEFINE u == s \ {Pick(s)}
    <3>1. u \in SUBSET T /\ u # T
      BY <2>2, PickIn
    <3>2. f[u] = IF u = {} THEN 0 ELSE Amount[Pick(u)] + Total(u \ {Pick(u)})
      BY <3>1
    <3>3. f[u] = Total(u)
      BY <3>1, <3>2, <1>4
    <3>4. f[s] = Amount[Pick(s)] + Total(u)
      BY <2>2
    <3> QED
      BY <2>2, <3>3, <3>4
  <2> QED
    BY <2>1, <2>2
<1>6. f = [s \in SUBSET T |-> f[s]]
  OBVIOUS
<1> HIDE DEF f
<1>7. f = [s \in SUBSET T |-> IF s = {} THEN 0 ELSE Amount[Pick(s)] + f[s \ {Pick(s)}]]
  BY <1>5, <1>6
<1> QED
  BY <1>2, <1>7 DEF IsSum

\* The sum of a finite set is its first element and the sum of the rest.
LEMMA TotalAt ==
    ASSUME NEW S, IsFiniteSet(S)
    PROVE  /\ S = {} => Total(S) = 0
           /\ S # {} => Total(S) = Amount[Pick(S)] + Total(S \ {Pick(S)})
<1> DEFINE g == CHOOSE g : IsSum(S, g)
           v == S \ {Pick(S)}
           h == CHOOSE h : IsSum(v, h)
<1>1. IsSum(S, g) /\ Total(S) = g[S]
  BY SumExists, TotalDef
<1>2. IsFiniteSet(v)
  BY FS_Subset
<1>3. IsSum(v, h) /\ Total(v) = h[v]
  BY <1>2, SumExists, TotalDef
<1> HIDE DEF g, h
<1>4. g[v] = h[v]
  BY <1>1, <1>2, <1>3, SumUnique
<1> QED
  BY <1>1, <1>3, <1>4, SumAt

\* Sums of amounts are naturals.
LEMMA TotalType ==
    ASSUME NEW S \in SUBSET Commitments, IsFiniteSet(S)
    PROVE  Total(S) \in Nat
<1> DEFINE B == {T \in SUBSET S : Total(T) \notin Nat}
<1> SUFFICES ASSUME B # {} PROVE FALSE
  OBVIOUS
<1>sub. B \in SUBSET (SUBSET S)
  OBVIOUS
<1>1. PICK T \in B : \A U \in B : U \subseteq T => U = T
  <2> HIDE DEF B
  <2> QED
    BY <1>sub, SmallestSet
<1>2. T \in SUBSET S /\ Total(T) \notin Nat
  OBVIOUS
<1>3. IsFiniteSet(T)
  BY <1>2, FS_Subset
<1>4. CASE T = {}
  <2>1. Total(T) = 0
    BY <1>3, <1>4, TotalAt
  <2> QED
    BY <1>2, <2>1
<1>5. CASE T # {}
  <2> DEFINE U == T \ {Pick(T)}
  <2>1. Pick(T) \in T
    BY <1>5, PickIn
  <2>2. U \in SUBSET S /\ U \subseteq T /\ U # T
    BY <1>2, <2>1
  <2>3. Total(U) \in Nat
    BY <1>1, <2>2
  <2>4. Amount[Pick(T)] \in Nat
    BY <1>2, <2>1, Amounts
  <2> QED
    BY <1>2, <1>3, <1>5, <2>3, <2>4, TotalAt
<1> QED
  BY <1>4, <1>5

\* Any element can be taken out of a sum.
LEMMA TotalRemove ==
    ASSUME NEW S \in SUBSET Commitments, IsFiniteSet(S), NEW x \in S
    PROVE  Total(S) = Amount[x] + Total(S \ {x})
<1> DEFINE B == {T \in SUBSET S : \E y \in T : Total(T) # Amount[y] + Total(T \ {y})}
<1> SUFFICES ASSUME B # {} PROVE FALSE
  <2>1. S \notin B
    OBVIOUS
  <2> QED
    BY <2>1
<1>sub. B \in SUBSET (SUBSET S)
  OBVIOUS
<1>1. PICK T \in B : \A U \in B : U \subseteq T => U = T
  <2> HIDE DEF B
  <2> QED
    BY <1>sub, SmallestSet
<1>2. T \in SUBSET S
  OBVIOUS
<1>3. PICK y \in T : Total(T) # Amount[y] + Total(T \ {y})
  OBVIOUS
<1> DEFINE p == Pick(T)
<1>4. p \in T
  BY <1>3, PickIn
<1>below. ASSUME NEW U \in SUBSET T, U # T, NEW z \in U
          PROVE  Total(U) = Amount[z] + Total(U \ {z})
  BY <1>1, <1>2, <1>below
<1> HIDE DEF p, B
<1>fin. \A U \in SUBSET T : IsFiniteSet(U) /\ U \in SUBSET Commitments
  BY <1>2, FS_Subset
<1>type. \A U \in SUBSET T : Total(U) \in Nat
  BY <1>fin, TotalType
<1>amount. Amount[p] \in Nat /\ Amount[y] \in Nat
  BY <1>2, <1>3, <1>4, Amounts
<1>5. Total(T) = Amount[p] + Total(T \ {p})
  BY <1>3, <1>fin, TotalAt DEF p
<1>6. p # y
  BY <1>3, <1>5
<1>7. Total(T \ {p}) = Amount[y] + Total((T \ {p}) \ {y})
  BY <1>3, <1>4, <1>6, <1>below
<1>8. Total(T \ {y}) = Amount[p] + Total((T \ {y}) \ {p})
  BY <1>3, <1>4, <1>6, <1>below
<1>9. (T \ {p}) \ {y} = (T \ {y}) \ {p}
  OBVIOUS
<1> DEFINE rest == Total((T \ {y}) \ {p})
<1>10. rest \in Nat
  BY <1>type
<1> QED
  BY <1>3, <1>5, <1>7, <1>8, <1>9, <1>10, <1>amount

\* A part of a set sums up to less.
LEMMA TotalPart ==
    ASSUME NEW S \in SUBSET Commitments, IsFiniteSet(S), NEW T \in SUBSET S
    PROVE  Total(T) <= Total(S)
<1> DEFINE B == {U \in SUBSET S : T \subseteq U /\ ~(Total(T) <= Total(U))}
<1> SUFFICES ASSUME B # {} PROVE FALSE
  <2>1. S \notin B
    OBVIOUS
  <2> QED
    BY <2>1
<1>sub. B \in SUBSET (SUBSET S)
  OBVIOUS
<1>1. PICK U \in B : \A V \in B : V \subseteq U => V = U
  <2> HIDE DEF B
  <2> QED
    BY <1>sub, SmallestSet
<1>2. U \in SUBSET S /\ T \subseteq U /\ ~(Total(T) <= Total(U))
  OBVIOUS
<1>fin. \A V \in SUBSET U : IsFiniteSet(V) /\ V \in SUBSET Commitments
  BY <1>2, FS_Subset
<1>type. \A V \in SUBSET U : Total(V) \in Nat
  BY <1>fin, TotalType
<1>3. T # U
  BY <1>2, <1>type
<1>4. PICK x \in U : x \notin T
  BY <1>2, <1>3
<1> DEFINE V == U \ {x}
<1>5. V \in SUBSET S /\ T \subseteq V /\ V \subseteq U /\ V # U
  BY <1>2, <1>4
<1>6. Total(T) <= Total(V)
  BY <1>1, <1>5
<1>7. Total(U) = Amount[x] + Total(V)
  BY <1>4, <1>fin, TotalRemove
<1>8. Amount[x] \in Nat
  BY <1>2, <1>4, Amounts
<1>9. Total(T) \in Nat /\ Total(U) \in Nat /\ Total(V) \in Nat
  BY <1>2, <1>5, <1>type
<1> QED
  BY <1>2, <1>6, <1>7, <1>8, <1>9

(***************************************************************************)
(* The funds of the treasury.                                              *)
(***************************************************************************)

\* What the deficit counts, and the payment the lock is held for.
Counted == {c \in saved : com[c].state # StateUnknown /\ ~com[c].repaid}

FundsInv ==
    /\ IsFiniteSet(saved)
    /\ Total(Counted \cup reserving) <= Funds

\* What is counted only grows by the payment that holds the lock.
LEMMA CountedStep ==
    ASSUME RecordInv', SavedInv, ComSteps, saved' \subseteq Commitments
    PROVE  Counted' \subseteq Counted \cup reserving
<1> SUFFICES ASSUME NEW c \in saved', com'[c].state # StateUnknown, ~com'[c].repaid
             PROVE  c \in Counted \cup reserving
  BY DEF Counted
<1>1. c \in Commitments
  OBVIOUS
<1>2. ~com[c].repaid
  BY <1>1 DEF ComSteps, ComStepOf
<1>3. CASE com[c].state = StateUnknown
  BY <1>1, <1>3 DEF ComSteps, ComStepOf
<1>4. CASE com[c].state # StateUnknown
  <2>1. c \in saved
    BY <1>1, <1>4 DEF SavedInv
  <2> QED
    BY <1>2, <1>4, <2>1 DEF Counted
<1> QED
  BY <1>3, <1>4

\* The payments of Paid are finitely many, and were let through.
LEMMA FundsInit == Init => FundsInv
<1> SUFFICES ASSUME Init PROVE FundsInv
  OBVIOUS
<1> DEFINE paid == Range(Paid)
<1>1. saved = paid /\ reserving = {}
  BY DEF Init
<1>2. Paid \in Seq(Commitments) /\ Len(Paid) \in Nat
  BY Vaults
<1>3. IsFiniteSet(paid)
  <2>1. IsFiniteSet(1 .. Len(Paid))
    BY <1>2, FS_Interval
  <2>2. Paid \in Surjection(1 .. Len(Paid), paid)
    BY <1>2 DEF Range, Surjection
  <2> QED
    BY <2>1, <2>2, FS_Surjection
<1>4. paid \subseteq Commitments
  BY <1>2 DEF Range
<1>5. Counted \cup reserving \in SUBSET paid
  BY <1>1 DEF Counted
<1>6. Total(paid) <= Funds
  BY Funded
<1> HIDE DEF paid
<1>7. Total(Counted \cup reserving) <= Total(paid)
  BY <1>3, <1>4, <1>5, TotalPart
<1>8. IsFiniteSet(Counted \cup reserving) /\ Counted \cup reserving \in SUBSET Commitments
  BY <1>3, <1>4, <1>5, FS_Subset
<1>9. Total(Counted \cup reserving) \in Nat /\ Total(paid) \in Nat
  BY <1>3, <1>4, <1>8, TotalType
<1> QED
  BY <1>1, <1>3, <1>6, <1>7, <1>9, Amounts DEF FundsInv

\* One step alone saves new commitments, one alone takes the lock for a payment.
LEMMA FundsFrame ==
    /\ \A c \in Commitments : Sequencer(c) =>
          saved' = saved /\ (CheckFunds(c) \/ reserving' \subseteq reserving)
    /\ \A c \in Commitments : Worker(c) \/ Upgrade(c) =>
          saved' = saved /\ reserving' = reserving
    /\ \A c \in Commitments : SubmitPayment(c) \/ DeadlinePasses(c) =>
          (saved' = saved \/ SubmitPayment(c)) /\ reserving' = reserving
    /\ \A c \in Commitments, k \in Kinds : Land(k, c) \/ FailOnChain(k, c) =>
          saved' = saved /\ reserving' = reserving
    /\ RequestRecentRoot \/ SaveRecentRoot \/ SyncLeaf \/ LeafAges \/ Crash =>
          saved' = saved /\ reserving' \subseteq reserving
<1> USE DEF seqVars, WorkerUnchanged
<1>1. ASSUME NEW c \in Commitments, Sequencer(c)
      PROVE  saved' = saved /\ (CheckFunds(c) \/ reserving' \subseteq reserving)
  <2>1. CheckFunds(c) => saved' = saved
    BY DEF CheckFunds
  <2>2. Reserve(c) \/ RevokeTemporary(c) => saved' = saved /\ reserving' \subseteq reserving
    BY DEF Reserve, RevokeTemporary
  <2>3. ASSUME NEW k \in Kinds, Decide(k, c) \/ OnSuccess(k, c)
        PROVE  saved' = saved /\ reserving' \subseteq reserving
    <3>1. CASE Decide(k, c)
      BY <3>1 DEF Decide
    <3>2. CASE OnSuccess(k, c)
      BY <3>2 DEF OnSuccess
    <3> QED
      BY <2>3, <3>1, <3>2
  <2>4. ASSUME NEW k \in Kinds,
               MarkPending(<<k, c>>) \/ MarkConfirmed(<<k, c>>) \/ MarkFailed(<<k, c>>)
        PROVE  saved' = saved /\ reserving' \subseteq reserving
    BY <2>4 DEF MarkPending, MarkConfirmed, MarkFailed
  <2> QED
    BY <1>1, <2>1, <2>2, <2>3, <2>4 DEF Sequencer
<1>2. ASSUME NEW c \in Commitments, Worker(c) \/ Upgrade(c)
      PROVE  saved' = saved /\ reserving' = reserving
  <2>1. Poll(c) \/ CheckRepaid(c) => saved' = saved /\ reserving' = reserving
    BY DEF Poll, CheckRepaid
  <2>2. HandleReadyToOpen(c) => saved' = saved /\ reserving' = reserving
    BY DEF HandleReadyToOpen
  <2>3. HandleOpen(c) => saved' = saved /\ reserving' = reserving
    BY DEF HandleOpen
  <2>4. HandleClosed(c) => saved' = saved /\ reserving' = reserving
    BY DEF HandleClosed
  <2>5. Mark(c) \/ Save(c) => saved' = saved /\ reserving' = reserving
    BY DEF Mark, Save
  <2>6. Upgrade(c) => saved' = saved /\ reserving' = reserving
    BY DEF Upgrade, StartUpgrade, ReadForUpgrade, CommitUpgrade, AbortUpgrade
  <2> QED
    BY <1>2, <2>1, <2>2, <2>3, <2>4, <2>5, <2>6 DEF Worker
<1>3. \A c \in Commitments : SubmitPayment(c) \/ DeadlinePasses(c) =>
        (saved' = saved \/ SubmitPayment(c)) /\ reserving' = reserving
  BY DEF SubmitPayment, DeadlinePasses
<1>4. \A c \in Commitments, k \in Kinds : Land(k, c) \/ FailOnChain(k, c) =>
        saved' = saved /\ reserving' = reserving
  BY DEF Land, FailOnChain
<1>5. RequestRecentRoot \/ SaveRecentRoot \/ SyncLeaf \/ LeafAges \/ Crash =>
        saved' = saved /\ reserving' \subseteq reserving
  BY DEF RequestRecentRoot, SaveRecentRoot, SyncLeaf, LeafAges, Crash
<1> QED
  BY <1>1, <1>2, <1>3, <1>4, <1>5

\* No step counts more than there is.
LEMMA FundsStep ==
    ASSUME FlowInv, RecordInv', SavedInv', ComSteps, FundsInv, [Next]_vars
    PROVE  FundsInv'
<1> DEFINE used == Counted \cup reserving
<1>sets. /\ saved \subseteq Commitments /\ saved' \subseteq Commitments
         /\ reserving \subseteq saved /\ reserving' \subseteq saved'
  BY DEF FlowInv, RecordInv, TypeOK, SavedInv
<1>counted. Counted' \subseteq used
  BY <1>sets, CountedStep DEF FlowInv
<1>fin. IsFiniteSet(saved) /\ used \in SUBSET saved
  BY <1>sets DEF FundsInv, Counted
<1>used. IsFiniteSet(used) /\ used \in SUBSET Commitments /\ Total(used) <= Funds
  BY <1>sets, <1>fin, FS_Subset DEF FundsInv
<1>1. IsFiniteSet(saved')
  <2>1. saved' = saved \/ \E c \in Commitments : SubmitPayment(c)
    BY FundsFrame DEF Next, Environment, vars
  <2>2. \A c \in Commitments : SubmitPayment(c) => saved' = saved \cup {c}
    BY DEF SubmitPayment
  <2>3. saved' = saved \/ \E c \in Commitments : saved' = saved \cup {c}
    BY <2>1, <2>2
  <2> QED
    BY <2>3, <1>fin, FS_AddElement
<1> HIDE DEF used
<1>part. ASSUME NEW S \in SUBSET used PROVE Total(S) <= Funds
  <2>1. IsFiniteSet(S) /\ S \in SUBSET Commitments
    BY <1>used, FS_Subset
  <2>2. Total(S) \in Nat /\ Total(used) \in Nat
    BY <1>used, <2>1, TotalType
  <2>3. Total(S) <= Total(used)
    BY <1>used, TotalPart
  <2> QED
    BY <1>used, <2>2, <2>3, Amounts
<1>2. ASSUME NEW c \in Commitments, CheckFunds(c) PROVE Total(Counted' \cup reserving') <= Funds
  <2>1. /\ reserving = {} /\ reserving' = {c} /\ Amount[c] <= Funds - Used
        /\ com' = com /\ saved' = saved
    BY <1>2 DEF CheckFunds
  <2>2. Counted' = Counted /\ Used = Total(Counted)
    BY <2>1 DEF Counted, Used
  <2>3. used = Counted
    BY <2>1 DEF used
  <2>4. IsFiniteSet(Counted) /\ Counted \in SUBSET Commitments
    BY <1>used, <2>3
  <2> DEFINE S == Counted \cup {c}
  <2>5. IsFiniteSet(S) /\ S \in SUBSET Commitments
    BY <2>4, FS_AddElement
  <2>6. c \notin Counted
    BY <1>2 DEF CheckFunds, Counted
  <2>7. Total(S) = Amount[c] + Total(S \ {c})
    BY <2>5, TotalRemove
  <2>8. S \ {c} = Counted
    BY <2>6
  <2>9. Total(Counted) \in Nat /\ Amount[c] \in Nat
    BY <2>4, TotalType, Amounts
  <2>10. Total(S) <= Funds
    BY <2>1, <2>2, <2>7, <2>8, <2>9, Amounts
  <2> QED
    BY <2>1, <2>2, <2>10
<1>3. ASSUME reserving' \subseteq reserving PROVE Total(Counted' \cup reserving') <= Funds
  <2>1. Counted' \cup reserving' \in SUBSET used
    BY <1>3, <1>counted DEF used
  <2> QED
    BY <2>1, <1>part
<1>4. (\E c \in Commitments : CheckFunds(c)) \/ reserving' \subseteq reserving
  BY FundsFrame DEF Next, Environment, vars, seqVars
<1>5. Total(Counted' \cup reserving') <= Funds
  BY <1>2, <1>3, <1>4
<1> QED
  BY <1>1, <1>5 DEF FundsInv

\* What the treasury has out on the blockchain never exceeds what it owns: the
\* check of the deficit and its reservation are one step under treasuryPoolLock,
\* and the deficit counts every advance that is out (DeficitCovers).
THEOREM NeverOverdrawn == Spec => []TreasuryNeverOverdrawn
<1>1. Init => FundsInv
  BY FundsInit
<1>2. FlowInv /\ FlowInv' /\ FundsInv /\ [Next]_vars => FundsInv'
  <2> SUFFICES ASSUME FlowInv, FlowInv', FundsInv, [Next]_vars PROVE FundsInv'
    OBVIOUS
  <2>1. ComSteps
    BY ComStep DEF FlowInv
  <2> QED
    BY <2>1, FundsStep DEF FlowInv
<1>3. FlowInv /\ FundsInv => TreasuryNeverOverdrawn
  <2> SUFFICES ASSUME FlowInv, FundsInv PROVE TreasuryNeverOverdrawn
    OBVIOUS
  <2> DEFINE out == {c \in Commitments : Advanced(c) /\ ~Returned(c)}
             used == Counted \cup reserving
  <2>1. saved \subseteq Commitments /\ reserving \subseteq saved
    BY DEF FlowInv, RecordInv, TypeOK, SavedInv
  <2>2. IsFiniteSet(used) /\ used \in SUBSET Commitments
    <3>1. used \in SUBSET saved
      BY <2>1 DEF Counted
    <3> QED
      BY <2>1, <3>1, FS_Subset DEF FundsInv
  <2>3. out \in SUBSET used
    BY FlowCovers DEF Counted
  <2>4. Total(used) <= Funds
    BY DEF FundsInv
  <2> HIDE DEF used, out
  <2>5. Total(out) <= Total(used)
    BY <2>2, <2>3, TotalPart
  <2>6. Total(used) \in Nat /\ Total(out) \in Nat
    BY <2>2, <2>3, FS_Subset, TotalType
  <2>7. Total(out) <= Funds
    BY <2>4, <2>5, <2>6, Amounts
  <2> QED
    BY <2>7 DEF TreasuryNeverOverdrawn, out
<1> QED
  BY <1>1, <1>2, <1>3, FlowInvariance, PTL DEF Spec

=============================================================================
