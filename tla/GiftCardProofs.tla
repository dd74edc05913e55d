----------------------------- MODULE GiftCardProofs -----------------------------
(***************************************************************************)
(* Proofs about GiftCard, for any intents, claims and fulfillments: a gift *)
(* card is claimed once or returned, and never both; and what is proved of *)
(* the sequencer alone (SequencerProofs) holds with the auto-return worker *)
(* beside it, which writes to the same records.                            *)
(***************************************************************************)
EXTENDS GiftCard, SequencerProofs

\* The action that returns the gift is not scheduled, and will not be by the
\* sequencer alone.
Unreturned == actionState[ReturnAction] \in {"Unknown", "Revoked"}

FunctionsInv == DOMAIN intentId = Intents /\ DOMAIN actionState = Actions

\* The claim that is being made.
ClaimInv == claimer # NoClaim =>
    /\ claimer \in Claims
    /\ claimedAt = "claimable" /\ age # "expired"
    /\ Submitted(Gift) /\ ~Claimed /\ Unreturned

\* The worker returns what nobody has claimed, when nobody can any more.
ReturnInv == returner \in {"history", "presort", "schedule", "activate"} =>
    age = "expired" /\ ~Claimed

\* The claim that was made.
ClaimedInv ==
    /\ Claimed => Submitted(Gift) /\ Unreturned
    /\ \A i, j \in Claims : Submitted(i) /\ Submitted(j) => i = j

IInv == FunctionsInv /\ ClaimInv /\ ReturnInv /\ ClaimedInv

\* The fulfillments of the action that returns the gift are CloseDormant ones.
LEMMA ReturnActionType ==
    /\ ReturnAction \in Actions /\ IntentOf[ReturnAction] = Gift
    /\ \A f \in Fulfillments : ActionOf[f] = ReturnAction => Type[f] = "CloseDormant"
<1>1. ActionType[ReturnAction] = "CloseDormantAccount"
  BY GiftCardRecords, FulfillmentsOfAction DEF IsDormant, ReturnAction
<1>2. \A f \in Fulfillments : ActionOf[f] = ReturnAction => Type[f] = "CloseDormant"
  <2> SUFFICES ASSUME NEW f \in Fulfillments, ActionOf[f] = ReturnAction
               PROVE  Type[f] = "CloseDormant"
    OBVIOUS
  <2>1. Type[f] \in FulfillmentTypes
    BY Records
  <2> QED
    BY <1>1, <2>1, FulfillmentsOfAction DEF FulfillmentTypes
<1> QED
  BY <1>2, GiftCardRecords, Records DEF ReturnAction

\* The sequencer submits nothing, and does not schedule the return.
LEMMA SequencerFrame ==
    ASSUME SequencerStep, DOMAIN actionState = Actions
    PROVE  /\ intentId' = intentId /\ DOMAIN actionState' = Actions
           /\ Unreturned => Unreturned'
<1>1. CASE UNCHANGED <<intentId, actionState>>
  BY <1>1 DEF Unreturned
<1>2. ASSUME NEW f \in Fulfillments, RevokeAction(f)
      PROVE  /\ intentId' = intentId /\ DOMAIN actionState' = Actions
             /\ Unreturned => Unreturned'
  BY <1>2, ReturnActionType DEF RevokeAction, Unreturned
<1>3. ASSUME NEW f \in Fulfillments, UpdateAction(f)
      PROVE  /\ intentId' = intentId /\ DOMAIN actionState' = Actions
             /\ Unreturned => Unreturned'
  <2>1. intentId' = intentId /\ DOMAIN actionState' = Actions
    BY <1>3 DEF UpdateAction
  <2>2. CASE ActionOf[f] # ReturnAction
    <3>1. actionState'[ReturnAction] = actionState[ReturnAction]
      BY <1>3, <2>2, ReturnActionType DEF UpdateAction
    <3> QED
      BY <2>1, <3>1 DEF Unreturned
  <2>3. CASE ActionOf[f] = ReturnAction
    <3>1. Type[f] # "Advance"
      BY <2>3, ReturnActionType
    <3>2. actionState[ReturnAction] \in {"Pending", "Failed", "Confirmed"}
      BY <1>3, <2>3, <3>1 DEF UpdateAction
    <3> QED
      BY <2>1, <3>2 DEF Unreturned
  <2> QED
    BY <2>2, <2>3
<1>4. \A f \in Fulfillments :
        Schedule(f) \/ Postpone(f) \/ Revoke(f) \/ ReleaseAdvance(f) \/ Execute(f) \/ Notice(f)
            \/ Fault(f) \/ Interrupt(f) => UNCHANGED <<intentId, actionState>>
  BY DEF Schedule, Postpone, Revoke, ReleaseAdvance, Execute, Notice, Fault, Interrupt, recordVars
<1>5. \A f \in Fulfillments :
        UpdateIntent(f) \/ OnSuccess(f) \/ Refuse(f) \/ Settle(f) =>
            UNCHANGED <<intentId, actionState>>
  BY DEF UpdateIntent, OnSuccess, Refuse, Settle, recordVars
<1>6. \A a \in Actions : CommitmentOpens(a) => UNCHANGED <<intentId, actionState>>
  BY DEF CommitmentOpens, recordVars
<1>7. \A v \in Observed : ObserveVault(v) => UNCHANGED <<intentId, actionState>>
  BY DEF ObserveVault, recordVars
<1> QED
  BY <1>1, <1>2, <1>3, <1>4, <1>5, <1>6, <1>7 DEF SequencerStep, Progress

\* An intent changes nothing of those submitted before it, nor of the return.
LEMMA SubmitFrame ==
    ASSUME NEW i \in Intents, SubmitIntent(i), FunctionsInv
    PROVE  /\ FunctionsInv'
           /\ \A j \in Intents \ {i} : Submitted(j)' <=> Submitted(j)
           /\ i # Gift => (Unreturned <=> Unreturned')
<1>1. FunctionsInv'
  BY DEF SubmitIntent, FunctionsInv
<1>2. \A j \in Intents \ {i} : Submitted(j)' <=> Submitted(j)
  BY DEF SubmitIntent, FunctionsInv, Submitted
<1>3. i # Gift => actionState'[ReturnAction] = actionState[ReturnAction]
  BY ReturnActionType DEF SubmitIntent
<1> QED
  BY <1>1, <1>2, <1>3 DEF Unreturned

LEMMA InvInit == GiftInit => IInv
BY GiftCardRecords DEF GiftInit, Init, IInv, FunctionsInv, ClaimInv, ReturnInv, ClaimedInv,
       Claimed, Submitted

LEMMA InvStep == IInv /\ [GiftNext]_vars => IInv'
<1> SUFFICES ASSUME IInv, [GiftNext]_vars PROVE IInv'
  OBVIOUS
<1> FunctionsInv /\ ClaimInv /\ ReturnInv /\ ClaimedInv
  BY DEF IInv
<1> USE GiftCardRecords
<1>1. CASE SequencerStep /\ UNCHANGED giftVars
  <2>1. /\ intentId' = intentId /\ DOMAIN actionState' = Actions
        /\ Unreturned => Unreturned'
        /\ UNCHANGED <<age, claimer, claimedAt, returner>>
    BY <1>1, SequencerFrame DEF FunctionsInv, giftVars, claimVars
  <2>2. (Claimed' <=> Claimed) /\ \A i \in Intents : Submitted(i)' <=> Submitted(i)
    BY <2>1 DEF Claimed, Submitted
  <2> QED
    BY <2>1, <2>2 DEF IInv, FunctionsInv, ClaimInv, ReturnInv, ClaimedInv
<1>2. ASSUME NEW i \in Intents \ ({Gift} \cup Claims), SubmitIntent(i), UNCHANGED giftVars
      PROVE  IInv'
  <2>1. /\ FunctionsInv' /\ (Unreturned' <=> Unreturned)
        /\ \A j \in Claims \cup {Gift} : Submitted(j)' <=> Submitted(j)
    BY <1>2, SubmitFrame
  <2>2. Claimed' <=> Claimed
    BY <2>1 DEF Claimed
  <2> QED
    BY <1>2, <2>1, <2>2 DEF IInv, ClaimInv, ReturnInv, ClaimedInv, giftVars, claimVars
<1>3. CASE Issue
  <2>1. /\ FunctionsInv'
        /\ \A j \in Claims : Submitted(j)' <=> Submitted(j)
    BY <1>3, SubmitFrame DEF Issue
  <2>2. ~Submitted(Gift)
    BY <1>3 DEF Issue, SubmitIntent
  <2>3. claimer = NoClaim /\ ~Claimed
    BY <2>2 DEF ClaimInv, ClaimedInv
  <2>4. ~Claimed'
    BY <2>1, <2>3 DEF Claimed
  <2> QED
    BY <1>3, <2>1, <2>3, <2>4 DEF IInv, ClaimInv, ReturnInv, ClaimedInv, Issue, claimVars
<1>4. ASSUME NEW i \in Claims, CommitClaim(i) PROVE IInv'
  <2>1. /\ FunctionsInv' /\ (Unreturned' <=> Unreturned)
        /\ \A j \in (Claims \ {i}) \cup {Gift} : Submitted(j)' <=> Submitted(j)
    BY <1>4, SubmitFrame DEF CommitClaim
  <2>2. Submitted(Gift) /\ ~Claimed /\ Unreturned /\ age # "expired"
    BY <1>4 DEF CommitClaim, ClaimInv
  <2>3. \A j \in Claims \ {i} : ~Submitted(j)'
    BY <2>1, <2>2 DEF Claimed
  <2>4. claimer' = NoClaim /\ age' = age /\ returner' = returner
    BY <1>4 DEF CommitClaim
  <2>5. ReturnInv'
    BY <2>2, <2>4 DEF ReturnInv
  <2>6. ClaimedInv'
    BY <2>1, <2>2, <2>3 DEF ClaimedInv
  <2> QED
    BY <2>1, <2>4, <2>5, <2>6 DEF IInv, ClaimInv
<1>5. ASSUME Age \/ DropClaim \/ ReturnStep \/ AbandonReturn \/ (\E i \in Claims : ValidateClaim(i))
                \/ UNCHANGED vars,
             ~ScheduleReturn
      PROVE  IInv'
  <2>1. intentId' = intentId /\ actionState' = actionState
    BY <1>5 DEF Age, DropClaim, ReturnStep, AbandonReturn, ValidateClaim, CheckGiftCard,
            InsertHistory, Presort, Activate, CompleteCheck, RefuseReturn, sequencerVars,
            recordVars, vars
  <2>2. /\ FunctionsInv' /\ (Unreturned' <=> Unreturned) /\ (Claimed' <=> Claimed)
        /\ \A i \in Intents : Submitted(i)' <=> Submitted(i)
    BY <2>1 DEF FunctionsInv, Unreturned, Claimed, Submitted
  <2>3. ClaimedInv'
    BY <2>2 DEF ClaimedInv
  <2>4. ClaimInv'
    <3>1. CASE Age
      BY <2>2, <3>1 DEF Age, ClaimInv, claimVars
    <3>2. CASE DropClaim
      BY <3>2 DEF DropClaim, ClaimInv
    <3>3. ASSUME NEW i \in Claims, ValidateClaim(i) PROVE ClaimInv'
      BY <2>2, <3>3 DEF ValidateClaim, ClaimInv, Unreturned
    <3>4. CASE ReturnStep \/ AbandonReturn \/ UNCHANGED vars
      <4>1. UNCHANGED <<age, claimer, claimedAt>>
        BY <3>4 DEF ReturnStep, AbandonReturn, CheckGiftCard, InsertHistory, Presort,
                ScheduleReturn, Activate, CompleteCheck, RefuseReturn, vars, giftVars, claimVars
      <4> QED
        BY <2>2, <4>1 DEF ClaimInv
    <3> QED
      BY <1>5, <3>1, <3>2, <3>3, <3>4
  <2>5. ReturnInv'
    <3>1. CASE Age
      BY <2>2, <3>1 DEF Age, ReturnInv
    <3>2. CASE CheckGiftCard
      BY <2>2, <3>2 DEF CheckGiftCard, ReturnInv
    <3>3. CASE InsertHistory \/ Presort \/ Activate \/ CompleteCheck \/ RefuseReturn
                    \/ AbandonReturn
      BY <2>2, <3>3 DEF ReturnInv, InsertHistory, Presort, Activate, CompleteCheck, RefuseReturn,
                AbandonReturn
    <3>4. CASE DropClaim \/ (\E i \in Claims : ValidateClaim(i)) \/ UNCHANGED vars
      BY <2>2, <3>4 DEF ReturnInv, DropClaim, ValidateClaim, vars, giftVars
    <3> QED
      BY <1>5, <3>1, <3>2, <3>3, <3>4 DEF ReturnStep
  <2> QED
    BY <2>2, <2>3, <2>4, <2>5 DEF IInv
<1>6. CASE ScheduleReturn
  <2>1. intentId' = intentId /\ DOMAIN actionState' = DOMAIN actionState
        /\ UNCHANGED <<age, claimer>> /\ age = "expired" /\ ~Claimed
    BY <1>6 DEF ScheduleReturn, ReturnInv, claimVars
  <2>2. claimer = NoClaim
    BY <2>1 DEF ClaimInv
  <2>3. ~Claimed' /\ \A i \in Intents : Submitted(i)' <=> Submitted(i)
    BY <2>1 DEF Claimed, Submitted
  <2> QED
    BY <2>1, <2>2, <2>3 DEF IInv, FunctionsInv, ClaimInv, ReturnInv, ClaimedInv
<1> QED
  BY <1>1, <1>2, <1>3, <1>4, <1>5, <1>6 DEF GiftNext

LEMMA Invariance == GiftSpec => []IInv
BY InvInit, InvStep, PTL DEF GiftSpec

\* A gift card is claimed once or returned, never both
\* (validateClaimedGiftCard, maybeInitiateGiftCardAutoReturn).
THEOREM ClaimedOrReturned == GiftSpec => []OneWayOut
<1>1. IInv => OneWayOut
  <2> SUFFICES ASSUME IInv PROVE OneWayOut
    OBVIOUS
  <2> DEFINE claims == {i \in Claims : Submitted(i)}
  <2>1. Cardinality(claims) <= 1
    <3>1. CASE claims = {}
      BY <3>1, FS_EmptySet
    <3>2. CASE claims # {}
      <4>1. PICK i \in claims : TRUE
        BY <3>2
      <4>2. claims = {i}
        BY <4>1 DEF IInv, ClaimedInv
      <4> QED
        BY <4>2, FS_Singleton
    <3> QED
      BY <3>1, <3>2
  <2>2. claims # {} => actionState[ReturnAction] \in {"Unknown", "Revoked"}
    BY DEF IInv, ClaimedInv, Claimed, Unreturned
  <2> QED
    BY <2>1, <2>2 DEF OneWayOut
<1> QED
  BY <1>1, Invariance, PTL

(***************************************************************************)
(* The sequencer beside the claims and the auto-return worker.             *)
(***************************************************************************)

ComposedInv == SeqInv /\ GiftTypeOK

LEMMA ComposedInit == GiftInit => ComposedInv
<1> SUFFICES ASSUME GiftInit PROVE ComposedInv
  OBVIOUS
<1>1. SeqInv
  BY SequencerInvInit DEF GiftInit
<1> QED
  BY <1>1 DEF GiftInit, ComposedInv, GiftTypeOK, SeqInv, Ages, ReturnSteps

\* The auto-return worker presorts, schedules and wakes the fulfillment it
\* returns the gift with.
LEMMA ReturnKeepsSequencer ==
    ASSUME SeqInv, Presort \/ ScheduleReturn \/ Activate
    PROVE  SeqInv'
<1>1. /\ awake \subseteq Fulfillments /\ presorted \subseteq Fulfillments
      /\ noticed \subseteq Fulfillments /\ AutoReturn \in Fulfillments
  BY GiftCardRecords DEF SeqInv, TypeOK
<1>2. CASE Presort \/ Activate
  <2>1. /\ UNCHANGED <<intentId, intentState, actionState, ful, sideVars, chainVars, step>>
        /\ awake' \subseteq Fulfillments /\ presorted' \subseteq Fulfillments
        /\ noticed' \subseteq Fulfillments
    BY <1>1, <1>2 DEF Presort, Activate, recordVars
  <2> QED
    BY <2>1, SideStep
<1>3. CASE ScheduleReturn
  BY <1>3, ReturnActionType, ActionStep DEF ScheduleReturn
<1> QED
  BY <1>2, <1>3

LEMMA ComposedStep == ComposedInv /\ [GiftNext]_vars => ComposedInv'
<1> SUFFICES ASSUME ComposedInv, [GiftNext]_vars PROVE ComposedInv'
  OBVIOUS
<1> SeqInv /\ GiftTypeOK
  BY DEF ComposedInv
<1> USE GiftCardRecords
<1>1. SeqInv'
  <2>1. CASE SequencerStep
    BY <2>1, SequencerInvStep
  <2>2. ASSUME NEW i \in Intents, SubmitIntent(i) PROVE SeqInv'
    BY <2>2, StepSubmitIntent
  <2>3. CASE Presort \/ ScheduleReturn \/ Activate
    BY <2>3, ReturnKeepsSequencer
  <2>4. CASE UNCHANGED sequencerVars
    BY <2>4, SequencerInvStutter
  <2>5. CASE ReturnStep
    <3>1. CheckGiftCard \/ InsertHistory \/ CompleteCheck \/ RefuseReturn =>
            UNCHANGED sequencerVars
      BY DEF CheckGiftCard, InsertHistory, CompleteCheck, RefuseReturn
    <3> QED
      BY <2>3, <2>4, <2>5, <3>1 DEF ReturnStep
  <2>6. Age \/ DropClaim \/ AbandonReturn \/ (\E i \in Claims : ValidateClaim(i)) \/ UNCHANGED vars =>
            UNCHANGED sequencerVars
    BY DEF Age, DropClaim, AbandonReturn, ValidateClaim, vars
  <2> QED
    BY <2>1, <2>2, <2>4, <2>5, <2>6 DEF GiftNext, Issue, CommitClaim
<1>2. GiftTypeOK'
  <2>1. TypeOK'
    BY <1>1 DEF SeqInv
  <2>2. /\ age \in Ages /\ claimer \in Claims \cup {NoClaim} /\ claimedAt \in Ages
        /\ check \in BOOLEAN /\ history \in BOOLEAN /\ returner \in ReturnSteps
    BY DEF GiftTypeOK
  <2>3. CASE UNCHANGED giftVars
    BY <2>1, <2>2, <2>3 DEF GiftTypeOK, giftVars, claimVars
  <2>4. CASE Issue \/ Age \/ DropClaim \/ (\E i \in Claims : ValidateClaim(i) \/ CommitClaim(i))
    <3>1. /\ age' \in Ages /\ claimer' \in Claims \cup {NoClaim} /\ claimedAt' \in Ages
          /\ check' \in {check, TRUE} /\ UNCHANGED <<history, returner>>
      BY <2>2, <2>4 DEF Issue, Age, DropClaim, ValidateClaim, CommitClaim, Ages, claimVars
    <3> QED
      BY <2>1, <2>2, <3>1 DEF GiftTypeOK
  <2>5. CASE ReturnStep \/ AbandonReturn
    <3>1. /\ UNCHANGED <<age, claimer, claimedAt>> /\ returner' \in ReturnSteps
          /\ check' \in {check, FALSE} /\ history' \in {history, TRUE}
      BY <2>2, <2>5
      DEF ReturnStep, AbandonReturn, CheckGiftCard, InsertHistory, Presort, ScheduleReturn,
          Activate, CompleteCheck, RefuseReturn, ReturnSteps, claimVars
    <3> QED
      BY <2>1, <2>2, <3>1 DEF GiftTypeOK
  <2> QED
    BY <2>3, <2>4, <2>5 DEF GiftNext, vars
<1> QED
  BY <1>1, <1>2 DEF ComposedInv

LEMMA ComposedInvariance == GiftSpec => []ComposedInv
  BY ComposedInit, ComposedStep, PTL DEF GiftSpec

\* The order of execution stays as it is when the fulfillment that returns the gift
\* gets its position: nobody has scheduled it.
LEMMA ReturnKeepsOrder ==
    ASSUME PlacedInv, presorted' \in {presorted, presorted \cup {AutoReturn}},
           AutoReturn \in presorted \/ ful[AutoReturn] = "Unknown",
           UNCHANGED <<intentId, ful, outcome, timelock, vault>>
    PROVE  PlacedInv'
<1>1. \A i \in Intents : intentId'[i] <= Cardinality({j \in Intents : Submitted(j)}')
  BY DEF PlacedInv, Submitted
<1>2. ASSUME NEW f \in Fulfillments PROVE OrderInv(f)'
  <2>1. StateInv(f) /\ OrderInv(f)
    BY DEF PlacedInv
  <2>2. Awaits(f)' = Awaits(f) /\ \A g \in Awaits(f) : g \in Fulfillments /\ ~IsDormant(g)
    BY DEF Awaits, IsDormant
  <2>3. CASE f \in presorted <=> f \in presorted'
    <3>1. \A g \in Awaits(f) : Before(g, f)' <=> Before(g, f)
      BY <2>2, <2>3, PositionKept
    <3> QED
      BY <2>1, <2>2, <2>3, <3>1 DEF OrderInv, InFlight, Placed, IsDormant
  <2>4. CASE ~(f \in presorted <=> f \in presorted')
    <3>1. ful'[f] = "Unknown"
      BY <2>4
    <3> QED
      BY <3>1 DEF OrderInv, InFlight
  <2> QED
    BY <2>3, <2>4
<1>3. \A f \in Fulfillments : StateInv(f)'
  BY DEF PlacedInv, StateInv, InFlight, IsDormant
<1>4. ExistInv'
  BY DEF PlacedInv, ExistInv, Succeeded, InFlight, Touched
<1> QED
  BY <1>1, <1>2, <1>3, <1>4 DEF PlacedInv

LEMMA ComposedPlaced == ComposedInv /\ PlacedInv /\ [GiftNext]_vars => PlacedInv'
<1> SUFFICES ASSUME ComposedInv, PlacedInv, [GiftNext]_vars PROVE PlacedInv'
  OBVIOUS
<1> DEFINE positions == <<intentId, presorted, ful, outcome, timelock, vault>>
<1> SeqInv
  BY DEF ComposedInv
<1>1. CASE SequencerStep
  BY <1>1, PlacedStep
<1>2. ASSUME NEW i \in Intents, SubmitIntent(i) PROVE PlacedInv'
  BY <1>2, PlacedSubmit
<1>3. CASE Presort
  BY <1>3, ReturnKeepsOrder DEF Presort, sideVars, chainVars
<1>4. CASE UNCHANGED positions
  BY <1>4, PlacedFrame
<1>5. ReturnStep /\ ~Presort => UNCHANGED positions
  BY DEF ReturnStep, CheckGiftCard, InsertHistory, ScheduleReturn, Activate, CompleteCheck,
         RefuseReturn, sequencerVars, recordVars, sideVars, chainVars
<1>6. Age \/ DropClaim \/ AbandonReturn \/ (\E i \in Claims : ValidateClaim(i)) \/ UNCHANGED vars =>
        UNCHANGED positions
  BY DEF Age, DropClaim, AbandonReturn, ValidateClaim, vars, sequencerVars, recordVars, sideVars,
         chainVars
<1> QED
  BY <1>1, <1>2, <1>3, <1>4, <1>5, <1>6, GiftCardRecords DEF GiftNext, Issue, CommitClaim

LEMMA ComposedPlacedInvariance == GiftSpec => []PlacedInv
<1>1. GiftInit => PlacedInv
  BY PlacedInit DEF GiftInit
<1> QED
  BY <1>1, ComposedPlaced, ComposedInvariance, PTL DEF GiftSpec

\* Every variable of the sequencer, the claims and the worker has its type.
THEOREM GiftTypeCorrect == GiftSpec => []GiftTypeOK
<1>1. ComposedInv => GiftTypeOK
  BY DEF ComposedInv
<1> QED
  BY <1>1, ComposedInvariance, PTL

\* Also with the auto-return worker beside it, the sequencer marks a fulfillment
\* confirmed after its transaction executed and after every record that depends on
\* it was saved (handlePending).
THEOREM GiftConfirmedSettled == GiftSpec => []ConfirmedIsSettled
<1>1. ComposedInv => ConfirmedIsSettled
  BY InvSettled DEF ComposedInv
<1> QED
  BY <1>1, ComposedInvariance, PTL

\* Also with the auto-return worker beside it, which changes the state of an
\* action without telling the intent handler, an intent that waits for no
\* fulfillment has the state its actions say.
THEOREM GiftIntentsCurrent == GiftSpec => []IntentsAreCurrent
<1>1. ComposedInv => IntentsAreCurrent
  BY InvCurrent DEF ComposedInv
<1> QED
  BY <1>1, ComposedInvariance, PTL

\* Also with the auto-return worker beside it, which moves the fulfillment that
\* returns the gift ahead of what is submitted later
\* (updateCloseDormantAccountFulfillmentPreSorting): a transaction executes only
\* after everything ahead of it into its source, and one that closes an account
\* after everything ahead of it out of the account.
THEOREM GiftInOrder == GiftSpec => []ExecutesInOrder
  BY ComposedPlacedInvariance, InvInOrder, PTL

\* Also with the auto-return worker beside it, a transaction is not submitted before
\* its accounts are on the blockchain (CanSubmitToBlockchain of each handler).
THEOREM GiftAccountsThere == GiftSpec => []AccountsExist
  BY ComposedPlacedInvariance, InvExist, PTL

(***************************************************************************)
(* The books, with the gift that is returned.                              *)
(***************************************************************************)

\* Nothing but the return of the gift closes a dormant account, and it has its
\* place before it is scheduled.
ReturnPlanInv ==
    /\ \A f \in Fulfillments : IsDormant(f) /\ Counts(f) => f = AutoReturn
    /\ returner \in {"schedule", "activate"} => AutoReturn \in presorted
GiftLedgerInv == LedgerInv /\ ReturnPlanInv

\* One action returns the gift, by one fulfillment.
LEMMA OneReturn ==
    /\ ReturnAction \in Actions /\ DormantAction(ReturnAction) /\ IntentOf[ReturnAction] = Gift
    /\ \A f \in Fulfillments : ActionOf[f] = ReturnAction => f = AutoReturn
    /\ Source[AutoReturn] \in Accounts /\ Destination[AutoReturn] \in Holders
    /\ Source[AutoReturn] # Destination[AutoReturn]
    /\ \A v \in Holders : /\ ReturnAction \in ActionsFrom[v] <=> v = Source[AutoReturn]
                          /\ ReturnAction \in ActionsTo[v] <=> v = Destination[AutoReturn]
<1>1. AutoReturn \in Fulfillments /\ IsDormant(AutoReturn)
  BY GiftCardRecords
<1>2. \A f \in Fulfillments : ActionOf[f] = ReturnAction => f = AutoReturn
  BY <1>1, ReturnActionType, OneOfEachType DEF IsDormant, ReturnAction
<1>3. /\ Source[AutoReturn] \in Accounts /\ Destination[AutoReturn] \in Holders
      /\ Source[AutoReturn] # Destination[AutoReturn]
  BY <1>1, Fields, OpenedAndClosed, ThroughTreasury DEF IsDormant
<1>4. ASSUME NEW v \in Holders
      PROVE  /\ ReturnAction \in ActionsFrom[v] <=> v = Source[AutoReturn]
             /\ ReturnAction \in ActionsTo[v] <=> v = Destination[AutoReturn]
  <2>1. /\ AutoReturn \in OutOf(v) <=> v = Source[AutoReturn]
        /\ AutoReturn \in Into(v) <=> v = Destination[AutoReturn]
    BY <1>1 DEF OutOf, Into, IsDormant
  <2>2. OutOf(v) \subseteq Fulfillments /\ Into(v) \subseteq Fulfillments
    BY DEF OutOf, Into
  <2> QED
    BY <1>2, <2>1, <2>2, Payments DEF ReturnAction
<1> QED
  BY <1>1, <1>2, <1>3, <1>4, ReturnActionType, DormantOne DEF ReturnAction

\* Before the gift is claimed, its card has what the intent that issues it paid.
LEMMA GiftThere ==
    ASSUME TypeOK, StatesInv, ReturnPlanInv, ReturnAction \notin Counted,
           Submitted(Gift), ~Claimed
    PROVE  LET gift == Source[AutoReturn]
           IN  /\ Counted \cap ActionsTo[gift] = ActionsOf[Gift] \cap ActionsTo[gift]
               /\ Counted \cap ActionsFrom[gift] = {}
<1> DEFINE gift == Source[AutoReturn]
<1>1. gift \in Holders /\ ActionsTo[gift] = {ActionOf[f] : f \in Into(gift)}
      /\ ActionsFrom[gift] = {ActionOf[f] : f \in OutOf(gift)}
  BY OneReturn, Payments DEF Holders
<1>2. ASSUME NEW f \in Fulfillments, f \in Into(gift) \/ f \in OutOf(gift), f # AutoReturn
      PROVE  /\ ~IsDormant(f) /\ IntentOf[ActionOf[f]] \in {Gift} \cup Claims
             /\ f \in OutOf(gift) => IntentOf[ActionOf[f]] # Gift
  BY <1>2, GiftIssued DEF Into, OutOf
<1>3. \A f \in Fulfillments : Counts(f) => Submitted(IntentOf[ActionOf[f]])
  BY DEF StatesInv, Counts, Counted
<1>4. ~Counts(AutoReturn) /\ AutoReturn \notin Into(gift)
  BY GiftCardRecords, OneReturn DEF Counts, ReturnAction, Into
<1>5. ASSUME NEW a \in Counted \cap ActionsTo[gift] PROVE a \in ActionsOf[Gift]
  <2>1. PICK f \in Into(gift) : ActionOf[f] = a
    BY <1>1
  <2>2. f \in Fulfillments /\ f # AutoReturn /\ Counts(f)
    BY <1>4, <2>1 DEF Into, Counts
  <2> QED
    BY <1>2, <1>3, <2>1, <2>2, Fields DEF Claimed, ActionsOf
<1>6. ASSUME NEW a \in ActionsOf[Gift] \cap ActionsTo[gift] PROVE a \in Counted
  <2>1. PICK f \in Into(gift) : ActionOf[f] = a
    BY <1>1
  <2>2. f \in Fulfillments /\ f # AutoReturn
    BY <1>4, <2>1 DEF Into
  <2>3. ~DormantAction(a) /\ a \in Actions /\ IntentOf[a] = Gift
    BY <1>2, <2>1, <2>2, DormantOne, GiftCardRecords DEF ActionsOf
  <2> QED
    BY <2>3 DEF StatesInv, Counted, DormantAction
<1>7. ASSUME NEW a \in Counted \cap ActionsFrom[gift] PROVE FALSE
  <2>1. PICK f \in OutOf(gift) : ActionOf[f] = a
    BY <1>1
  <2>2. f \in Fulfillments /\ f # AutoReturn /\ Counts(f)
    BY <1>4, <2>1 DEF OutOf, Counts
  <2> QED
    BY <1>2, <1>3, <2>1, <2>2 DEF Claimed
<1> QED
  BY <1>5, <1>6, <1>7

\* The return of the gift is behind all that counts on its card.
LEMMA ReturnLast ==
    ASSUME StatesInv, ~Claimed, NEW f \in Fulfillments \ {AutoReturn}, Counts(f),
           Source[AutoReturn] \in {Source[f], Destination[f]}
    PROVE  /\ Ahead(ActionOf[f], ReturnAction)
           /\ Source[f] = Source[AutoReturn] => ~Closes(f)
<1>1. /\ ~IsDormant(f) /\ IntentOf[ActionOf[f]] \in {Gift} \cup Claims
      /\ Source[f] = Source[AutoReturn] /\ IntentOf[ActionOf[f]] = Gift => Type[f] = "Initialize"
  BY GiftIssued
<1>2. Submitted(IntentOf[ActionOf[f]])
  BY DEF StatesInv, Counts, Counted
<1>3. IntentOf[ActionOf[f]] = Gift
  BY <1>1, <1>2 DEF Claimed
<1>4. Ahead(ActionOf[f], ReturnAction)
  BY <1>1, <1>3, OneReturn, DormantOne DEF Ahead
<1> QED
  BY <1>1, <1>3, <1>4 DEF Closes

\* The plan still holds when the gift is to be returned: there is no claim, so that
\* the card has what is returned, and nobody uses it any more.
LEMMA FundsReturn ==
    ASSUME TypeOK, StatesInv, PlanInv, ReturnPlanInv, ReturnAction \notin Counted,
           Submitted(Gift), ~Claimed, Counted' = Counted \cup {ReturnAction}, intentId' = intentId
    PROVE  FundsPlan' /\ ClosePlan'
<1> DEFINE gift == Source[AutoReturn]
           r == ReturnAction
<1>1. gift \in Accounts /\ gift \in Holders /\ r \in Actions
  BY OneReturn DEF Holders
<1>2. \A a, b : Ahead(a, b)' <=> Ahead(a, b)
  BY DEF Ahead, DormantAction
<1>3. ASSUME NEW a \in Counted, NEW f \in Fulfillments, ActionOf[f] = a, f # AutoReturn,
             gift \in {Source[f], Destination[f]}
      PROVE  Ahead(a, r)
  BY <1>3, ReturnLast DEF Counts
<1>4. AtEnd(gift)' = 0
  <2>1. /\ Counted \cap ActionsTo[gift] = ActionsOf[Gift] \cap ActionsTo[gift]
        /\ Counted \cap ActionsFrom[gift] = {}
    BY GiftThere
  <2>2. r \notin ActionsTo[gift] /\ r \in ActionsFrom[gift]
    BY <1>1, OneReturn
  <2>3. /\ Counted' \cap ActionsTo[gift] = ActionsOf[Gift] \cap ActionsTo[gift]
        /\ Counted' \cap ActionsFrom[gift] = {r}
    BY <2>1, <2>2
  <2>4. Total({r}) = Quantity[r] /\ Quantity[r] \in Nat
    <3>1. {} \in SUBSET Actions /\ r \in Actions \ {} /\ {} \cup {r} = {r} /\ Total({}) = 0
      BY <1>1, FS_EmptySet, TotalAt
    <3>2. Total({} \cup {r}) = Total({}) + Quantity[r]
      BY <3>1, TotalAdd
    <3> QED
      BY <1>1, <3>1, <3>2, Records
  <2>5. Holdings[gift] = 0 /\ Quantity[r] = Total(ActionsOf[Gift] \cap ActionsTo[gift])
    BY GiftIssued DEF Total
  <2>6. AtEnd(gift)' = 0 + Quantity[r] - Quantity[r]
    BY <2>3, <2>4, <2>5 DEF AtEnd, Total
  <2> QED
    BY <2>4, <2>6
<1>5. ASSUME NEW v \in Accounts, NEW a \in Counted' \cap ActionsFrom[v] PROVE After(v, a)' >= 0
  <2> DEFINE in == {b \in Counted : Ahead(b, a)} \cap ActionsTo[v]
             inNow == {b \in Counted' : Ahead(b, a)} \cap ActionsTo[v]
             out == {b \in Counted : ~Ahead(a, b)} \cap ActionsFrom[v]
             outNow == {b \in Counted' : ~Ahead(a, b)} \cap ActionsFrom[v]
  <2>0. v \in Holders
    BY DEF Holders
  <2>1. After(v, a)' = Holdings[v] + Total(inNow) - Total(outNow)
    BY <1>2 DEF After, NotAfter, Total
  <2>2. CASE a = r
    <3>1. v = gift
      BY <2>0, <2>2, OneReturn
    <3>2. inNow = Counted' \cap ActionsTo[v]
      <4>1. \A b \in Counted' \cap ActionsTo[v] : b \in Counted /\ \E f \in Into(v) : ActionOf[f] = b
        BY <1>1, <2>0, <3>1, OneReturn, Payments
      <4>2. AutoReturn \notin Into(v)
        BY <3>1, OneReturn DEF Into
      <4>3. \A b \in Counted' \cap ActionsTo[v] : Ahead(b, r)
        BY <1>3, <3>1, <4>1, <4>2 DEF Into
      <4> QED
        BY <2>2, <4>3
    <3>3. outNow = Counted' \cap ActionsFrom[v]
      <4>1. Counted' \cap ActionsFrom[v] = {r}
        BY <1>1, <3>1, GiftThere, OneReturn
      <4>2. ~Ahead(r, r)
        BY <1>1, Order DEF NotAfter
      <4> QED
        BY <2>2, <4>1, <4>2
    <3>4. After(v, a)' = AtEnd(v)'
      BY <2>1, <3>2, <3>3 DEF AtEnd, Total
    <3> QED
      BY <1>4, <3>1, <3>4
  <2>3. CASE a # r
    <3>1. a \in Counted /\ After(v, a) >= 0 /\ a \in Actions
      BY <2>3 DEF PlanInv, FundsPlan, Counted
    <3>2. outNow = out
      <4>1. CASE v # gift
        BY <2>0, <4>1, OneReturn
      <4>2. CASE v = gift
        BY <1>1, <3>1, <4>2, GiftThere
      <4> QED
        BY <4>1, <4>2
    <3>3. in \subseteq inNow /\ inNow \subseteq Actions /\ out \subseteq Actions
      BY <2>0, Payments
    <3>4. After(v, a) = Holdings[v] + Total(in) - Total(out)
      BY DEF After, NotAfter
    <3>5. /\ Total(in) <= Total(inNow) /\ Total(in) \in Nat /\ Total(inNow) \in Nat
          /\ Total(out) \in Nat /\ Holdings[v] \in Nat
      BY <2>0, <3>3, Totals, AccountSets DEF Holders
    <3> HIDE DEF in, inNow, out, outNow
    <3>6. Holdings[v] + Total(inNow) - Total(out) >= 0
      BY ONLY <3>1, <3>4, <3>5
    <3> QED
      BY <2>1, <3>2, <3>6
  <2> QED
    BY <2>2, <2>3
<1>6. ASSUME NEW f \in Fulfillments, Counts(f)', Type[f] \in Closing PROVE AtEnd(Source[f])' = 0
  <2>1. CASE f = AutoReturn
    BY <1>4, <2>1
  <2>2. CASE f # AutoReturn
    <3>1. Counts(f) /\ ~IsDormant(f)
      BY <1>6, <2>2, OneReturn DEF Counts, ReturnPlanInv
    <3>2. Closes(f)
      BY <1>6, <3>1 DEF Closing, Closes, IsDormant
    <3>3. Source[f] # gift /\ Source[f] # Destination[AutoReturn] /\ Source[f] \in Holders
      BY <2>2, <3>1, <3>2, ReturnLast, GiftIssued, Fields
    <3>4. r \notin ActionsTo[Source[f]] /\ r \notin ActionsFrom[Source[f]]
      BY <3>3, OneReturn
    <3>5. /\ Counted' \cap ActionsTo[Source[f]] = Counted \cap ActionsTo[Source[f]]
          /\ Counted' \cap ActionsFrom[Source[f]] = Counted \cap ActionsFrom[Source[f]]
      BY <3>4
    <3>6. AtEnd(Source[f]) = 0
      BY <1>6, <3>1 DEF PlanInv, ClosePlan
    <3> QED
      BY <3>5, <3>6 DEF AtEnd, Total
  <2> QED
    BY <2>1, <2>2
<1> QED
  BY <1>5, <1>6 DEF FundsPlan, ClosePlan

LEMMA PlanReturn ==
    ASSUME TypeOK, StatesInv, PlanInv, ReturnPlanInv, ReturnAction \notin Counted,
           Submitted(Gift), ~Claimed, AutoReturn \in presorted,
           Counted' = Counted \cup {ReturnAction}, UNCHANGED <<intentId, presorted>>
    PROVE  PlanInv'
<1>1. \A a, b : Ahead(a, b)' <=> Ahead(a, b)
  BY DEF Ahead, DormantAction
<1>2. \A f \in Fulfillments : Counts(f)' <=> Counts(f) \/ f = AutoReturn
  BY OneReturn DEF Counts, ReturnAction
<1>3. ASSUME NEW g \in Fulfillments \ {AutoReturn}, Counts(g), Type[g] \in Closing
      PROVE  ~Uses(AutoReturn, Source[g])
  <2>1. ~IsDormant(g)
    BY <1>3 DEF ReturnPlanInv
  <2>2. Closes(g)
    BY <1>3, <2>1 DEF Closing, Closes, IsDormant
  <2> QED
    BY <1>3, <2>2, ReturnLast, GiftIssued DEF Uses
<1>4. ASSUME NEW f \in Fulfillments \ {AutoReturn}, Counts(f), Uses(f, Source[AutoReturn])
      PROVE  Ahead(ActionOf[f], ReturnAction)
  BY <1>4, ReturnLast DEF Uses
<1>5. ASSUME NEW f \in Fulfillments, NEW g \in Fulfillments, Counts(f)', Counts(g)', f # g,
             Type[g] \in Closing, Uses(f, Source[g])
      PROVE  Ahead(ActionOf[f], ActionOf[g])'
  <2>1. CASE f = AutoReturn
    BY <1>2, <1>3, <1>5, <2>1
  <2>2. CASE g = AutoReturn
    BY <1>1, <1>2, <1>4, <1>5, <2>2 DEF ReturnAction
  <2>3. CASE f # AutoReturn /\ g # AutoReturn
    BY <1>1, <1>2, <1>5, <2>3 DEF PlanInv, UsePlan
  <2> QED
    BY <2>1, <2>2, <2>3
<1>6. UsePlan'
  BY <1>5 DEF UsePlan, Uses
<1>7. OpenPlan' /\ KnownPlan'
  BY <1>1 DEF PlanInv, OpenPlan, KnownPlan, Saved, Submitted
<1>8. ASSUME NEW f \in Fulfillments, IsDormant(f), Counts(f)'
      PROVE  /\ f \in presorted'
             /\ \A g \in Fulfillments \ {f} : Counts(g)' /\ Type[g] \in Closing => ~Uses(f, Source[g])
  <2>1. f = AutoReturn
    BY <1>2, <1>8 DEF ReturnPlanInv
  <2> QED
    BY <1>2, <1>3, <2>1
<1>9. DormantPlan'
  BY <1>8 DEF DormantPlan, IsDormant, Uses
<1> QED
  BY <1>6, <1>7, <1>9, FundsReturn DEF PlanInv

\* Nothing that is under way uses the gift card after its return, or counts on it.
LEMMA BooksReturn ==
    ASSUME TypeOK, PlacedInv, StatesInv, BooksInv, ReturnPlanInv, ReturnAction \notin Counted,
           Submitted(Gift), ~Claimed, Counted' = Counted \cup {ReturnAction},
           UNCHANGED <<intentId, ful, outcome, vault, balance>>
    PROVE  BooksInv'
<1> DEFINE r == ReturnAction
<1>1. VaultsInv' /\ NoTransactionFails' /\ (Clean' <=> Clean)
  BY DEF BooksInv, VaultsInv, Succeeded, Clean, NoTransactionFails
<1>2. \A a, b : (Ahead(a, b)' <=> Ahead(a, b)) /\ (NotAfter(a, b)' <=> NotAfter(a, b))
  BY DEF Ahead, NotAfter, DormantAction
<1>3. \A f \in Fulfillments : InFlight(f)' <=> InFlight(f)
  BY DEF InFlight
<1>4. ASSUME NEW v \in Accounts, Clean PROVE BalanceInv(v)' /\ SureInv(v)'
  <2>0. v \in Holders
    BY DEF Holders
  <2>1. DoneTo(v)' = DoneTo(v) /\ DoneFrom(v)' = DoneFrom(v) /\ OutOf(v)' = OutOf(v)
    BY DEF DoneTo, DoneFrom, Into, OutOf
  <2>2. BalanceInv(v) /\ SureInv(v)
    BY <1>4 DEF BooksInv
  <2>3. BalanceInv(v)'
    BY <1>2, <2>1, <2>2 DEF BalanceInv, Total
  <2>4. r \notin DoneTo(v)
    <3>1. outcome[AutoReturn] = "none"
      BY GiftCardRecords DEF PlacedInv, StateInv, StatesInv, Counts, ReturnAction
    <3> QED
      BY <3>1, OneReturn DEF DoneTo, Into
  <2>5. ASSUME NEW f \in OutOf(v), InFlight(f) PROVE Sure(v, ActionOf[f])'
    <3> DEFINE a == ActionOf[f]
    <3>1. f \in Fulfillments /\ Counts(f) /\ a \in Counted /\ a \in ActionsFrom[v] /\ Sure(v, a)
      BY <2>0, <2>2, <2>5, Payments DEF OutOf, StatesInv, Counts, SureInv
    <3>2. v # Source[AutoReturn]
      BY <3>1, GiftThere
    <3>3. r \notin ActionsFrom[v]
      BY <2>0, <3>2, OneReturn
    <3>4. {b \in Counted' : NotAfter(b, a)'} \cap ActionsFrom[v]
            = {b \in Counted : NotAfter(b, a)} \cap ActionsFrom[v]
      BY <1>2, <3>3
    <3>5. Sources(v, a)' = Sources(v, a)
      BY <1>2, <2>1, <2>4, OneReturn DEF Sources, DormantAction
    <3> QED
      BY <3>1, <3>4, <3>5 DEF Sure, Total
  <2>6. SureInv(v)'
    BY <1>3, <2>1, <2>5 DEF SureInv, OutOf
  <2> QED
    BY <2>3, <2>6
<1> QED
  BY <1>1, <1>4 DEF BooksInv

LEMMA LedgerReturn ==
    ASSUME SeqInv, PlacedInv, GiftLedgerInv, IInv, ScheduleReturn
    PROVE  GiftLedgerInv'
<1> DEFINE r == ReturnAction
<1>1. TypeOK /\ StatesInv /\ PlanInv /\ BooksInv /\ ReturnPlanInv
  BY DEF SeqInv, GiftLedgerInv, LedgerInv
<1>2. /\ actionState[r] \in {"Unknown", "Pending"} /\ actionState' = [actionState EXCEPT ![r] = "Pending"]
      /\ returner = "schedule" /\ returner' = "activate"
      /\ UNCHANGED <<intentId, presorted, ful, outcome, vault, balance>>
  BY DEF ScheduleReturn, chainVars
<1>3. AutoReturn \in presorted /\ ~Claimed /\ r \in Actions /\ DormantAction(r) /\ IntentOf[r] = Gift
  BY <1>1, <1>2, OneReturn DEF ReturnPlanInv, IInv, ReturnInv
<1>4. Submitted(Gift)
  BY <1>1, <1>2, <1>3 DEF StatesInv
<1>5. actionState'[r] = "Pending" /\ \A a \in Actions \ {r} : actionState'[a] = actionState[a]
  BY <1>1, <1>2, <1>3 DEF TypeOK
<1>6. Counted' = Counted \cup {r}
  BY <1>3, <1>5 DEF Counted
<1>7. \A f \in Fulfillments : Counts(f)' <=> Counts(f) \/ f = AutoReturn
  BY <1>6, OneReturn DEF Counts, ReturnAction
<1>8. ReturnPlanInv'
  BY <1>1, <1>2, <1>3, <1>7 DEF ReturnPlanInv, IsDormant
<1>9. StatesInv'
  <2>1. \A a \in Actions : /\ actionState'[a] = "None" <=> ~Submitted(IntentOf[a])'
                           /\ actionState'[a] = "Revoked" => DormantAction(a)'
    BY <1>1, <1>2, <1>3, <1>4, <1>5 DEF StatesInv, Submitted, DormantAction
  <2>2. ASSUME NEW f \in Fulfillments
        PROVE  /\ ful'[f] = "None" <=> ~Saved(f)'
               /\ ful'[f] = "Revoked" => actionState'[ActionOf[f]] = "Revoked"
               /\ InFlight(f)' => Counts(f)'
    BY <1>1, <1>2, <1>3, <1>5, <1>7, Fields DEF StatesInv, Saved, Submitted, InFlight
  <2> QED
    BY <2>1, <2>2 DEF StatesInv
<1>10. CASE r \in Counted
  <2>1. Counted' = Counted /\ presorted \subseteq presorted'
    BY <1>2, <1>6, <1>10
  <2>2. \A f : InFlight(f)' => InFlight(f)
    BY <1>2 DEF InFlight
  <2>3. PlanInv' /\ BooksInv'
    BY <1>1, <1>2, <2>1, <2>2, PlanKept, BooksFrame
  <2> QED
    BY <1>8, <1>9, <2>3 DEF GiftLedgerInv, LedgerInv
<1>11. CASE r \notin Counted
  <2>1. PlanInv' /\ BooksInv'
    BY <1>1, <1>2, <1>3, <1>4, <1>6, <1>11, PlanReturn, BooksReturn
  <2> QED
    BY <1>8, <1>9, <2>1 DEF GiftLedgerInv, LedgerInv
<1> QED
  BY <1>10, <1>11

\* What is submitted leaves the account the gift is returned from and the one it is
\* returned to as they are.
LEMMA GiftSpared ==
    ASSUME StatesInv, ReturnPlanInv, IInv, NEW i \in Intents, SubmitIntent(i),
           i = Gift \/ i \in Claims => Unreturned \/ ~Submitted(Gift)
    PROVE  SparesDormant(i)
<1> SUFFICES ASSUME NEW f \in FulfillmentsOf[i], NEW d \in Fulfillments,
                    ~IsDormant(f), IsDormant(d), Counts(d)
             PROVE  ~Uses(f, Source[d]) /\ (Closes(f) => ~Uses(d, Source[f]))
  BY DEF SparesDormant
<1>1. d = AutoReturn
  BY DEF ReturnPlanInv
<1>2. ~Unreturned /\ Submitted(Gift)
  BY <1>1, OneReturn DEF Counts, Counted, ReturnAction, Unreturned, StatesInv, DormantAction
<1>3. i \notin {Gift} \cup Claims
  BY <1>2
<1>4. f \in Fulfillments \ {AutoReturn} /\ IntentOf[ActionOf[f]] = i
  BY GiftCardRecords DEF FulfillmentsOf
<1> QED
  BY <1>1, <1>3, <1>4, GiftIssued DEF Uses

LEMMA PresortedKept == SequencerStep => presorted' = presorted
BY DEF SequencerStep, Progress, Schedule, Postpone, RevokeAction, Revoke, ReleaseAdvance, Execute,
       UpdateAction, UpdateIntent, OnSuccess, Refuse, Settle, Notice, CommitmentOpens, Fault,
       Interrupt, ObserveVault, recordVars

LEMMA GiftLedgerStep ==
    ASSUME ComposedInv, PlacedInv, IInv, GiftLedgerInv, [GiftNext]_vars
    PROVE  GiftLedgerInv'
<1>1. SeqInv /\ LedgerInv /\ StatesInv /\ ReturnPlanInv
  BY DEF ComposedInv, GiftLedgerInv, LedgerInv
<1>2. ASSUME LedgerInv', Counted' = Counted, UNCHANGED <<presorted, returner>> PROVE GiftLedgerInv'
  BY <1>1, <1>2 DEF GiftLedgerInv, ReturnPlanInv, Counts, IsDormant
<1>3. CASE SequencerStep /\ UNCHANGED giftVars
  <2>1. LedgerInv' /\ Counted' = Counted
    BY <1>1, <1>3, LedgerStep
  <2>2. UNCHANGED <<presorted, returner>>
    BY <1>3, PresortedKept DEF giftVars
  <2> QED
    BY <1>2, <2>1, <2>2
<1>4. ASSUME NEW i \in Intents, SubmitIntent(i), UNCHANGED returner,
             i = Gift \/ i \in Claims => Unreturned \/ ~Submitted(Gift)
      PROVE  GiftLedgerInv'
  <2>1. LedgerInv'
    BY <1>1, <1>4, GiftSpared, LedgerSubmit
  <2>2. \A f \in Fulfillments : Counts(f)' => Counts(f) \/ ~IsDormant(f)
    BY <1>1, <1>4, SubmitCounts
  <2>3. presorted' = presorted
    BY <1>4 DEF SubmitIntent
  <2> QED
    BY <1>1, <1>4, <2>1, <2>2, <2>3 DEF GiftLedgerInv, ReturnPlanInv, IsDormant
<1>5. CASE Issue
  BY <1>4, <1>5, GiftCardRecords DEF Issue, SubmitIntent
<1>6. ASSUME NEW i \in Claims, CommitClaim(i) PROVE GiftLedgerInv'
  <2>1. SubmitIntent(i) /\ claimer = i /\ UNCHANGED returner
    BY <1>6 DEF CommitClaim
  <2>2. Unreturned
    BY <2>1, GiftCardRecords DEF IInv, ClaimInv
  <2> QED
    BY <1>4, <1>6, <2>1, <2>2, GiftCardRecords
<1>7. CASE ScheduleReturn
  BY <1>1, <1>7, LedgerReturn
<1>8. ASSUME UNCHANGED <<intentId, actionState, ful, outcome, vault, balance>>,
             presorted \subseteq presorted', returner' \in {"schedule", "activate"} => AutoReturn \in presorted'
      PROVE  GiftLedgerInv'
  <2>1. LedgerInv' /\ Counted' = Counted
    BY <1>1, <1>8, LedgerFrame
  <2> QED
    BY <1>1, <1>8, <2>1 DEF GiftLedgerInv, ReturnPlanInv, Counts, IsDormant
<1>9. CASE Presort
  BY <1>8, <1>9 DEF Presort, chainVars
<1>10. CASE UNCHANGED sequencerVars /\ returner' \in {returner, "idle", "history", "presort", "complete"}
  BY <1>1, <1>8, <1>10 DEF sequencerVars, recordVars, chainVars, ReturnPlanInv
<1>11. CASE Activate
  BY <1>8, <1>11 DEF Activate, recordVars, chainVars
<1>12. ASSUME \/ CheckGiftCard \/ InsertHistory \/ CompleteCheck \/ RefuseReturn \/ AbandonReturn
              \/ Age \/ DropClaim \/ (\E i \in Claims : ValidateClaim(i)) \/ UNCHANGED vars
       PROVE  UNCHANGED sequencerVars /\ returner' \in {returner, "idle", "history", "presort", "complete"}
  BY <1>12 DEF CheckGiftCard, InsertHistory, CompleteCheck, RefuseReturn, AbandonReturn, Age,
                DropClaim, ValidateClaim, vars, giftVars
<1>13. ASSUME NEW i \in Intents \ ({Gift} \cup Claims), SubmitIntent(i), UNCHANGED giftVars
       PROVE  GiftLedgerInv'
  BY <1>4, <1>13 DEF giftVars
<1>14. CASE ReturnStep \/ AbandonReturn \/ Age \/ DropClaim
  BY <1>7, <1>9, <1>10, <1>11, <1>12, <1>14 DEF ReturnStep
<1>15. ASSUME NEW i \in Claims, ValidateClaim(i) PROVE GiftLedgerInv'
  BY <1>10, <1>12, <1>15
<1>16. CASE UNCHANGED vars
  BY <1>10, <1>12, <1>16
<1> QED
  BY <1>3, <1>5, <1>6, <1>13, <1>14, <1>15, <1>16 DEF GiftNext

LEMMA GiftLedgerInvariance == GiftSpec => []GiftLedgerInv
<1>1. GiftInit => GiftLedgerInv
  <2> SUFFICES ASSUME GiftInit PROVE GiftLedgerInv
    OBVIOUS
  <2>1. LedgerInv
    BY LedgerInit DEF GiftInit
  <2>2. \A f \in Fulfillments : ~Counts(f)
    BY Fields DEF GiftInit, Init, Counts, Counted
  <2> QED
    BY <2>1, <2>2 DEF GiftInit, GiftLedgerInv, ReturnPlanInv
<1>2. ComposedInv /\ PlacedInv /\ IInv /\ GiftLedgerInv /\ [GiftNext]_vars => GiftLedgerInv'
  BY GiftLedgerStep
<1> QED
  BY <1>1, <1>2, ComposedInvariance, ComposedPlacedInvariance, Invariance, PTL DEF GiftSpec

\* Also with the gift that is returned: no transaction the scheduler lets through
\* fails or moves less than it is meant to.  The return takes what the claim would
\* have taken, it is in line before whatever counts on it
\* (updateCloseDormantAccountFulfillmentPreSorting), and nothing uses the gift card
\* after it.
THEOREM GiftNothingFails == GiftSpec => []NoTransactionFails
<1>1. GiftLedgerInv => NoTransactionFails
  BY DEF GiftLedgerInv, LedgerInv, BooksInv
<1> QED
  BY <1>1, GiftLedgerInvariance, PTL

=============================================================================
