-------------------------------- MODULE GiftCard --------------------------------
(***************************************************************************)
(* A remote send: the issuer pays a gift card account, whoever holds its   *)
(* key claims what is in it, and after a day without a claim the server    *)
(* returns it.  Modelled: the validation and the commit of a claim by      *)
(* SubmitIntent (pkg/code/server/grpc/transaction/v2), the auto-return     *)
(* worker (pkg/code/async/account), both composed with the sequencer that  *)
(* executes what they leave in the database.                               *)
(*                                                                         *)
(* The claims share the striped lock of the gift card's vault; the worker  *)
(* takes no lock and relies on the time between the end of the claim       *)
(* window and the expiry of the gift card.                                 *)
(***************************************************************************)
EXTENDS Sequencer

CONSTANTS
    Gift,           \* the SendPrivatePayment intent that issues the gift card
    AutoReturn,     \* its CloseDormantTimelockAccount fulfillment
    Claims,         \* intents that claim it (ReceivePaymentsPublicly)
    NoClaim         \* nobody holds the lock of the gift card

ASSUME GiftCardRecords ==
    /\ Gift \in Intents
    /\ AutoReturn \in Fulfillments
    /\ IsDormant(AutoReturn)
    /\ IntentOf[ActionOf[AutoReturn]] = Gift
    /\ Claims \subseteq Intents \ {Gift}
    /\ NoClaim \notin Claims

VARIABLES
    age,            \* of the gift card account: see Ages
    claimer,        \* the claim that was validated and is not committed yet
    claimedAt,      \* the age at which it was
    check,          \* account.Record.RequiresAutoReturnCheck
    history,        \* was the payment history item inserted?
    returner        \* what the auto-return worker does next

claimVars == <<claimer, claimedAt>>
giftVars == <<age, claimVars, check, history, returner>>
vars == <<sequencerVars, giftVars>>

\* Within 24h - 15min; after that; after 24h.
Ages == {"claimable", "late", "expired"}
ReturnSteps == {"idle", "history", "presort", "schedule", "activate", "complete"}

\* The action that returns the gift.
ReturnAction == ActionOf[AutoReturn]

\* The gift card is opened by its intent, which only pays into it; what is returned
\* is the quantity of the intent, to the primary account.  Later only claims use
\* the gift card.
ASSUME GiftIssued ==
    LET gift == Source[AutoReturn]
    IN  /\ Holdings[gift] = 0
        /\ Quantity[ReturnAction] = SumFunctionOnSet(Quantity, ActionsOf[Gift] \cap ActionsTo[gift])
        /\ \A f \in Fulfillments \ {AutoReturn} :
            /\ gift \in {Source[f], Destination[f]} =>
                ~IsDormant(f) /\ IntentOf[ActionOf[f]] \in {Gift} \cup Claims
            /\ Source[f] = gift /\ IntentOf[ActionOf[f]] = Gift => Type[f] = "Initialize"
            /\ Closes(f) => Source[f] # Destination[AutoReturn]
\* GetGiftCardClaimedAction finds one.
Claimed == \E i \in Claims : Submitted(i)

GiftTypeOK ==
    /\ TypeOK
    /\ age \in Ages
    /\ claimer \in Claims \cup {NoClaim}
    /\ claimedAt \in Ages
    /\ check \in BOOLEAN
    /\ history \in BOOLEAN
    /\ returner \in ReturnSteps

GiftInit ==
    /\ Init
    /\ age = "claimable"
    /\ claimer = NoClaim
    /\ claimedAt = "claimable"
    /\ check = FALSE
    /\ history = FALSE
    /\ returner = "idle"

\* The account of the gift card is created with the intent that issues it.
Issue ==
    /\ SubmitIntent(Gift)
    /\ check' = TRUE
    /\ UNCHANGED <<age, claimVars, history, returner>>

\* Time passes.  The RPC of a claim has a deadline of seconds, so that it does
\* not last longer than from one age to the next.
Age ==
    /\ Submitted(Gift)
    /\ \/ age = "claimable" /\ age' = "late"
       \/ age = "late" /\ (claimer = NoClaim \/ claimedAt = "late") /\ age' = "expired"
    /\ UNCHANGED <<sequencerVars, claimVars, check, history, returner>>

\* Mutant: a gift card can be claimed until it expires.
ValidateClaimLate(i) ==
    /\ claimer = NoClaim
    /\ Submitted(Gift) /\ ~Submitted(i)
    /\ ~Claimed
    /\ actionState[ReturnAction] = "Unknown"
    /\ timelock[Source[AutoReturn]] # "Closed"
    /\ CachedBalance(Source[AutoReturn], {}, {}) > 0
    /\ age # "expired"
    /\ claimer' = i
    /\ claimedAt' = age
    /\ UNCHANGED <<sequencerVars, age, check, history, returner>>

\* validateClaimedGiftCard, under the lock of the gift card.
ValidateClaim(i) ==
    /\ claimer = NoClaim
    /\ Submitted(Gift) /\ ~Submitted(i)
    /\ ~Claimed
    /\ actionState[ReturnAction] = "Unknown"
    /\ timelock[Source[AutoReturn]] # "Closed"
    /\ CachedBalance(Source[AutoReturn], {}, {}) > 0
    /\ age = "claimable"
    /\ claimer' = i
    /\ claimedAt' = age
    /\ UNCHANGED <<sequencerVars, age, check, history, returner>>

\* The client signed, and the records of the claim are saved.
CommitClaim(i) ==
    /\ claimer = i
    /\ SubmitIntent(i)
    /\ claimer' = NoClaim
    /\ claimedAt' = "claimable"
    /\ UNCHANGED <<age, check, history, returner>>

\* The RPC of the claim fails.
DropClaim ==
    /\ claimer # NoClaim
    /\ claimer' = NoClaim
    /\ claimedAt' = "claimable"
    /\ UNCHANGED <<sequencerVars, age, check, history, returner>>

\* The worker picks the gift card up when it is expired.
CheckGiftCard ==
    /\ returner = "idle"
    /\ check /\ age = "expired"
    /\ returner' = IF Claimed THEN "complete" ELSE "history"
    /\ UNCHANGED <<sequencerVars, age, claimVars, check, history>>

\* insertAutoReturnPaymentHistoryItem.
InsertHistory ==
    /\ returner = "history"
    /\ history' = TRUE
    /\ returner' = "presort"
    /\ UNCHANGED <<sequencerVars, age, claimVars, check>>

\* updateCloseDormantAccountFulfillmentPreSorting.
Presort ==
    /\ returner = "presort"
    /\ AutoReturn \in presorted \/ ful[AutoReturn] = "Unknown"
    /\ presorted' = presorted \cup {AutoReturn}
    /\ returner' = "schedule"
    /\ UNCHANGED <<intentId, intentState, actionState, ful, awake, sideVars, chainVars,
                   step, noticed, age, claimVars, check, history>>

\* scheduleCloseDormantAccountAction.
ScheduleReturn ==
    /\ returner = "schedule"
    /\ actionState[ReturnAction] \in {"Unknown", "Pending"}
    /\ actionState' = [actionState EXCEPT ![ReturnAction] = "Pending"]
    /\ returner' = "activate"
    /\ UNCHANGED <<intentId, intentState, presorted, ful, awake, sideVars, chainVars,
                   step, noticed, age, claimVars, check, history>>

\* markFulfillmentAsActivelyScheduled.
Activate ==
    /\ returner = "activate"
    /\ AutoReturn \in awake \/ ful[AutoReturn] = "Unknown"
    /\ awake' = awake \cup {AutoReturn}
    /\ returner' = "complete"
    /\ UNCHANGED <<recordVars, ful, sideVars, chainVars, step, noticed,
                   age, claimVars, check, history>>

\* markAutoReturnCheckComplete.
CompleteCheck ==
    /\ returner = "complete"
    /\ check' = FALSE
    /\ returner' = "idle"
    /\ UNCHANGED <<sequencerVars, age, claimVars, history>>

\* scheduleCloseDormantAccountAction refuses an action that is past pending.
Refused == returner = "schedule" /\ actionState[ReturnAction] \notin {"Unknown", "Pending"}

RefuseReturn ==
    /\ Refused
    /\ returner' = "idle"
    /\ UNCHANGED <<sequencerVars, age, claimVars, check, history>>

\* An error, or a restart: the gift card is picked up again, if it is still in
\* the queue.
AbandonReturn ==
    /\ returner # "idle"
    /\ ~Refused
    /\ returner' = "idle"
    /\ UNCHANGED <<sequencerVars, age, claimVars, check, history>>

ReturnStep == CheckGiftCard \/ InsertHistory \/ Presort \/ ScheduleReturn \/ Activate
                \/ CompleteCheck \/ RefuseReturn

GiftNext ==
    \/ SequencerStep /\ UNCHANGED giftVars
    \/ \E i \in Intents \ ({Gift} \cup Claims) : SubmitIntent(i) /\ UNCHANGED giftVars
    \/ Issue \/ Age \/ DropClaim \/ ReturnStep \/ AbandonReturn
    \/ \E i \in Claims : ValidateClaim(i) \/ CommitClaim(i)

GiftSpec == GiftInit /\ [][GiftNext]_vars

(***************************************************************************)
(* Fairness.  The workers poll again and again and handle what they find;  *)
(* a transaction that was sent is executed or fails; commitments open and  *)
(* the flood gates of the treasury open in the end; claims end; time       *)
(* passes.  One condition is enough for all of the sequencer: whatever it  *)
(* does next is a step forward.                                            *)
(***************************************************************************)
GiftFairSpec ==
    /\ GiftSpec
    /\ WF_vars(Progress /\ UNCHANGED giftVars)
    /\ WF_vars(ReturnStep)
    /\ WF_vars(Age)
    /\ WF_vars(DropClaim \/ \E i \in Claims : CommitClaim(i))

(***************************************************************************)
(* Properties.                                                             *)
(***************************************************************************)

\* A gift card is claimed once or returned, never both: the window of a claim
\* and the expiry leave no time in which the one does not see the other
\* (validateClaimedGiftCard, maybeInitiateGiftCardAutoReturn).
OneWayOut ==
    LET claims == {i \in Claims : Submitted(i)}
    IN  /\ Cardinality(claims) <= 1
        /\ claims # {} => actionState[ReturnAction] \in {"Unknown", "Revoked"}

\* What keeps an intent from its end: a transaction that failed, an advance that
\* can no longer be settled, errors that never stop.
Hopeless ==
    \/ \E f \in Faulty : outcome[f] = "failed"
    \/ \E f \in Fulfillments : Overtaken(f)
Broken == AbandonReturn \/ \E f \in Fragile : Interrupt(f)

\* The gift card is emptied and closed, and the transaction that was kept to
\* return it is used or revoked.
Emptied ==
    /\ vault[Source[AutoReturn]] = "closed"
    /\ ful[AutoReturn] \in {"Confirmed", "Revoked"}

\* Every gift leaves its card in the end, by a claim or by the auto-return, and
\* every payment and receipt is executed and confirmed: the wake-ups reach each
\* fulfillment whose polling is disabled, and no two wait on each other.
AllSettled ==
    /\ Submitted(Gift) => Emptied
    /\ \A i \in Intents : IntentType[i] # "OpenAccounts" /\ Submitted(i) =>
            intentState[i] = "Confirmed"
EveryPaymentSettles == <>[][~Broken]_vars => []<>(AllSettled \/ Hopeless)

=============================================================================
