------------------------------- MODULE Sequencer -------------------------------
(***************************************************************************)
(* The sequencer (pkg/code/async/sequencer): it decides when the           *)
(* fulfillments of the submitted intents go to the blockchain, and records *)
(* what became of them in the action, the intent, the timelock account,    *)
(* the payment history and the commitment.  Modelled: the contextual       *)
(* scheduler, the handlers of the fulfillments that open user accounts and *)
(* move or close them, the action and the intent handlers with the         *)
(* wake-ups of fulfillments whose polling is disabled, and the two workers.*)
(*                                                                         *)
(* A fulfillment is the transaction it stands for; the nonce under it is   *)
(* in NoncePool, the funds of the treasury and the fulfillments of a       *)
(* commitment after its advance are in Commitment.  Here a commitment only *)
(* opens at some time after the sequencer marked it ready to.              *)
(***************************************************************************)
EXTENDS Integers, FiniteSets, Functions

CONSTANTS
    Fulfillments,   \* the fulfillments of the intents that may be submitted
    Type,           \* fulfillment.Type of each
    Source,         \* the token account each is from
    Destination,    \* the token account each is to; its source if it has none
    ActionOf,       \* the action each belongs to
    Actions,
    ActionType,     \* action.Type of each
    ActionId,       \* its index in its intent
    Quantity,       \* quarks it moves (of a CloseDormantAccount, once scheduled)
    IntentOf,       \* the intent it belongs to
    Intents,
    IntentType,     \* intent.Type of each
    Asleep,         \* fulfillments saved with DisableActiveScheduling
    Accounts,       \* user accounts, each with a timelock record
    External,       \* accounts without one: always on the blockchain
    Primary,        \* user accounts of type PRIMARY
    Opened,         \* user accounts that are open when the model starts
    Holdings,       \* quarks in each of them
    Observed,       \* user accounts whose Geyser updates may come in first
    Faulty,         \* fulfillments whose transaction may fail for other reasons
    Fragile,        \* fulfillments the handling of which may be interrupted
    MaxGlobalFailed,\* conf.maxGlobalFailedFulfillments
    Batch           \* pending fulfillments a worker has in hand, at most

FulfillmentTypes == {"Initialize", "Transfer", "Withdraw", "Advance", "Temporary",
                     "CloseEmpty", "CloseDormant"}
ActionTypes == {"OpenAccount", "NoPrivacyTransfer", "NoPrivacyWithdraw",
                "PrivateTransfer", "CloseEmptyAccount", "CloseDormantAccount"}
IntentTypes == {"OpenAccounts", "SendPrivatePayment", "ReceivePaymentsPrivately",
                "SendPublicPayment", "ReceivePaymentsPublicly"}

ASSUME Records ==
    /\ Type \in [Fulfillments -> FulfillmentTypes]
    /\ Source \in [Fulfillments -> Accounts \cup External]
    /\ Destination \in [Fulfillments -> Accounts \cup External]
    /\ ActionOf \in [Fulfillments -> Actions]
    /\ ActionType \in [Actions -> ActionTypes]
    /\ ActionId \in [Actions -> Nat]
    /\ Quantity \in [Actions -> Nat]
    /\ IntentOf \in [Actions -> Intents]
    /\ IntentType \in [Intents -> IntentTypes]
    /\ Asleep \subseteq Fulfillments
    /\ IsFiniteSet(Actions)
ASSUME AccountSets ==
    /\ Accounts \cap External = {}
    /\ Primary \subseteq Accounts
    /\ Opened \subseteq Accounts
    /\ Observed \subseteq Accounts
    /\ Holdings \in [Accounts \cup External -> Nat]
ASSUME SequencerBounds ==
    /\ MaxGlobalFailed \in Nat
    /\ Batch \in Nat \ {0}
    /\ Faulty \subseteq Fulfillments
    /\ Fragile \subseteq Fulfillments

\* What SubmitIntent builds: which fulfillments an action has.
ASSUME FulfillmentsOfAction ==
    \A f \in Fulfillments :
        ActionType[ActionOf[f]] =
            CASE Type[f] = "Initialize" -> "OpenAccount"
              [] Type[f] = "Transfer" -> "NoPrivacyTransfer"
              [] Type[f] = "Withdraw" -> "NoPrivacyWithdraw"
              [] Type[f] \in {"Advance", "Temporary"} -> "PrivateTransfer"
              [] Type[f] = "CloseEmpty" -> "CloseEmptyAccount"
              [] Type[f] = "CloseDormant" -> "CloseDormantAccount"
\*   An action has one fulfillment of a type, and what is opened or closed is a
\*   user account.
ASSUME OneOfEachType ==
    \A f, g \in Fulfillments : ActionOf[f] = ActionOf[g] /\ Type[f] = Type[g] => f = g
ASSUME OpenedAndClosed ==
    \A f \in Fulfillments :
        Type[f] \in {"Initialize", "Withdraw", "CloseEmpty", "CloseDormant"} => Source[f] \in Accounts
\*   A private transfer goes through the treasury: its advance is from there, its
\*   temporary transfer to the vault of a commitment.  What is withdrawn leaves.
ASSUME ThroughTreasury ==
    \A f \in Fulfillments :
        /\ Type[f] = "Advance" => Source[f] \in External
        /\ Type[f] = "Temporary" => Destination[f] \in External
        /\ Type[f] \in {"Withdraw", "CloseDormant"} => Source[f] # Destination[f]

Holders == Accounts \cup External

VARIABLES
    intentId,       \* intent.Record.Id, assigned at its commit; 0 before it
    intentState,
    actionState,
    ful,            \* fulfillment.State, None before it is saved
    awake,          \* those that are polled: DisableActiveScheduling is false
    presorted,      \* CloseDormant ones at the end of their own intent
    timelock,       \* the VaultState of each account's timelock record
    commitment,     \* the commitment of each private transfer
    payments,       \* fulfillments with a payment record
    outcome,        \* blockchain: the fate of each transaction
    vault,          \* blockchain: does the account exist?
    balance,        \* blockchain: quarks in it
    step,           \* what the pending worker does next to a fulfillment
    noticed         \* failed fulfillments the circuit breakers know of

recordVars == <<intentId, intentState, actionState, presorted>>
chainVars  == <<outcome, vault, balance>>
sideVars   == <<timelock, commitment, payments>>
sequencerVars == <<recordVars, ful, awake, sideVars, chainVars, step, noticed>>

FulfillmentStates == {"None", "Unknown", "Pending", "Confirmed", "Failed", "Revoked"}
ActionStates == {"None", "Unknown", "Pending", "Confirmed", "Failed", "Revoked"}
IntentStates == {"None", "Pending", "Confirmed", "Failed"}
Steps == {"idle", "intent", "success", "settle"}

TypeOK ==
    /\ intentId \in [Intents -> 0 .. Cardinality(Intents)]
    /\ intentState \in [Intents -> IntentStates]
    /\ actionState \in [Actions -> ActionStates]
    /\ ful \in [Fulfillments -> FulfillmentStates]
    /\ awake \subseteq Fulfillments
    /\ presorted \subseteq Fulfillments
    /\ timelock \in [Accounts -> {"Unknown", "Locked", "Closed"}]
    /\ commitment \in [Actions -> {"Unknown", "PayingDestination", "ReadyToOpen", "Open"}]
    /\ payments \subseteq Fulfillments
    /\ outcome \in [Fulfillments -> {"none", "done", "short", "failed"}]
    /\ vault \in [Accounts -> {"absent", "open", "closed"}]
    /\ balance \in [Holders -> Int]
    /\ step \in [Fulfillments -> Steps]
    /\ noticed \subseteq Fulfillments

Init ==
    /\ intentId = [i \in Intents |-> 0]
    /\ intentState = [i \in Intents |-> "None"]
    /\ actionState = [a \in Actions |-> "None"]
    /\ ful = [f \in Fulfillments |-> "None"]
    /\ awake = {}
    /\ presorted = {}
    /\ timelock = [v \in Accounts |-> IF v \in Opened THEN "Locked" ELSE "Unknown"]
    /\ commitment = [a \in Actions |-> "Unknown"]
    /\ payments = {}
    /\ outcome = [f \in Fulfillments |-> "none"]
    /\ vault = [v \in Accounts |-> IF v \in Opened THEN "open" ELSE "absent"]
    /\ balance = Holdings
    /\ step = [f \in Fulfillments |-> "idle"]
    /\ noticed = {}

(***************************************************************************)
(* Submission.  The records of an intent are saved in one transaction      *)
(* (SubmitIntent), and the ordering index of its fulfillments is the id    *)
(* the intent's row was given.                                             *)
(***************************************************************************)

ActionsOf == [i \in Intents |-> {a \in Actions : IntentOf[a] = i}]
FulfillmentsOf == [i \in Intents |-> {f \in Fulfillments : IntentOf[ActionOf[f]] = i}]
IsDormant(f) == Type[f] = "CloseDormant"
Closes(f) == Type[f] \in {"Withdraw", "CloseEmpty"}
OfAction(a, type) == {f \in Fulfillments : ActionOf[f] = a /\ Type[f] = type}
Submitted(i) == intentId[i] # 0

\* Action.Source and Action.Destination: a private transfer is from the source
\* of its temporary transfer to the destination of its advance.
ActionsFrom == [v \in Holders |-> {ActionOf[f] : f \in {g \in Fulfillments :
    Source[g] = v /\ Type[g] \notin {"Advance", "Initialize", "CloseEmpty"}}}]
ActionsTo == [v \in Holders |-> {ActionOf[f] : f \in {g \in Fulfillments :
    Destination[g] = v /\ Type[g] \notin {"Temporary", "Initialize", "CloseEmpty"}}}]

\* A CloseDormantAccount action has no quantity before it is scheduled.
Counted == {a \in Actions :
    /\ actionState[a] \notin {"None", "Revoked"}
    /\ ActionType[a] = "CloseDormantAccount" => actionState[a] # "Unknown"}

\* The balance of an account by the actions submitted so far and some more.
CachedBalance(v, received, sent) ==
    Holdings[v] + SumFunctionOnSet(Quantity, (Counted \cup received) \cap ActionsTo[v])
                - SumFunctionOnSet(Quantity, (Counted \cup sent) \cap ActionsFrom[v])

\* Action by action, no account is in the red, the source of a transfer being
\* debited first; one that is closed is empty at the end (LocalSimulation, and the
\* intent handlers for one that is withdrawn from).
Funded(i) ==
    LET actions == {a \in ActionsOf[i] : ActionType[a] # "CloseDormantAccount"}
    IN  /\ \A v \in Accounts : \A a \in actions \cap ActionsFrom[v] :
            CachedBalance(v, {b \in actions : ActionId[b] < ActionId[a]},
                             {b \in actions : ActionId[b] <= ActionId[a]}) >= 0
        /\ \A f \in FulfillmentsOf[i] :
            Closes(f) => CachedBalance(Source[f], actions, actions) = 0

\* The accounts of an intent have records: it opens them before it uses them, or
\* an intent before it does.
Known(i) ==
    \A f \in FulfillmentsOf[i] : \A v \in {Source[f], Destination[f]} \cap (Accounts \ Opened) :
        \E g \in Fulfillments :
            /\ Type[g] = "Initialize" /\ Source[g] = v
            /\ \/ Submitted(IntentOf[ActionOf[g]])
               \/ /\ IntentOf[ActionOf[g]] = i
                  /\ g = f \/ ActionId[ActionOf[g]] < ActionId[ActionOf[f]]

\* An account is opened once.
OpensNew(i) ==
    \A f \in FulfillmentsOf[i] : Type[f] = "Initialize" =>
        /\ Source[f] \notin Opened
        /\ \A g \in Fulfillments \ {f} : Type[g] = "Initialize" /\ Source[g] = Source[f] =>
                IntentOf[ActionOf[g]] # i /\ ~Submitted(IntentOf[ActionOf[g]])

\* An account that is closed is not used any more.
KeepsClosed(i) ==
    \A f \in FulfillmentsOf[i] : \A g \in Fulfillments \ {f} :
        ~IsDormant(f) /\ Closes(g) /\ Source[g] \in {Source[f], Destination[f]} =>
            /\ ~Submitted(IntentOf[ActionOf[g]])
            /\ IntentOf[ActionOf[g]] = i => ActionId[ActionOf[f]] < ActionId[ActionOf[g]]

SubmitIntent(i) ==
    /\ ~Submitted(i)
    /\ Known(i)
    /\ OpensNew(i)
    /\ KeepsClosed(i)
    /\ Funded(i)
    /\ intentId' = [intentId EXCEPT ![i] = Cardinality({j \in Intents : Submitted(j)}) + 1]
    /\ intentState' = [intentState EXCEPT ![i] = "Pending"]
    /\ actionState' = [a \in Actions |->
            IF IntentOf[a] # i THEN actionState[a]
            ELSE IF ActionType[a] = "CloseDormantAccount" THEN "Unknown" ELSE "Pending"]
    /\ ful' = [f \in Fulfillments |-> IF f \in FulfillmentsOf[i] THEN "Unknown" ELSE ful[f]]
    /\ awake' = awake \cup (FulfillmentsOf[i] \ Asleep)
    /\ UNCHANGED <<presorted, sideVars, chainVars, step, noticed>>

(***************************************************************************)
(* The order of fulfillments (fulfillment.ScheduledBefore): by the id of   *)
(* the intent, the index of the action, the index of the fulfillment in    *)
(* its action.  A CloseDormant one is behind everything else until it is   *)
(* presorted to the end of its own intent.                                 *)
(***************************************************************************)

Behind == Cardinality(Intents) + 1

Before(f, g) ==
    LET intent(h) == IF IsDormant(h) /\ h \notin presorted THEN Behind
                     ELSE intentId[IntentOf[ActionOf[h]]]
        last(h) == IsDormant(h) /\ h \in presorted
    IN  \/ intent(f) < intent(g)
        \/ /\ intent(f) = intent(g)
           /\ \/ ~last(f) /\ last(g)
              \/ /\ ~last(f) /\ ~last(g) /\ ~IsDormant(f) /\ ~IsDormant(g)
                 /\ \/ ActionId[ActionOf[f]] < ActionId[ActionOf[g]]
                    \/ ActionOf[f] = ActionOf[g] /\ Type[f] = "Advance" /\ Type[g] = "Temporary"

Schedulable(f) == ful[f] \in {"Unknown", "Pending"}

\* GetFirstSchedulableFulfillmentByAddressAs{Destination, Source}(v), and it is
\* scheduled before f.
EarlierInto(v, f) == \E g \in Fulfillments :
    Schedulable(g) /\ Type[g] \notin {"Initialize", "CloseEmpty"}
        /\ Destination[g] = v /\ Before(g, f)
EarlierFrom(v, f) == \E g \in Fulfillments :
    Schedulable(g) /\ Source[g] = v /\ Before(g, f)

\* GetNextSchedulableFulfillmentByAddress from f on.
NextUse(v, f) == {g \in Fulfillments :
    /\ Schedulable(g) /\ v \in {Source[g], Destination[g]} /\ Before(f, g)
    /\ \A h \in Fulfillments :
        Schedulable(h) /\ v \in {Source[h], Destination[h]} /\ Before(f, h) => ~Before(h, g)}

(***************************************************************************)
(* Scheduling: contextualScheduler.CanSubmitToBlockchain, and the method   *)
(* of the same name of each handler.                                       *)
(***************************************************************************)

OnBlockchain(v) == v \in External \/ timelock[v] = "Locked"

\* The accounts a handler looks up, the next one only if the first is there.
LooksUp(f) ==
    CASE Type[f] \in {"Transfer", "Withdraw", "CloseDormant"} -> <<Source[f], Destination[f]>>
      [] Type[f] = "Advance" -> <<Destination[f]>>
      [] Type[f] = "Temporary" /\ commitment[ActionOf[f]] = "Open" -> <<Source[f]>>
      [] OTHER -> <<>>

Missing(f) == {LooksUp(f)[n] : n \in {m \in DOMAIN LooksUp(f) :
    ~OnBlockchain(LooksUp(f)[m]) /\ \A k \in 1 .. m - 1 : OnBlockchain(LooksUp(f)[k])}}

CanInitialize(f) ==
    \/ Source[f] \in Primary
    \/ \E g \in NextUse(Source[f], f) :
        /\ Type[g] \in {"Transfer", "Withdraw", "Advance"}
        /\ Source[g] # Source[f]

\* Mutant: a payment does not wait for those before it into its source.
CanSubmitUnfunded(f) ==
    /\ Missing(f) = {}
    /\ Type[f] = "Initialize" => CanInitialize(f)
    /\ Type[f] = "Temporary" => commitment[ActionOf[f]] = "Open"
    /\ Type[f] \in {"Withdraw", "CloseEmpty", "CloseDormant"} => ~EarlierFrom(Source[f], f)

CanSubmit(f) ==
    /\ Missing(f) = {}
    /\ Type[f] = "Initialize" => CanInitialize(f)
    /\ Type[f] = "Temporary" => commitment[ActionOf[f]] = "Open"
    /\ Type[f] \in {"Transfer", "Withdraw", "Temporary", "CloseEmpty", "CloseDormant"} =>
            ~EarlierInto(Source[f], f)
    /\ Type[f] \in {"Withdraw", "CloseEmpty", "CloseDormant"} => ~EarlierFrom(Source[f], f)

\* The circuit breakers: no failed fulfillment of an account of f or of its
\* intent, and not too many of them overall.
BreakersAllow(f) ==
    /\ \A g \in noticed :
        /\ {Source[f], Destination[f]} \cap {Source[g], Destination[g]} = {}
        /\ IntentOf[ActionOf[g]] # IntentOf[ActionOf[f]]
    /\ Cardinality(noticed) <= MaxGlobalFailed

\* CloseDormant: does IsRevoked say so?
IsRevoked(f) == IsDormant(f) /\ timelock[Source[f]] = "Closed"

Polled(f) ==
    /\ ful[f] = "Unknown"
    /\ f \in awake
    /\ ~IsRevoked(f)
    /\ actionState[ActionOf[f]] \in {"Pending", "Confirmed"}
    /\ BreakersAllow(f)

Schedule(f) ==
    /\ Polled(f)
    /\ CanSubmit(f)
    /\ ful' = [ful EXCEPT ![f] = "Pending"]
    /\ commitment' = IF Type[f] = "Advance"
                     THEN [commitment EXCEPT ![ActionOf[f]] = "PayingDestination"]
                     ELSE commitment
    /\ UNCHANGED <<recordVars, awake, timelock, payments, chainVars, step, noticed>>

\* An account that is not there yet has its Initialize fulfillment polled.
Postpone(f) ==
    /\ Polled(f)
    /\ \E g \in Fulfillments \ awake :
        /\ Type[g] = "Initialize" /\ ful[g] = "Unknown" /\ Source[g] \in Missing(f)
        /\ awake' = awake \cup {g}
    /\ UNCHANGED <<recordVars, ful, sideVars, chainVars, step, noticed>>

\* The counts the breakers read are older than what the handler reads next: a
\* failure takes a moment to reach them.
Notice(f) ==
    /\ ful[f] = "Failed"
    /\ f \notin noticed
    /\ noticed' = noticed \cup {f}
    /\ UNCHANGED <<recordVars, ful, awake, sideVars, chainVars, step>>

\* markActionRevoked, and in a later write markFulfillmentRevoked.
RevokeAction(f) ==
    /\ ful[f] = "Unknown" /\ f \in awake /\ IsRevoked(f)
    /\ actionState[ActionOf[f]] = "Unknown"
    /\ actionState' = [actionState EXCEPT ![ActionOf[f]] = "Revoked"]
    /\ UNCHANGED <<intentId, intentState, presorted, ful, awake, sideVars, chainVars,
                   step, noticed>>

Revoke(f) ==
    /\ ful[f] = "Unknown" /\ f \in awake /\ IsRevoked(f)
    /\ actionState[ActionOf[f]] = "Revoked"
    /\ ful' = [ful EXCEPT ![f] = "Revoked"]
    /\ UNCHANGED <<recordVars, awake, sideVars, chainVars, step, noticed>>

(***************************************************************************)
(* The blockchain.  A withdrawal and a CloseDormant empty their source,    *)
(* whatever is in it, and close it.                                        *)
(***************************************************************************)

IsOpen(v) == v \in External \/ vault[v] = "open"

Executable(f) ==
    CASE Type[f] = "Initialize" -> vault[Source[f]] = "absent"
      [] Type[f] = "CloseEmpty" -> IsOpen(Source[f]) /\ balance[Source[f]] = 0
      [] Type[f] \in {"Withdraw", "CloseDormant"} -> IsOpen(Source[f]) /\ IsOpen(Destination[f])
      [] OTHER -> /\ IsOpen(Source[f]) /\ IsOpen(Destination[f])
                  /\ Source[f] \in Accounts => balance[Source[f]] >= Quantity[ActionOf[f]]

Moved(f) ==
    CASE Type[f] \in {"Initialize", "CloseEmpty"} -> 0
      [] Type[f] \in {"Withdraw", "CloseDormant"} -> balance[Source[f]]
      [] OTHER -> Quantity[ActionOf[f]]

Execute(f) ==
    /\ ful[f] = "Pending"
    /\ outcome[f] = "none"
    /\ IF Executable(f)
       THEN /\ outcome' = [outcome EXCEPT ![f] =
                    IF Moved(f) >= Quantity[ActionOf[f]]
                         \/ Type[f] \in {"Initialize", "CloseEmpty"} THEN "done" ELSE "short"]
            /\ balance' = [v \in Holders |-> balance[v]
                    + (IF v = Destination[f] THEN Moved(f) ELSE 0)
                    - (IF v = Source[f] THEN Moved(f) ELSE 0)]
            /\ vault' = CASE Type[f] = "Initialize" -> [vault EXCEPT ![Source[f]] = "open"]
                          [] Type[f] \in {"Withdraw", "CloseEmpty", "CloseDormant"} ->
                                [vault EXCEPT ![Source[f]] = "closed"]
                          [] OTHER -> vault
       ELSE /\ outcome' = [outcome EXCEPT ![f] = "failed"]
            /\ UNCHANGED <<vault, balance>>
    /\ UNCHANGED <<recordVars, ful, awake, sideVars, step, noticed>>

\* A transaction fails for a reason the server has no part in.
Fault(f) ==
    /\ ful[f] = "Pending"
    /\ outcome[f] = "none"
    /\ f \in Faulty
    /\ outcome' = [outcome EXCEPT ![f] = "failed"]
    /\ UNCHANGED <<recordVars, ful, awake, sideVars, vault, balance, step, noticed>>

\* Mutant: the state is saved as it is on the blockchain.
ObserveVaultAsIs(v) ==
    /\ vault[v] # "absent"
    /\ timelock' = [timelock EXCEPT ![v] = vault[v]]
    /\ timelock' # timelock
    /\ UNCHANGED <<recordVars, ful, awake, commitment, payments, chainVars, step, noticed>>

\* Geyser reports the state of a timelock account.
ObserveVault(v) ==
    /\ vault[v] # "absent"
    /\ timelock' = [timelock EXCEPT ![v] = IF vault[v] = "open" THEN "Locked" ELSE "Closed"]
    /\ timelock' # timelock
    /\ UNCHANGED <<recordVars, ful, awake, commitment, payments, chainVars, step, noticed>>

\* The commitment worker opens the vault, which has the sender's transfer
\* to it polled (markCommitmentOpen); the deadline to upgrade passes.
CommitmentOpens(a) ==
    /\ commitment[a] = "ReadyToOpen"
    /\ commitment' = [commitment EXCEPT ![a] = "Open"]
    /\ awake' = awake \cup OfAction(a, "Temporary")
    /\ UNCHANGED <<recordVars, ful, timelock, payments, chainVars, step, noticed>>

\* The treasury's flood gates open for an advance that was held back.
ReleaseAdvance(f) ==
    /\ Type[f] = "Advance" /\ ful[f] = "Unknown" /\ f \notin awake
    /\ awake' = awake \cup {f}
    /\ UNCHANGED <<recordVars, ful, sideVars, chainVars, step, noticed>>

(***************************************************************************)
(* A finalized transaction (handlePending): the action, the intent and the *)
(* side effects of the type are saved one after the other, the state of    *)
(* the fulfillment last, so that an error on the way has all of it done    *)
(* again.                                                                  *)
(***************************************************************************)

Succeeded(f) == outcome[f] \in {"done", "short"}
InHand == {f \in Fulfillments : step[f] # "idle"}

\* Mutant: the intent handler is not told of the new state of the action.
UpdateActionAlone(f) ==
    LET a == ActionOf[f]
        new == IF ~Succeeded(f) THEN "Failed"
               ELSE IF Type[f] = "Advance" THEN actionState[a] ELSE "Confirmed"
    IN  /\ ful[f] = "Pending"
        /\ outcome[f] # "none"
        /\ step[f] = "idle"
        /\ Cardinality(InHand) < Batch
        /\ actionState[a] \in {"Pending", new}
        /\ actionState' = [actionState EXCEPT ![a] = new]
        /\ step' = [step EXCEPT ![f] = IF Succeeded(f) THEN "success" ELSE "settle"]
        /\ UNCHANGED <<intentId, intentState, presorted, ful, awake, sideVars, chainVars,
                       noticed>>

\* ActionHandler.OnFulfillmentStateChange: an advance does not confirm its
\* action.
UpdateAction(f) ==
    LET a == ActionOf[f]
        new == IF ~Succeeded(f) THEN "Failed"
               ELSE IF Type[f] = "Advance" THEN actionState[a] ELSE "Confirmed"
    IN  /\ ful[f] = "Pending"
        /\ outcome[f] # "none"
        /\ step[f] = "idle"
        /\ Cardinality(InHand) < Batch
        /\ actionState[a] \in {"Pending", new}
        /\ actionState' = [actionState EXCEPT ![a] = new]
        /\ step' = [step EXCEPT ![f] = "intent"]
        /\ UNCHANGED <<intentId, intentState, presorted, ful, awake, sideVars, chainVars,
                       noticed>>

\* The actions that decide the state of their intent.
Deciding == [i \in Intents |-> {a \in ActionsOf[i] :
    CASE IntentType[i] = "OpenAccounts" -> ActionType[a] = "OpenAccount"
      [] IntentType[i] = "SendPrivatePayment" ->
            ActionType[a] \in {"PrivateTransfer", "NoPrivacyTransfer", "NoPrivacyWithdraw"}
      [] IntentType[i] = "ReceivePaymentsPrivately" ->
            ActionType[a] \in {"PrivateTransfer", "CloseEmptyAccount"}
      [] OTHER -> ActionId[a] = 0}]

\* Every intent has one.
ASSUME SomeDecide == IsFiniteSet(Intents) /\ \A i \in Intents : Deciding[i] # {}

\* OpenAccounts stops at the first action that is not confirmed.
IsFailed(i) == \E a \in Deciding[i] :
    /\ actionState[a] = "Failed"
    /\ IntentType[i] = "OpenAccounts" =>
        \A b \in Deciding[i] : ActionId[b] < ActionId[a] => actionState[b] = "Confirmed"
IsConfirmed(i) == \A a \in Deciding[i] : actionState[a] = "Confirmed"

\* Mutant: the fee is woken, and the payment is not.
OutgoingWakesOfFee(i) == {f \in FulfillmentsOf[i] :
    /\ Type[f] = "Transfer"
    /\ \A g \in FulfillmentsOf[i] : Type[g] = "Advance" /\ Destination[g] = Source[f] =>
            ful[g] \in {"Pending", "Confirmed"}}

\* maybeMarkTempOutgoingAccountActionsAsActivelyScheduled: the payment and the
\* fee, once all advances to their source are in flight.
OutgoingWakes(i) == {f \in FulfillmentsOf[i] :
    /\ Type[f] \in {"Withdraw", "Transfer"}
    /\ \A g \in FulfillmentsOf[i] : Type[g] = "Advance" /\ Destination[g] = Source[f] =>
            ful[g] \in {"Pending", "Confirmed"}}

\* maybeMarkCloseEmptyAccountActionAsActivelyScheduled: once all that leaves the
\* account is confirmed.
IncomingWakes(i) == {f \in FulfillmentsOf[i] :
    /\ Type[f] = "CloseEmpty"
    /\ \A g \in FulfillmentsOf[i] : Type[g] = "Temporary" /\ Source[g] = Source[f] =>
            actionState[ActionOf[g]] = "Confirmed"}

\* IntentHandler.OnActionUpdated.
UpdateIntent(f) ==
    LET i == IntentOf[ActionOf[f]]
        wakes == CASE IntentType[i] = "SendPrivatePayment" -> OutgoingWakes(i)
                   [] IntentType[i] = "ReceivePaymentsPrivately" -> IncomingWakes(i)
                   [] OTHER -> {}
    IN  /\ step[f] = "intent"
        /\ \/ /\ IsFailed(i)
              /\ intentState[i] \in {"Pending", "Failed"}
              /\ intentState' = [intentState EXCEPT ![i] = "Failed"]
              /\ awake' = awake
           \/ /\ ~IsFailed(i) /\ IsConfirmed(i)
              /\ intentState[i] \in {"Pending", "Confirmed"}
              /\ intentState' = [intentState EXCEPT ![i] = "Confirmed"]
              /\ awake' = awake
           \/ /\ ~IsFailed(i) /\ ~IsConfirmed(i)
              /\ intentState' = intentState
              /\ awake' = awake \cup {g \in wakes : ful[g] = "Unknown"}
        /\ step' = [step EXCEPT ![f] = IF Succeeded(f) THEN "success" ELSE "settle"]
        /\ UNCHANGED <<intentId, actionState, presorted, ful, sideVars, chainVars, noticed>>

\* onTokenAccountClosed has the CloseDormant fulfillment polled that is still
\* behind everything else.
DormantOf(v) == {g \in Fulfillments :
    IsDormant(g) /\ g \notin presorted /\ ful[g] = "Unknown" /\ v \in {Source[g], Destination[g]}}

\* FulfillmentHandler.OnSuccess.
OnSuccess(f) ==
    LET t == Type[f]  v == Source[f]
    IN  /\ step[f] = "success"
        /\ t = "Advance" => commitment[ActionOf[f]] \in {"PayingDestination", "ReadyToOpen"}
        /\ payments' = IF t \in {"Transfer", "Withdraw", "Advance", "Temporary"}
                       THEN payments \cup {f} ELSE payments
        /\ timelock' = CASE t = "Initialize" ->
                                [timelock EXCEPT ![v] = IF @ = "Closed" THEN @ ELSE "Locked"]
                         [] t \in {"Withdraw", "CloseEmpty", "CloseDormant"} ->
                                [timelock EXCEPT ![v] = "Closed"]
                         [] OTHER -> timelock
        /\ awake' = IF t \in {"Withdraw", "CloseEmpty"} THEN awake \cup DormantOf(v) ELSE awake
        /\ commitment' = IF t = "Advance"
                         THEN [commitment EXCEPT ![ActionOf[f]] = "ReadyToOpen"] ELSE commitment
        /\ step' = [step EXCEPT ![f] = "settle"]
        /\ UNCHANGED <<recordVars, ful, chainVars, noticed>>

\* Mutant: the fulfillment is marked before its side effects are saved.
SettleEarly(f) ==
    /\ step[f] \in {"success", "settle"}
    /\ ful' = [ful EXCEPT ![f] = IF Succeeded(f) THEN "Confirmed" ELSE "Failed"]
    /\ step' = [step EXCEPT ![f] = "idle"]
    /\ UNCHANGED <<recordVars, awake, sideVars, chainVars, noticed>>

\* markFulfillmentConfirmed or markFulfillmentFailed.
Settle(f) ==
    /\ step[f] = "settle"
    /\ ful' = [ful EXCEPT ![f] = IF Succeeded(f) THEN "Confirmed" ELSE "Failed"]
    /\ step' = [step EXCEPT ![f] = "idle"]
    /\ UNCHANGED <<recordVars, awake, sideVars, chainVars, noticed>>

\* An error, or a restart, in the middle of an iteration.
Interrupt(f) ==
    /\ f \in Fragile
    /\ step[f] # "idle"
    /\ step' = [step EXCEPT ![f] = "idle"]
    /\ UNCHANGED <<recordVars, ful, awake, sideVars, chainVars, noticed>>

\* An advance whose commitment went on before the advance was settled.
Overtaken(f) == Type[f] = "Advance" /\ ful[f] = "Pending" /\ commitment[ActionOf[f]] = "Open"

\* markCommitmentReadyToOpen refuses it, each time it is tried again (after the
\* payment was saved once more).
Refuse(f) ==
    /\ step[f] = "success"
    /\ Overtaken(f)
    /\ payments' = payments \cup {f}
    /\ step' = [step EXCEPT ![f] = "idle"]
    /\ UNCHANGED <<recordVars, ful, awake, timelock, commitment, chainVars, noticed>>

\* The steps that bring a fulfillment forward: by the worker of its state, and
\* by what it waits for.
Progress ==
    \/ \E f \in Fulfillments :
        \/ /\ ful[f] = "Unknown"
           /\ Schedule(f) \/ Postpone(f) \/ RevokeAction(f) \/ Revoke(f) \/ ReleaseAdvance(f)
        \/ /\ ful[f] = "Pending"
           /\ \/ Execute(f)
              \/ UpdateAction(f) \/ UpdateIntent(f) \/ OnSuccess(f) \/ Refuse(f) \/ Settle(f)
        \/ Notice(f)
    \/ \E a \in Actions : CommitmentOpens(a)

SequencerStep ==
    \/ Progress
    \/ \E f \in Fulfillments : Fault(f) \/ Interrupt(f)
    \/ \E v \in Observed : ObserveVault(v)

Next == SequencerStep \/ \E i \in Intents : SubmitIntent(i)

Spec == Init /\ [][Next]_sequencerVars

(***************************************************************************)
(* Properties.                                                             *)
(***************************************************************************)

\* What the scheduler lets through succeeds, and a withdrawal moves all it is
\* meant to: accounts are there, funds came in before they go out, nothing is
\* under way to an account that is closed (CanSubmitToBlockchain of each
\* handler, over the order of SubmitIntent).
NoTransactionFails ==
    (\A f \in Faulty : outcome[f] # "failed") =>
        \A f \in Fulfillments : outcome[f] \in {"none", "done"}

\* A confirmed fulfillment is done with: its transaction executed, and every
\* record that depends on it was saved before (handlePending marks it last).
ConfirmedIsSettled == \A f \in Fulfillments : ful[f] = "Confirmed" =>
    /\ Succeeded(f)
    /\ Type[f] # "Advance" => actionState[ActionOf[f]] = "Confirmed"
    /\ Type[f] \in {"Transfer", "Withdraw", "Advance", "Temporary"} => f \in payments
    /\ Type[f] = "Initialize" => timelock[Source[f]] # "Unknown"
    /\ Type[f] \in {"Withdraw", "CloseEmpty", "CloseDormant"} => timelock[Source[f]] = "Closed"
    /\ Type[f] = "Advance" => commitment[ActionOf[f]] \in {"ReadyToOpen", "Open"}

\* When no finalized transaction of an intent is left to handle, its state is
\* what its actions say: no update is lost between two workers that each saved
\* an action and read the others.
IntentsAreCurrent == \A i \in Intents :
    Submitted(i) /\ (\A f \in FulfillmentsOf[i] : ful[f] = "Pending" => outcome[f] = "none") =>
        intentState[i] = IF IsFailed(i) THEN "Failed"
                         ELSE IF IsConfirmed(i) THEN "Confirmed" ELSE "Pending"

=============================================================================
