SPECIFICATION GiftFairSpec
CONSTANTS
    Fulfillments <- MCFulfillments
    Type <- MCType
    Source <- MCSource
    Destination <- MCDestination
    ActionOf <- MCActionOf
    Actions <- MCActions
    ActionType <- MCActionType
    ActionId <- MCActionId
    Quantity <- MCQuantity
    IntentOf <- MCIntentOf
    Intents <- MCIntents
    IntentType <- MCIntentType
    Asleep <- MCAsleep
    Holdings <- MCHoldings
    Accounts = {"p", "out", "in", "b", "gift", "peer"}
    External = {"treasury", "vault1", "vault2", "x"}
    Primary = {"p"}
    Observed = {"in"}
    Opened = {"p", "b", "peer"}
    Faulty = {"public"}
    Fragile = {"advance"}
    MaxGlobalFailed = 1
    Batch = 2
    Gift = "send"
    AutoReturn = "return"
    Claims = {"claimIt", "claimByPeer"}
    NoClaim = "nobody"
INVARIANTS
    GiftTypeOK
    NoTransactionFails
    ConfirmedIsSettled
    IntentsAreCurrent
    OneWayOut
PROPERTY
    EveryPaymentSettles
CHECK_DEADLOCK FALSE
