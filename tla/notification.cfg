SPECIFICATION MCFairSpec
CONSTANTS
    s = s
    t = t
    a = a
    b = b
    c = c
    grab = grab
    intent = intent
    call1 = call1
    call2 = call2
    call3 = call3
    NoStream = NoStream
    NoServer = NoServer
    Servers = {s, t}
    Streams = {a, b, c}
    KeepAlive = {b}
    Messages = {grab, intent, call1, call2, call3}
    InTx = {intent}
    NeedStream = {grab}
    Submitted = intent
    ServerOf <- MCServerOf
    SenderOf <- MCSenderOf
    Called <- MCCalled
    Buffer = 1
    Delays = 3
    MaxFaults = 1
INVARIANTS
    NoMessageMissed
    ConfirmedIsAnnounced
    FailedIsExhausted
    NoAttemptTwice
PROPERTIES
    ConfirmedStays
    EveryStreamGetsItsTurn
    EveryWebhookEnds
CHECK_DEADLOCK FALSE
