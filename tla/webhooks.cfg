SPECIFICATION FairServiceSpec
CONSTANTS
    closed = closed
    invoice = invoice
    altered = altered
    binary = binary
    cut = cut
    hook = hook
    elsewhere = elsewhere
    hubspotKey = hubspotKey
    stripeKey = stripeKey
    otherKey = otherKey
    noon = noon
    soon = soon
    night = night
    garbled = garbled
    r1 = r1
    r2 = r2
    r3 = r3
    r4 = r4
    r5 = r5
    c1 = c1
    c2 = c2
    auto = auto
    autoAgain = autoAgain
    human = human
    humanAgain = humanAgain
    KAuto = KAuto
    KHuman = KHuman
    None = None
    NotAscii = NotAscii
    Runs = {r1, r2, r3, r4, r5}
    Approvals = {c1, c2}
    Intents = {auto, autoAgain, human, humanAgain}
    Proposals <- MCProposals
    Keys = {KAuto, KHuman}
    KeyOf <- MCKeyOf
    Allowed = {auto, autoAgain, human, humanAgain}
    Writable = {auto, autoAgain, human, humanAgain}
    Verdict <- MCVerdict
    MaxWrites = 1
    Unserialisable = {r2}
    MaxTasks = 1
    MayLoseAnswer = FALSE
    MayCancel = FALSE
    Secrets <- MCSecrets
    Tolerance = 1
    TimeOf <- MCTimeOf
    NotText = {binary}
    Deliveries = {closed, invoice}
    Attempts <- MCAttempts
    Incoming <- MCIncoming
    EventsOf <- MCEventsOf
    Bindings <- MCBindings
    RunsOf <- MCRunsOf
INVARIANTS
    ServiceTypeOK
    AcknowledgedIsDone
    EventsInOrder
    AuthenticOnly
PROPERTIES
    EveryAttemptAnswered
    ImplementsLifecycle
CHECK_DEADLOCK FALSE
