SPECIFICATION Spec
CONSTANTS
    r1 = r1
    r2 = r2
    r3 = r3
    c1 = c1
    c2 = c2
    refused = refused
    human = human
    auto = auto
    extra = extra
    copy = copy
    again = again
    broken = broken
    behind = behind
    stuck = stuck
    ticket = ticket
    NoKey = NoKey
    Runs = {r1, r2}
    Approvals = {c1, c2}
    Intents = {human, auto, copy}
    Proposals <- TwinProposals
    Content <- MCContent
    FieldAllowlists <- MCAllowlists
    Keys <- MCKeys
    KeyOf <- MCKeyOf
    Allowed <- MCAllowed
    Writable <- MCWritable
    Verdict <- HumanVerdict
    MaxWrites = 2
    Unserialisable = {}
    MaxTasks = 2
    MayLoseAnswer = FALSE
    MayCancel = FALSE
    None = None
INVARIANTS
    ApprovedWritesOnce
CHECK_DEADLOCK FALSE
