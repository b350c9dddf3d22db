SPECIFICATION Spec
CONSTANTS
    r1 = r1
    r2 = r2
    r3 = r3
    c1 = c1
    c2 = c2
    refused = refused
    human = human
    auto = auto
    extra = extra
    copy = copy
    again = again
    broken = broken
    behind = behind
    stuck = stuck
    ticket = ticket
    NoKey = NoKey
    Runs = {r1, r2, r3}
    Approvals = {c1, c2}
    Intents = {refused, human, auto, extra, copy, again, broken, behind, stuck}
    Proposals <- MixedProposals
    Content <- MCContent
    FieldAllowlists <- MCAllowlists
    Keys <- MCKeys
    KeyOf <- MCKeyOf
    Allowed <- MCAllowed
    Writable <- MCWritable
    Verdict <- MCVerdict
    MaxWrites = 2
    Unserialisable = {r3}
    MaxTasks = 3
    MayLoseAnswer = TRUE
    MayCancel = TRUE
    None = None
SYMMETRY ApprovalSymmetry
INVARIANTS
    TypeOK
    GatedWrites
    BlastRadius
    AppliedIsBacked
    DuplicatesBounded
    LedgeredInOrder
    AppliedIsIdentical
    OnlyAllowlisted
CHECK_DEADLOCK FALSE
