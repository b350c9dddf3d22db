SPECIFICATION Spec
CONSTANTS
    crm = crm
    warehouse = warehouse
    hubspot = hubspot
    sql = sql
    writer = writer
    analyst = analyst
    rival = rival
    nudge = nudge
    evaluate = evaluate
    None = None
    Roles = {crm, warehouse}
    Connectors = {hubspot, sql}
    Declared <- MCDeclared
    Live = {hubspot}
    Agents = {writer, analyst, rival}
    NameOf <- MCNameOf
    TaskOf <- MCTaskOf
    Requires <- MCRequires
    LLMBacked = {analyst}
    Requests = {q1}
    MaxStaleness = 1
    MaxTime = 2
INVARIANTS
    TypeOK
    ReadyToRun
    RegistriesAgree
    RouterIsCurrent
    RoutedFindsAgent
    OwnModelUnlessShared
    ProposedIsGranted
    VintageIsHonest
    ReadsAreFresh
CHECK_DEADLOCK FALSE
