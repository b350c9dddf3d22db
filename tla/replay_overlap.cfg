SPECIFICATION Spec
CONSTANTS
    query = query
    search = search
    row = row
    date = date
    dateText = dateText
    HTTPError = HTTPError
    KeyError = KeyError
    ReplayError = ReplayError
    None = None
    N = 4
    Tools <- MCTools
    ToolOf <- OverlappingToolOf
    RoundOf <- MCRoundOf
    Values = {row, date, dateText}
    Json <- MCJson
    Replays = {p1}
    Errors = {HTTPError, KeyError}
SYMMETRY MCSymmetry
INVARIANTS
    ReplayFaithful
CHECK_DEADLOCK FALSE
