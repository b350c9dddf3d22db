SPECIFICATION Spec
CONSTANTS
    query = query
    search = search
    row = row
    date = date
    dateText = dateText
    HTTPError = HTTPError
    KeyError = KeyError
    ReplayError = ReplayError
    None = None
    N = 4
    Tools <- MCTools
    ToolOf <- ApartToolOf
    RoundOf <- MCRoundOf
    Values = {row, date, dateText}
    Json <- MCJson
    Replays = {p1}
    Errors = {HTTPError, KeyError}
SYMMETRY MCSymmetry
INVARIANTS
    ReportsReproduced
CHECK_DEADLOCK FALSE
