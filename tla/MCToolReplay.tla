---------------------------- MODULE MCToolReplay ----------------------------
(***************************************************************************)
(* Instances of ToolReplay for TLC: an agent that makes four calls.        *)
(***************************************************************************)
EXTENDS ToolReplay, TLC

CONSTANTS
    query, search,        \* two tool methods
    row, date, dateText,  \* a date comes back from JSON as its text
    HTTPError, KeyError   \* exceptions of the tools

MCTools == {query, search}

\* Call 2 and call 3 go out together.
MCRoundOf == <<1, 2, 2, 3>>

\* Calls that go out together use different tools.
ApartToolOf == <<query, query, search, query>>

\* They use the same one.
OverlappingToolOf == <<query, search, search, query>>

\* Exception classes differ in nothing but who handles them.
MCSymmetry == Permutations(Errors)

MCJson == [v \in Values |-> IF v = date THEN dateText ELSE v]
=============================================================================
