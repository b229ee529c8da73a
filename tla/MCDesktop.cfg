\* Two searches, two requests under way, the sessions of two seconds.
SPECIFICATION Spec
CONSTANTS
    a = a  b = b
    NoSearch = NoSearch
    Searches = {a, b}
    MaxSeconds = 2
    MaxCalls = 2
INVARIANTS
    TypeOK
    ShowsTheSelected
    SignedInHasToken
    SessionsApart
SYMMETRY Interchangeable
