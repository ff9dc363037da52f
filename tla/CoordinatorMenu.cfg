\* A one-line paste leaves the dropdown up.
SPECIFICATION Spec
CONSTANTS
    Pastes <- BurstPastes
    Bracketed <- BracketedPastes
    HasMenu = TRUE
    HasTui = FALSE
    InlineLimit = 2
    MaxText = 2
    MaxPastes = 1
    MaxNotices = 0
INVARIANTS MenuMatchesText
CHECK_DEADLOCK FALSE
