\* Typing, pastes, the dropdown, the review, notices and the alternate screen.
SPECIFICATION FairSpec
CONSTANTS
    Pastes <- BurstPastes
    Bracketed <- BracketedPastes
    HasMenu = TRUE
    HasTui = TRUE
    InlineLimit = 2
    MaxText = 1
    MaxPastes = 1
    MaxNotices = 2
INVARIANTS PasteNeverSubmits ScreenIsCurrent
PROPERTIES TripIsTransparent BurstIsReleased
CHECK_DEADLOCK FALSE
