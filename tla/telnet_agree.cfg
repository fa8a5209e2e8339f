SPECIFICATION FairSpec
CONSTANTS
    Wishes = {"MUSTNOT", "BETTERNOT", "NEUTRAL", "BETTER", "MUST"}
    PeerQuits = TRUE
    MaxCommands = 5
    MaxOffers = 3
INVARIANT TypeOK Agreement PendingHasAnswer MustOrHangUp
PROPERTY Settles
CHECK_DEADLOCK FALSE
