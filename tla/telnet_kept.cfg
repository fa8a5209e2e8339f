SPECIFICATION Spec
CONSTANTS
    Wishes = {"BETTER"}
    PeerQuits = TRUE
    MaxCommands = 0
    MaxOffers = 2
INVARIANT BetterGivesIn
CHECK_DEADLOCK FALSE
