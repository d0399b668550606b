SPECIFICATION ListingSpec
CONSTANTS
    l1 = l1
    l2 = l2
    l3 = l3
    l4 = l4
    l5 = l5
    Start = Start
    Rows = {l1, l2, l3, l4, l5}
    RowRank <- MCRowRank
    Moment <- MCMoment
    Listings = {"members"}
    Limit = 2
CHECK_DEADLOCK FALSE
INVARIANT EveryRowIsListed
