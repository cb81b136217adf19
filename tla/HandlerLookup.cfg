\* Four ids, registered in every order, with every set of unreadable nodes.
CONSTANTS
    Ids <- MCIds
SPECIFICATION LookupSpec
INVARIANTS LookupTypeOK NeverWrong FindsRegistered
PROPERTY WalkEnds
CHECK_DEADLOCK FALSE
