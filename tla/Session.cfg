SPECIFICATION SessionSpec
CONSTANTS
    Sockets = {s1, s2}
    NoSocket = NoSocket
INVARIANTS OneSocket SignedOutTabForgets
PROPERTIES Reconnects WaitersAreReleased
CHECK_DEADLOCK FALSE
