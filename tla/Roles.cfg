SPECIFICATION Spec
CONSTANTS
    Users = {u1, u2, u3}
    Chats = {g, c1, c2}
    Encrypted = {g}
    MaxMembers = 2
    MaxRequests = 4
    NoChat = NoChat
SYMMETRY Symmetry
INVARIANTS TypeOK Hierarchy PrivateChatOnce
PROPERTIES ImplementsLedger
CHECK_DEADLOCK FALSE
