SPECIFICATION Spec
CONSTANTS
    Users = {u1, u2}
    Nobody = Nobody
    Senders = {u1}
    Files = {f1}
    Workers = {w1, w2}
    MaxMessages = 2
    MaxSeals = 3
    MaxChains = 1
INVARIANTS AttachmentsKept ToldCurrent UnreadAgrees NewestEditStands
CHECK_DEADLOCK FALSE
SYMMETRY Symmetry
