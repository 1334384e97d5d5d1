SPECIFICATION Spec
CONSTANTS
    ann = ann  bob = bob  a1 = a1  a2 = a2  b1 = b1
    Peers = {ann, bob}
    Devices = {a1, a2, b1}
    Owner <- TwoPeers
    Reader = r1
    Chats = {c1, c2}
    Channel = ch
    Skids = {s1, s2}
    Docs = {m1}
    MaxSeals = 2
    MaxSkip = 1
    Faults = 1
    Tabs = {t1, t2}
    None = None
INVARIANTS ConfirmationsLast VerifiedWasCompared
PROPERTIES AuthenticRows
CHECK_DEADLOCK FALSE
