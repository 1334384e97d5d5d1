SPECIFICATION Spec
CONSTANTS
    alice = alice  bob = bob  carol = carol  da = da  db = db  dc = dc
    Users = {alice, bob}
    Owner = alice
    Devices = {db}
    DeviceOwner <- OnlyBob
    Chats = {g1, g2}
    NoChat = NoChat
    Encrypted = {g1}
    SharedHistory = {g1}
    Workers = {w1, w2}
    NoWorker = NoWorker
    Requests = {"remove", "add", "enable", "publish", "periodic"}
    MaxMembers = 2
    MaxEpoch = 3
INVARIANTS EpochInv
PROPERTIES RequestsEnd ImplementsLedger
CHECK_DEADLOCK FALSE
