SPECIFICATION Spec
CONSTANTS
    alice = alice  bob = bob  carol = carol  da = da  db = db  dc = dc
    Users = {alice, bob, carol}
    Owner = alice
    Devices = {da, db}
    DeviceOwner <- TwoAccounts
    Chats = {g1}
    NoChat = NoChat
    Encrypted = {g1}
    SharedHistory = {}
    Workers = {w1, w2}
    NoWorker = NoWorker
    Requests = {"remove", "leave", "add", "enable", "publish", "reset", "periodic", "crash"}
    MaxMembers = 3
    MaxEpoch = 3
INVARIANTS EpochChain OpenEpochExcludesFormerMembers
PROPERTIES RemovalRotates JoinerStartsAtFreshEpoch EpochsAppendOnly
SYMMETRY WorkerSymmetry
CHECK_DEADLOCK FALSE
