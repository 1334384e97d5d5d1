SPECIFICATION Spec
CONSTANTS
    alice = alice  bob = bob  da = da  db = db
    Users = {alice}
    Devices = {da}
    DeviceOwner <- OneAccount
    Chats = {g1}
    Encrypted = {g1}
    SharedHistory = {}
    Senders = {da}
    NoDevice = NoDevice
    NoChat = NoChat
    Calls = {s1, s2}
    MaxEpoch = 2
    MaxChains = 3
INVARIANTS OwnDeviceGranted
PROPERTIES UndisturbedSendsSucceed
SYMMETRY CallSymmetry
CHECK_DEADLOCK FALSE
