SPECIFICATION Spec
CONSTANTS
    alice = alice  bob = bob  da = da  db = db
    Users = {alice, bob}
    Devices = {da, db}
    DeviceOwner <- TwoAccounts
    Chats = {g1}
    Encrypted = {g1}
    SharedHistory = {}
    Senders = {da}
    NoDevice = NoDevice
    NoChat = NoChat
    Calls = {s1}
    MaxEpoch = 3
    MaxChains = 2
INVARIANTS GrantsStayInEra LiveChainsExcludeFormerMembers LiveChainsReachMembers
CHECK_DEADLOCK FALSE
