SPECIFICATION Spec
CONSTANTS
    Chats = {a, b}
    NoChat = NoChat
    PageSize = 1
    MaxMessages = 3
    MaxTexts = 1
    MaxTries = 2
    MaxEvents = 1
    MaxOpens = 2
    MaxTasks = 2
SYMMETRY ChatSymmetry
CHECK_DEADLOCK FALSE
INVARIANTS PagesJoin EachTextOnce TextsGoHome
