CONSTANTS
    Me = "me"
    Others = {"a", "b"}
    NoAddress = "none"
    Sigs = {"s", "t"}
    MySig = "s"
    Names = {"f"}
    BadNames = {}
    Handlers = {h1, h2}
    Client = Client
    NoThread = NoThread
    Gone = Gone
    Requests <- MCRequests
    Lists <- MCLists
    EXPIRY = 0
    MaxRequests = 3
    MaxRetrieves = 1
    MaxTime = 1
    SendsMayFail = TRUE
SPECIFICATION Spec
INVARIANTS TypeOK OwnEntryFirst AddressesDistinct AlwaysAnswered ServedRegistered HoldersRelease
SYMMETRY Symmetry
CHECK_DEADLOCK FALSE
