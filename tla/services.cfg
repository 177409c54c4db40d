SPECIFICATION ServicesSpec
CONSTANTS
    c1 = c1
    c2 = c2
    manual = manual
    socket = socket
    auto = auto
    r1 = r1
    r2 = r2
    a1 = a1
    n1 = n1
    b1 = b1
    b2 = b2
    s1 = s1
    s2 = s2
    Clients <- MCClients
    SendCap = 2
    BroadcastCap = 2
    MaxMessages = 4
    Searchers <- MCSearchers
    Automatic <- MCAutomatic
    Cancellable <- MCCancellable
    MinInterval = 1
    MaxBackoff = 5
    FailureCap = 3
    Removers <- MCRemovers
    Addrs <- MCAddrs
    Inbound <- MCInbound
    MaxTorrents = 2
    MaxPeers = 1
    MaxSessions = 1
    NumTrackers = 5
    Kind <- MCKind
    Names <- MCNames
    Refusing = {5}
    Messages <- MCMessages
    MaxWritten = 2
    Browsers = {b1, b2}
    Subjects = {s1, s2}
    Email <- MCEmail
    MaxKeys = 3
    Admins = {1, 2, 3}
    SettingKeys = {"k", "l"}
    SettingValues = {"v", "w"}
    Patch <- MCPatch
    MaxVersions = 1
    MaxUpdates = 4
CHECK_DEADLOCK FALSE
INVARIANTS
    Types BackoffFollowsFailures ChannelsCloseOnce ClosedTwiceByTwo OneExchangeIsEnough
     OneAccountEach UpdatedIsWritten
PROPERTIES
    WaitEnds GoneIsReleased KeepsFeed
