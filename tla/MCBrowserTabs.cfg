SPECIFICATION Spec
CONSTANTS
    first = first
    second = second
    other = other
    None = None
    Traces = {first, second, other}
    Conversation <- MCConversation
    Newer <- MCNewer
    MaxTabs = 2
    HeartbeatTimeout = 1
    BootstrapTimeout = 1
    RetainedTtl = 1
    LongestSleep = 1
    MaxStarts <- MCMaxStarts
    MaxTroubles = 1
INVARIANT LeaseOnRecord
INVARIANT TabsAreUnambiguous
PROPERTY SuspensionSparesLiveTurns
PROPERTY AbandonedTabsAreReclaimed
CHECK_DEADLOCK FALSE
