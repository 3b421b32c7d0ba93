SPECIFICATION Spec
CONSTANTS
    None = None
    Replies <- MCReplies
    Paths <- MCPaths
    Feeds <- MCFeeds
    ProbeCap = 2
    Hours = 2
    MaxKills = 1
INVARIANTS StabilityAnswers DoubtIsHeard ExpiredIsSeen EstablishedIsDated RecentIsCharged
