SPECIFICATION FairSpec
CONSTANTS
    None = None
    Replies <- MCReplies
    Paths <- MCPaths
    Feeds <- MCFeeds
    ProbeCap = 2
    Hours = 2
    MaxKills = 1
INVARIANTS SilenceIsNotEvidence ReceiptIsAnswered BandsAreMapped SoundIsAttested ScreenedAgainstTheList DistressBlocks AdverseNeverHelps
PROPERTIES Collected
