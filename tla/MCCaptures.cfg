CONSTANTS
    MAX_TOOLS = 2
    MAX_CALLS = 2
    VERBS <- MCVerbs
    Worlds <- MCWorlds
    MAX_ROWS = 1
    ROW_SLACK = 1
    MAX_PENDING = 1
    RUN_LIMIT = 1
    Delay = 1
    PagesWindow = 2
    ListingWindow = 3
    SchemaWindow = 5
    Lookback = 2
    PROPOSAL_MAX_REQUESTS = 2
    HeartbeatWindow = 1
    GapWindow = 2
    Slack = 0
SPECIFICATION FairSpec
INVARIANTS TypeOK ForgeryLeavesNothing NotOfferedRight CallsAccounted NothingHiddenHeld
    ProposalCoversWindow
PROPERTY NotOfferedJudged
\* Nothing happens once the clock stands still and every turn is taken.
CHECK_DEADLOCK FALSE
