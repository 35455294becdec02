CONSTANTS
    Methods = {"POST"}
    Templates = {"/t"}
    ENTRY_BUDGET = 3
    AGENT_BUDGET = 4
    Day = 2
    MAX_ROW_BODIES = 2
    STALE_MIN = 1
    STALE_MAX = 2
    HEARTBEAT_WINDOW = 1
    GAP_WINDOW = 1
    DnsEntries <- MCDnsEntries
    EXPORT_PORT = 443
    Worlds <- MCWorlds
    Slack = 0
    PROPOSAL_MAX_REQUESTS = 6
    ToolText <- MCToolText
SPECIFICATION Spec
INVARIANTS TypeOK RowsHideNothing FilesAlwaysCount DripBounded AllowClears
    NarrowStartsNothing WouldBeComplete OfferedOnce ExportWithin
CHECK_DEADLOCK FALSE
