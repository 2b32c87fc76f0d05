SPECIFICATION FairSpec
CONSTANTS
    Workers = {w1, w2}
    Alerts <- RetryAlerts
    Slug <- FalcoSlug
    Nodes = {n1}
    DefaultNs = "default"
    AppNs = "securebank-app"
    None = "none"
PROPERTY EveryPlaybookRuns
