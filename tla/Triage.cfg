SPECIFICATION TriageSpec
CONSTANTS
    RuleIds <- AllRules
    Hints <- AllHints
    Replies <- SomeReplies
    Amounts = {10000, 20000, 20001, 45000, 80001}
    Drifts = {0, 150, 151, 200, 201, 250, 251}
    NSlices = 10
    NoHint = "none"
INVARIANTS
    TriageTypeOK
    NeverLowered
    SuggestionRuns
    DangerIsReported
