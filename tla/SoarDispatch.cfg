SPECIFICATION Spec
CONSTANTS
    Workers = {w1, w2}
    Alerts <- MixedAlerts
    Slug <- FalcoSlug
    Nodes = {n1}
    DefaultNs = "default"
    AppNs = "securebank-app"
    None = "none"
SYMMETRY AnyHandler
INVARIANTS
    OneDispatchPerWindow
    ReportIsTrue
PROPERTY
    EffectsJustified
