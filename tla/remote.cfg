\* Two writers, one retry each, the first may be cancelled.
SPECIFICATION RemoteSpec
CONSTANTS
    c1 = c1
    c2 = c2
    Second = 2
    MaxDuration = 31
    NoRetryAfter = NoRetryAfter
    NoResponse = NoResponse
    Calls = {c1, c2}
    RetrySettings <- MCRetrySettings
    Statuses <- MCStatuses
    RetryAfters <- MCRetryAfters
    Payloads <- MCPayloads
    PoolSize = 2
    Cancellable = {c1}
    BaseWatchesContext = TRUE
    Scenarios <- MCScenarios
INVARIANTS
    RemoteInv
    EffectsExplained
    ResultsExplained
PROPERTIES
    WriteSpec
