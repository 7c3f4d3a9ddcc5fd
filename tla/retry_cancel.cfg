\* Liveness: a done context alone ends a call.
SPECIFICATION CancelSpec
CONSTANTS
    Second = 2
    MaxDuration = 31
    NoRetryAfter = NoRetryAfter
    NoResponse = NoResponse
    Calls = {c1, c2}
    RetrySettings <- MCRetrySettings
    Statuses <- MCStatuses
    RetryAfters <- MCRetryAfters
    Payloads <- MCPayloads
    PoolSize = 1
    Cancellable = {c1}
    BaseWatchesContext = TRUE
PROPERTIES
    CancelReturns
