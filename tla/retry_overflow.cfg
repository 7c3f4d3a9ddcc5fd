\* More retries than a Duration has doublings.
SPECIFICATION Spec
CONSTANTS
    Second = 2
    MaxDuration = 31
    NoRetryAfter = NoRetryAfter
    NoResponse = NoResponse
    Calls = {c1}
    RetrySettings <- MCManyRetries
    Statuses <- MCStatuses
    RetryAfters <- MCRetryAfters
    Payloads <- MCPayloads
    PoolSize = 1
    Cancellable = {c1}
    BaseWatchesContext = TRUE
INVARIANTS
    NeverPanics
