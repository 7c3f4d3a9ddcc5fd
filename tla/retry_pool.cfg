\* Two calls, one connection: fair base, pool, timers and callers.
SPECIFICATION ServedSpec
CONSTANTS
    Second = 2
    MaxDuration = 31
    NoRetryAfter = NoRetryAfter
    NoResponse = NoResponse
    Calls = {c1, c2}
    RetrySettings <- MCRetrySettings
    Statuses <- MCStatuses
    RetryAfters <- MCRetryAfters
    Payloads <- MCPayloads
    PoolSize = 1
    Cancellable = {c1, c2}
    BaseWatchesContext = TRUE
INVARIANTS
    IInv
    NoSelfBlocking
PROPERTIES
    ContractSpec
    EveryCallReturns
