\* One call, from no timeout to one that outlasts every backoff.
SPECIFICATION Spec
CONSTANTS
    Second = 2
    MaxDuration = 31
    NoRetryAfter = NoRetryAfter
    NoResponse = NoResponse
    Timeouts <- MCTimeouts
    RetrySettings <- MCRetrySettings
    Windows <- MCWindows
    Horizon = 14
INVARIANTS
    TypeOK
    EndsByDeadline
    OneSendAfterDeadline
    NotThrottledTwice
    BackoffAddsUp
    TimedInv
PROPERTIES
    TimedCallEnds
    TimedContract
