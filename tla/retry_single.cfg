\* One call over a base that leaves open what a cancelled request leaves open.
SPECIFICATION Spec
CONSTANTS
    Second = 4
    MaxDuration = 31
    NoRetryAfter = NoRetryAfter
    NoResponse = NoResponse
    Calls = {c1}
    RetrySettings <- MCRetrySettings
    Statuses <- MCStatuses
    RetryAfters <- MCRetryAfters
    Payloads <- MCPayloads
    PoolSize = 1
    Cancellable = {c1}
    BaseWatchesContext = FALSE
INVARIANTS
    TypeOK
    IInv
    OutcomeIsLastAnswer
    RetryBudget
    BodyReplayed
    ReturnedBodyReadable
    AbandonedOnlyByCancel
    DocumentedDelay
    PanicOnlyOnOverflow
PROPERTIES
    NoResendAfterFinal
