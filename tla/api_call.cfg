\* One call of each operation; the token is replaced at most once.
SPECIFICATION Spec
CONSTANTS
    Calls = {c1}
    Asked <- Operations
    BaseURLs <- MCBaseURLs
    OptionLists <- MCOptionLists
    Statuses <- MCStatuses
    MaxEpoch = 1
    NoToken = NoToken
    NoReply = NoReply
INVARIANTS
    TypeOK
    RequestReachesItsOperation
    GivesUpAsConfigured
    UnauthorizedMeansRotated
    SentWithCredentials
    BodiesClosed
    TypedFieldsFollowSpec
    RefusalsIdentified
    OutcomeInv
