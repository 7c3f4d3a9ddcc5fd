\* A refusal the server gives is not an error of the typed method.
SPECIFICATION Spec
CONSTANTS
    Calls = {c1}
    Asked <- Operations
    BaseURLs <- MCBaseURLs
    OptionLists <- MCOptionLists
    Statuses <- MCStatuses
    MaxEpoch = 1
    NoToken = NoToken
    NoReply = NoReply
INVARIANTS
    APIErrorsReturned
