SPECIFICATION Spec
CONSTANTS
    hi = hi
    HI = HI
    Users = {u1, u2}
    Texts = {hi, HI}
    Fold <- MCFold
    Messages = {m1}
    Slots = {s1, s2}
    FetchLimit = 2
    Nil = Nil
INVARIANTS
    TypeOK
    SessionIsSaved
    PollingMatchesSession
    ThoughtsUnique
    SpinnerHasRequest
    FreshPostIsConsistent
    FeedNeedsSession
PROPERTIES
    SessionChangesOnlyByAuth
