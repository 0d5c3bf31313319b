\* Two proposals, one of them a conf change, that may be pending together.
SPECIFICATION FairSpec
CONSTANTS
    p1 = p1
    p2 = p2
    p3 = p3
    Proposals = {p1, p2}
    ConfChanges = {p2}
    Bytes <- MCBytes
    max_proposal_bytes = 3
    max_pending_proposals = 2
    max_pending_proposal_bytes = 3
    MaxLog = 2
    Noop = Noop
    Barrier = Barrier
    NoContext = NoContext
INVARIANTS
    AccountingExact
    BytesExact
    NoLostPromise
    AnswerIsTrue
    StopQuiesces
PROPERTIES
    ProposalsEnd
CHECK_DEADLOCK FALSE
