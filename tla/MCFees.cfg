SPECIFICATION FairSpec
CONSTANTS
    Requests = {r1, r2, r3}
    FeeIds = {f1}
    ClaimIds = {c1, c2}
    None = None
INVARIANTS
    IInv
    BooksAreExact
    NoDeadlock
PROPERTIES
    MoneyIsFinal
    LedgerSpec
    AnyRequestIsAnswered
