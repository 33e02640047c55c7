\* One provider whose processes, requests and commands fail or hang at
\* any moment; refreshes that time out and leave a call behind; shutdown at any moment.
SPECIFICATION FairSpec
CONSTANTS
    Calls = {o1, o2}
    Clients = {c1, c2, c3}
    None = None
    KeyAnswers <- SomeKeys
    CreditAnswers <- SomeCredits
    BalanceAnswers <- SomeBalances
    Dollar = 2
    Tariffs <- SomeTariffs
    Day = 4
INVARIANTS
    CapacityInv
    ProcessesAreOwned
    AnswersAreKept
    PricesHold
PROPERTIES
    Recovers
CHECK_DEADLOCK FALSE
