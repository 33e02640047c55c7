\* Two projects that share a repository, polling, webhooks, failures, shutdown and restarts.
SPECIFICATION FairSpec
CONSTANTS
    p1 = p1
    p2 = p2
    r1 = r1
    d1 = d1
    Repos = {r1}
    Concurrency = 1
    Listed <- TwoProjects
    RepositoriesOf <- SharedRepository
    Labels <- SameLabels
    Deliveries = {d1}
    Target <- Targets
    Posts = {h1}
    None = None
    Full = Full
    MaxVersion = 2
    Faults = {"part", "limit", "store", "process"}
INVARIANTS
    ServiceInv
    DeliveriesActOnce
PROPERTIES
    SavesBuildOnLatest
    OnlySharingGoesBack
    StoppedTakesNoProject
    CatchesUp
CHECK_DEADLOCK FALSE
