\* Collections of a repository one after the other, each of whose requests GitHub may refuse.
SPECIFICATION Spec
CONSTANTS
    Refusals <- SomeRefusals
    CheckSets <- SomeChecks
    StatusSets <- SomeStatuses
    MaxPulls = 3
    Concurrency = 2
    Others <- SomeOthers
    None = None
INVARIANTS
    CollectionInv
PROPERTIES
    HealthFollows
    CollectionsEnd
