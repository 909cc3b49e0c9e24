SPECIFICATION FairSpec
CONSTANTS
    MaxOutages = 2
    MaxVisits = 4
    MaxLogouts = 2
INVARIANTS OneChainPerSession BadgeTellsTruth
PROPERTIES RetriesUntilOpen OneSessionSettles
