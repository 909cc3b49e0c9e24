SPECIFICATION FairSpec
CONSTANTS
    MaxOutages = 1
    MaxVisits = 1
    MaxLogouts = 1
PROPERTY StaysConnected
