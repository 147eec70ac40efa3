SPECIFICATION FairSpec
CONSTANTS
    u1 = u1
    Urls = {u1}
    Registrable <- Named
    Deletable <- Named
    MaxCrashes = 3
    MaxDeaths = 2
INVARIANTS
    TypeOK
    StartsWhole
    DiesAtMostOnce
PROPERTIES
    DeathsExplained
    ServesAgain
