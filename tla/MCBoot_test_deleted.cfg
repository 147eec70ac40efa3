SPECIFICATION FairSpec
CONSTANTS
    u1 = u1
    Urls = {u1}
    Registrable = {u1}
    Deletable <- TestEndpoint
    MaxCrashes = 1
    MaxDeaths = 3
PROPERTY TestEndpointReturns
