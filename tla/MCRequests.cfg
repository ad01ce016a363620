\* Requests to the API, patches, configurations and forwarded addresses.
SPECIFICATION Spec
CONSTANTS
    Tasks = {"write", "list", "patch", "config", "xff"}
    Order <- MCOrder
    InvalidNames = {"", ".", "..", "x/y"}
    RequestPaths <- MCPaths
    Bodies <- MCBodies
    GeneratedNames <- MCGeneratedNames
    Queries <- MCQueries
    Sweeps <- MCSweeps
    Handlers = {h1, h2}
    InitialObjects <- MCInitialObjects
    Bytes <- MCBytes
    MaxListLimit = 8
    MaxListPageItems = 2
    MaxListPageBytes = 4
    MaxWrites = 2
    MaxTokens = 2
    MaxTokenBytes = 2
    MaxTokenTotal = 4
    MaxNamespaces = 2
    MaxCIDRs = 2
    MaxSinks = 3
    MaxHeaders = 2
    MaxCredentialBytes = 2
    MaxHoneytokens = 2
    MaxDataEntries = 2
    MaxTotalData = 3
    MaxValueBytes = 2
    MaxSecretPayload = 5
    MaxSensitive = 5
    MaxSinkSensitive = 4
    MaxSensitiveBytes = 5
    MaxListBytes = 6
    MaxForwardedBytes = 5
    MaxForwardedHops = 3
INVARIANTS StoredIsAddressable PagesAgree PatchAgreesWithRFC HoneytokensRedacted ClientAddressUnforged
CHECK_DEADLOCK FALSE
