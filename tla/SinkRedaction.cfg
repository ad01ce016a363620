\* Configurations with up to four sinks, and room for all their credentials.
SPECIFICATION Spec
CONSTANTS
    Tasks = {"sinks"}
    Order <- MCOrder
    InvalidNames = {"", ".", "..", "x/y"}
    RequestPaths <- MCPaths
    Bodies <- MCBodies
    GeneratedNames <- MCGeneratedNames
    Queries <- MCQueries
    Sweeps <- MCSweeps
    Handlers = {h1, h2}
    InitialObjects <- MCInitialObjects
    Bytes <- MCBytes
    MaxListLimit = 8
    MaxListPageItems = 2
    MaxListPageBytes = 4
    MaxWrites = 2
    MaxTokens = 2
    MaxTokenBytes = 2
    MaxTokenTotal = 4
    MaxNamespaces = 2
    MaxCIDRs = 2
    MaxSinks = 4
    MaxHeaders = 2
    MaxCredentialBytes = 2
    MaxHoneytokens = 2
    MaxDataEntries = 2
    MaxTotalData = 3
    MaxValueBytes = 2
    MaxSecretPayload = 5
    MaxSensitive = 20
    MaxSinkSensitive = 20
    MaxSensitiveBytes = 20
    MaxListBytes = 6
    MaxForwardedBytes = 5
    MaxForwardedHops = 3
INVARIANT SinkCredentialsRedacted
CHECK_DEADLOCK FALSE
