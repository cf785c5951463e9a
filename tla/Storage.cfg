\* Transactions, the query cache, connections, query building, text search,
\* buckets, the session lock and the worker pool, one part at a time.
INIT Init
NEXT Next
CONSTANTS
    i1 = i1
    i2 = i2
    Programs <- MCPrograms
    MaxCalls = 5
    Caller = {c1, c2}
    Scopes = {s1, s2}
    MaxVersion = 2
    Instance = {i1, i2}
    Settings <- MCSettings
    Catalogs <- MCCatalogs
    Requests <- MCRequests
    Dialects = {"postgres", "mysql", "sqlserver", "oracle"}
    TableRows <- MCTableRows
    Mapping <- MCMapping
    Limits <- MCLimits
    IndexColumns = {"doc"}
    Unindexed <- MCUnindexed
    DefaultLimit = 2
    Width = 4
    Words <- MCWords
    Numbers <- MCNumbers
    Stopwords = {"the"}
    Short = {"ox"}
    Starts <- MCStarts
    Groups <- MCGroups
    Similar <- MCSimilar
    Tables <- MCTables
    Searches <- MCSearches
    MaxNear = 2
    MaxTerms = 3
    Kinds = {"file", "mem", "s3", "oci"}
    Clients = {"p", "q"}
    Keys <- MCKeys
    Folders = {"d/"}
    InFolder <- MCInFolder
    Twin <- MCTwin
    Roots = {"", "d/"}
    MaxBuckets = 2
    MaxBucketCalls = 3
    Users = {u1, u2}
    MaxEntries = 5
    Feeders = {f1, f2}
    Closers = {l1, l2}
    Workers = {w1, w2}
    Items = 3
    BatchSize = 2
INVARIANTS
    ExecuteAtomic
    RowsServed
    ConnectionWhole
    RowsAsked
    SearchMeans
    ObjectsKept
    PrefixGone
    SessionExclusive
    PoolDrained
CHECK_DEADLOCK FALSE
