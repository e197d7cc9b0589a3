\* History: two requests, three entries ever, lists of one or two, two starts.
\* Config: two accounts, a proxy, a key, two changes, two starts, of eleven
\* deployments.  Session: two passwords, five seconds.  Capture: two chat
\* sessions of two rounds, a list of three.  Files: up to three inline files,
\* three accounts, two attempts of an upload.
CONSTANTS
    a1 = a1  a2 = a2  p1 = p1  k1 = k1
    Part = {"history", "config", "session", "capture", "files"}
    Session = {s1, s2}
    EntryLimits = {1}
    DefaultLimit = 2
    MaxEntryId = 3
    MaxRevision = 4
    MaxRuns = 2
    Account = {a1, a2}
    Proxy = {p1}
    ApiKey = {k1}
    Limit = {1, 2}
    MaxChanges = 2
    MaxStarts = 2
    Careful = TRUE
    MaxWaiting = 1
    Password = {"first", "second"}
    Lifetime = 2
    EnvSecret = TRUE
    MaxTime = 5
    ChatSession = {t1, t2}
    CaptureLimit = 3
    MaxRounds = 2
    MaxSeconds = 2
    MaxSamples = 2
    InlineFiles = {"x", "y", "broken"}
    InlineLimit = 2
    LastAccount = 3
    UploadAttempts = 2
    MaxPolls = 2
SPECIFICATION Spec
INVARIANTS
    PendingCoversDisk EtagHonest 
    RestartKeeps   SyncedIsDeployed
      
SYMMETRY Interchangeable
CHECK_DEADLOCK FALSE
