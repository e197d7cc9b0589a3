\* Three requests of both kinds over a token of width 1, while an admin adds a
\* second entry, entries are deleted and a sweep kills, blanks or renews them.
CONSTANTS
    a1 = a1
    Account = {a1}
    NoAccount = none
    Holder = {r1, r2, r3}
    ChatRequest = {r1, r2}
    AnthropicStream = {}
    Configured <- OneConfigured
    AdminCall = {c1}
    Tick = {t1}
    MaxConcurrent = 1
    DeadThreshold = 1
    MaxEntry = 2
    MaxQueueSize = 1
SPECIFICATION Spec
INVARIANTS TypeOK NoSlotLeak QueueHoldsWaiters
PROPERTIES StarvingOnlyByUpkeep ImplementsAdmission
SYMMETRY SameRoute
