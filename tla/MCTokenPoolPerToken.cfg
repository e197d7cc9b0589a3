\* The limit of a refresh token, over all its entries.
CONSTANTS
    a1 = a1  a2 = a2
    Account = {a1, a2}
    NoAccount = none
    Holder = {h1, h2, h3}
    Configured <- OneConfigured
    AdminCall = {c1}
    Tick = {t1, t2}
    MaxConcurrent = 2
    DeadThreshold = 2
    MaxEntry = 3
SPECIFICATION PartSpec
INVARIANT PerTokenLimit
