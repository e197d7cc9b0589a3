\* Pool part: one token from the environment and one more entry, one admin
\* call, two overlapping sweeps, three callers of width 2.
\* Sweep part: two tokens from the environment and one more entry.
CONSTANTS
    a1 = a1  a2 = a2
    Account = {a1, a2}
    NoAccount = none
    Holder = {h1, h2, h3}
    Configured <- OneConfigured
    AdminCall = {c1}
    Tick = {t1, t2}
    MaxConcurrent = 2
    DeadThreshold = 2
    MaxEntry = 3
SPECIFICATION PartSpec
INVARIANTS PoolTypeOK SlotAccounting ConcurrencyBounded MissedPerDeletion
PROPERTY WithdrawnDrains
SYMMETRY Interchangeable
