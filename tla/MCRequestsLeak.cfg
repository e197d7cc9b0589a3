\* One request that any account may serve, and its lease.
CONSTANTS
    a1 = a1  a2 = a2
    r1 = r1  r2 = r2  r3 = r3
    Account = {a1, a2}
    NoAccount = none
    Request = {r1, r2, r3}
    Direct = {}
    Admin = {m1}
    Target = {none, a1, a2}
    Limits <- OnlyOneEach
    StartAccounts <- OneOrTwo
    MaxAdminCalls = 1
    MaxRenewals = 20
    MaxAttempts = 1
    RetryMax = 1
    Mode = {"stream"}
    Part = {"lease"}
    Requests <- FindRequests
    DirectToo = {}
    AdminCalls <- FindAdmin
    Renewals <- FindRenewals
    Targets <- FindTargets
    Starts <- FindStarts
    Order <- AnyOrder
    LimitsOf <- SafetyLimits
SPECIFICATION PartSpec
INVARIANT NoPermanentLeak
CHECK_DEADLOCK FALSE
