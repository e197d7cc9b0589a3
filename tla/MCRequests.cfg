\* Pool: three requests, one admin call.  Auth: two managed requests and a
\* direct one, one admin call, one renewal each.  Flow: one request, two
\* attempts of every call, any number of renewals.  Lease: two requests, one
\* renewal each.  Two accounts.
CONSTANTS
    a1 = a1  a2 = a2
    r1 = r1  r2 = r2  r3 = r3
    Account = {a1, a2}
    NoAccount = none
    Request = {r1, r2, r3, d}
    Direct = {d}
    Admin = {m1}
    Target = {none, a1, a2}
    Limits <- AllLimits
    StartAccounts <- OneOrTwo
    MaxAdminCalls = 1
    MaxRenewals = 20
    MaxAttempts = 2
    RetryMax = 1
    Mode = {"stream", "whole"}
    Part = {"pool", "auth", "flow", "lease"}
    Requests <- SafetyRequests
    DirectToo = {"auth"}
    AdminCalls <- SafetyAdmin
    Renewals <- SafetyRenewals
    Targets <- SafetyTargets
    Starts <- SafetyStarts
    Order <- AnyOrder
    LimitsOf <- SafetyLimits
SPECIFICATION PartSpec
INVARIANTS TypeOK NoSlotLeak HeldIsSent RetryInSession LeaseOrWork
PROPERTY FilteredIsFinal
SYMMETRY Interchangeable
CHECK_DEADLOCK FALSE
