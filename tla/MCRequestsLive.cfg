\* Pool: three requests, one account and another that an admin call adds, one
\* or two slots each.  Auth: two requests that renew once.  Flow: one streamed
\* request.  Lease: two requests that ask for their accounts.
CONSTANTS
    a1 = a1  a2 = a2
    r1 = r1  r2 = r2  r3 = r3
    Account = {a1, a2}
    NoAccount = none
    Request = {r1, r2, r3}
    Direct = {}
    Admin = {m1}
    Target = {none, a1, a2}
    Limits <- AllLimits
    StartAccounts <- OneOrTwo
    MaxAdminCalls = 1
    MaxRenewals = 20
    MaxAttempts = 1
    RetryMax = 1
    Mode = {"stream"}
    Part = {"pool", "auth", "flow", "lease"}
    Requests <- LiveRequests
    DirectToo = {}
    AdminCalls <- LiveAdmin
    Renewals <- LiveRenewals
    Targets <- LiveTargets
    Starts <- LiveStarts
    Order <- InOrder
    LimitsOf <- LiveLimits
SPECIFICATION PartFairSpec
PROPERTIES WaitersServed SearchEnds CompletionEnds LeasesReturned
CHECK_DEADLOCK FALSE
