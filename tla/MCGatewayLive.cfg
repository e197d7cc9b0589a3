\* Liveness, and three requests with a queue of two over two entries of width
\* one: one dispatch loop can serve several waiters.
CONSTANTS
    a1 = a1
    Account = {a1}
    NoAccount = none
    Holder = {r1, r2, r3}
    ChatRequest = {r1, r2}
    AnthropicStream = {r2}
    Configured <- OneConfigured
    AdminCall = {c1}
    Tick = {}
    MaxConcurrent = 1
    DeadThreshold = 1
    MaxEntry = 2
    MaxQueueSize = 2
SPECIFICATION Spec
PROPERTIES WaitersSettle RequestsAnswered
