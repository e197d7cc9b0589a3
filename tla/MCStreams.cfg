\* OpenAI and Anthropic streams: two characters of each kind.  Sieve: documents
\* of two tools, cut anywhere.  Lines: one continuation, four lines.  Answers:
\* three pieces over all attempts, one retry and one other account.
CONSTANTS
    text1 = text1  think1 = think1  think2 = think2
    Part = {text1, think1, think2}
    Thinking = {think1, think2}
    MaxText = 2
    MaxLine = 3
    MaxTool = 2
    SieveLength = 4
    MaxRounds = 1
    MinSnapshot = 2
    MaxChars = 2
    MaxLines = 4
    MaxKeepAlive = 1
    MaxLag = 0
    StreamRetries = 1
    MaxPieces = 3
SPECIFICATION PartSpec
INVARIANTS CompletionOrder CompletionWhole BlockProtocol    
PROPERTY StreamsEnd
