\* Whether a call in a fence is always text.
CONSTANTS
    text1 = text1  think1 = think1  think2 = think2
    Part = {text1, think1, think2}
    Thinking = {think1, think2}
    MaxText = 1
    MaxLine = 2
    MaxTool = 1
    SieveLength = 3
    MaxRounds = 1
    MinSnapshot = 2
    MaxChars = 1
    MaxLines = 1
    MaxKeepAlive = 1
    MaxLag = 0
    StreamRetries = 1
    MaxPieces = 1
SPECIFICATION PartSpec
INVARIANT CodeIsText
