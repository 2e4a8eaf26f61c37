SPECIFICATION Spec
CONSTANTS
    SizeMax = 45
    IntMax = 20
    Sent <- MCSent
    Chars <- MCChars
    MaxHeader = 24
    MaxBody = 4
INVARIANT AsIfWhole
INVARIANT SentIsReceived
CHECK_DEADLOCK FALSE
