SPECIFICATION Spec
CONSTANTS
    Names = {a, b}
    Registered = {a}
    MaxMails = 2
    MaxCuts = 1
    MaxGiveUps = 0
    MaxTogether = 2
    MaxFaults = 0
    MaxSplits = 1
    MaxUnread = 2
    MaxLate = 1
    KeyReads = 4
    ShareReads = 7
    None = None
INVARIANT AllMailReceived
