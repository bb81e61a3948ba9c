SPECIFICATION FairSpec
CONSTANTS
    Names = {a, b}
    Registered = {a}
    MaxMails = 2
    MaxCuts = 1
    MaxGiveUps = 2
    MaxTogether = 2
    MaxFaults = 1
    MaxSplits = 1
    MaxUnread = 3
    MaxLate = 1
    KeyReads = 4
    ShareReads = 7
    None = None
INVARIANT TypeOK
INVARIANT KeyLag
INVARIANT OwnKeyUntilGiveUp
INVARIANT TokensFitUntilSlip
INVARIANT NoMailTwice
INVARIANT NothingLost
INVARIANT ConfirmedUpdateHappened
PROPERTY CallsReturn
