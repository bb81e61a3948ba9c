SPECIFICATION FairSpec
CONSTANTS
    Devices = {d1}
    Keys <- MCKeys
    SplitIds <- MCSplitIds
    MaxFaults = 1
    None = None
    Torn = Torn
    RefusalText = RefusalText
INVARIANT TypeOK
INVARIANT RecoveryRestoresRegisteredKey
PROPERTY SecretNeverLost
PROPERTY RecoveryConverges
