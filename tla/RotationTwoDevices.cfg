SPECIFICATION Spec
CONSTANTS
    Devices = {d1, d2}
    Keys <- MCKeys
    SplitIds <- MCSplitIds
    MaxFaults = 0
    None = None
    Torn = Torn
    RefusalText = RefusalText
PROPERTY SecretNeverLost
