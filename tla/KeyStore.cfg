SPECIFICATION Spec
CONSTANTS
    c1 = c1
    c2 = c2
    c3 = c3
    v1 = v1
    v2 = v2
    Clients = {c1, c2, c3}
    Values = {v1, v2}
    Requests <- MCRequests
    MaxShortWrites = 1
    None = None
    Garbled = Garbled
    JunkName = JunkName
INVARIANT TypeOK
INVARIANT ServesWhatItPromised
INVARIANT DamageIsBounded
INVARIANT OneKeyFetched
