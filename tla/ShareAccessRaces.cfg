SPECIFICATION Spec
CONSTANTS
    Users = {u1}
    Conns = {c1}
    SessionNonces = {t1}
    OpNonces = {n1}
    Scopes <- MCKeyScopes
    SESSION_TOKEN_TTL_SECONDS = 1
    OP_TOKEN_TTL_SECONDS = 0
    MaxTime = 2
    KeyThreads = {k1, k2}
    RecoveryThreads = {}
    Shares = {s1, s2}
    None = None
SYMMETRY Symmetry
INVARIANT TypeOK
INVARIANT AtMostOnce
INVARIANT GrantMatchesToken
PROPERTY ImplementsShareAuthority
