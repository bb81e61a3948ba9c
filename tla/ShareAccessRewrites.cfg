SPECIFICATION Spec
CONSTANTS
    Users = {u1}
    Conns = {c1}
    SessionNonces = {t1}
    OpNonces = {n1, n2}
    Scopes <- MCRecoveryScopes
    SESSION_TOKEN_TTL_SECONDS = 1
    OP_TOKEN_TTL_SECONDS = 0
    MaxTime = 0
    KeyThreads = {}
    RecoveryThreads = {r1}
    Shares = {s1, s2}
    None = None
SYMMETRY Symmetry
PROPERTY ImplementsShareAuthority
