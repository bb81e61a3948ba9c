SPECIFICATION GmailSpec
CONSTANTS
    Users = {u1, u2}
    Conns = {c1, c2}
    SessionNonces = {t1, t2}
    OpNonces = {n1}
    Scopes <- MCScopes
    SESSION_TOKEN_TTL_SECONDS = 2
    OP_TOKEN_TTL_SECONDS = 1
    MaxTime = 3
    None = None
SYMMETRY Symmetry
INVARIANT GmailTypeOK
INVARIANT ConnectedSessionHasItsConnection
PROPERTY NoSessionRevival
PROPERTY OpTokenNeverRevived
