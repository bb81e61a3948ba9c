SPECIFICATION Spec
CONSTANTS
    n1 = n1
    sp = sp
    sk = sk
    Threads = {t1, t2}
    Names = {n1, sp, sk}
    Entry <- MCEntry
    Passwords = {p1, p2}
    Garbled = Garbled
    MaxLines = 2
    None = None
SYMMETRY Symmetry
INVARIANT TypeOK
INVARIANT OneAccountPerName
 
INVARIANT SavedNamesAreKnown
