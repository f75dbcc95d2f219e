SPECIFICATION Spec
CONSTANTS
    u1 = u1
    u2 = u2
    s1 = s1
    s2 = s2
    Users <- MCOneUser
    Sessions <- MCSessions
    Tls = TRUE
    Kinds = {"tcp"}
INVARIANTS
    InvokeDials
