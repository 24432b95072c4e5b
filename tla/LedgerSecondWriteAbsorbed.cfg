SPECIFICATION Spec
CONSTANTS
    Jobs = {j1, j2}
    Sessions = {s1, s2}
    GrantKeys = {k1}
    Amounts = {1, 2}
    GrantAmounts = {1}
    SignupGrant = 2
    NoSession = NoSession
INVARIANTS
    SecondWriteAbsorbed
