SPECIFICATION FairSpec
CONSTANTS
    Passwords = {p1, p2}
    None = None
    MaxMonth = 1
    KeepMonths = 0
    MaxCrashes = 1
    MaxActs = 3
INVARIANT TypeOK
INVARIANT WholeRunServes
INVARIANT WriterMaintains
INVARIANT PasswordsAgree
PROPERTY HalfBootStays
PROPERTY OutagesHeal
PROPERTY FaultsShow
