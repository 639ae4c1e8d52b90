SPECIFICATION FairSpec
CONSTANTS
    Accounts = {a1, a2}
    NoAccount = NoAccount
    MaxScreens = 2
    MaxCalls = 2
INVARIANTS
    SessionInv
    UserInTabs
    OwnProfile
PROPERTY LogInAnswered
