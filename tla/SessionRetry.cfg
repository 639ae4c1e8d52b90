SPECIFICATION Spec
CONSTANTS
    Accounts = {a1}
    NoAccount = NoAccount
    MaxScreens = 2
    MaxCalls = 2
INVARIANT FailedLogInCanRetry
