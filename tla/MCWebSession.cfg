SPECIFICATION FairSpec
CONSTANTS
    Tab = {a, b}
    Api = {}
    HookRun = {h1}
    Me = me
    Login = login
    Logout = logout
    Refresh = refresh
    None = None
    Given = given
    Undefined = undefined
    MaxLogins = 2
    MaxCalls = 1
INVARIANTS
    TypeOK
    WaitersHaveARefresh
    NoLiveTokenWithoutAPage
PROPERTIES
    RefreshEnds
    LogoutReachesEveryPage
