SPECIFICATION FairSpec
CONSTANTS
    None = None  Absent = Absent
    t1 = t1  t2 = t2
    Tabs = {t1}
    Challenges <- PageChallenges
    Kind <- PageKind
    Requested <- PageRequested
    Skip = {"cskip"}
    Scopes = {"openid", "email"}
    People = {"ann"}
    Barred = {}
    MaxBehind = 1
    Faults = {"down", "lost"}
INVARIANTS TypeOK OneCall GrantsTicked
PROPERTIES SpinnersEnd ImplementsDecisions
