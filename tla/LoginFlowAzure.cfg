SPECIFICATION Spec
CONSTANTS
    None = None  Absent = Absent
    t1 = t1  t2 = t2
    Tabs = {t1, t2}
    Challenges <- AzureChallenges
    Kind <- AzureKind
    Requested <- AzureRequested
    Skip = {}
    Scopes = {"openid", "email"}
    People = {"ann", "bob"}
    Barred = {"bob"}
    MaxBehind = 0
    Faults = {}
INVARIANTS ChallengeKept LeavesDecided
SYMMETRY TabSymmetry
