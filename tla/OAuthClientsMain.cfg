SPECIFICATION FairSpec
CONSTANTS
    None = None  Absent = Absent
    r1 = r1  r2 = r2
    Requests = {r1, r2}
    Ids = {1, 2}
    Admins <- MCAdmins
    RoleOf <- MCRoleOf
    TenantOf <- MCTenantOf
    Tenants = {"t1", "t2"}
    Bodies = {"b1"}
    Secrets = {"s1", "s2"}
    PageLimit = 1
    Calls <- MovingCalls
    Asks <- MovingAsks
    Faults = {"timeout", "late", "crash"}
INVARIANTS TypeOK AnswersInTenant AnswersTruthful
PROPERTIES WritesInTenant ImplementsRegistry EveryRequestEnds
