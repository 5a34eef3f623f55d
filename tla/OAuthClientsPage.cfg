SPECIFICATION Spec
CONSTANTS
    None = None  Absent = Absent
    r1 = r1  r2 = r2
    Requests = {r1}
    Ids = {1, 2, 3}
    Admins <- MCAdmins
    RoleOf <- MCRoleOf
    TenantOf <- MCTenantOf
    Tenants = {"t1", "t2"}
    Bodies = {"b1"}
    Secrets = {"s1"}
    PageLimit = 2
    Calls <- PageCalls
    Asks <- PageAsks
    Faults = {}
INVARIANTS ListIsAll
