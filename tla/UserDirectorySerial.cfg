SPECIFICATION FairSpec
CONSTANTS
    None = None
    r1 = r1  r2 = r2  i1 = i1  i2 = i2
    Ids = {i1, i2}
    Admins <- MCAdmins
    RoleOf <- MCRoleOf
    TenantOf <- MCTenantOf
    Tenants = {"t1", "t2"}
    Usernames = {"ann", "bob"}
    Emails = {"e1", "e2"}
    Passwords = {"p1", "p2"}
    Keys = {"lang", "zone"}
    Values = {"v1"}
    Requests = {r1}
    Calls <- AllCalls
    Faults = {"access", "crash"}
    Leavers = {"adm1"}
PROPERTIES KeysAsAsked ImplementsRegistry EveryRequestEnds DeactivationDrains
