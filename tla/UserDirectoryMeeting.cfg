SPECIFICATION Spec
CONSTANTS
    None = None
    r1 = r1  r2 = r2  i1 = i1  i2 = i2
    Ids = {i1, i2}
    Admins <- MCAdmins
    RoleOf <- MCRoleOf
    TenantOf <- MCTenantOf
    Tenants = {"t1", "t2"}
    Usernames = {"ann", "bob"}
    Emails = {"e1", "e2"}
    Passwords = {"p1", "p2"}
    Keys = {"lang", "zone"}
    Values = {"v1"}
    Requests = {r1, r2}
    Calls <- MeetingCalls
    Faults = {"access", "commit", "crash"}
    Leavers = {}
SYMMETRY Slots
INVARIANTS TypeOK RequestsSound UsernamesUnique ShownInTenant
PROPERTIES WritesInTenant RowsStay ColumnsAsAsked ImplementsRegistry
