SPECIFICATION FairSpec
CONSTANTS
    None = None
    j1 = j1  j2 = j2
    Jobs = {j1, j2}
    Emails = {"admin", "tadmin", "eve"}
    Passwords = {"old", "new"}
    Tenants = {"t1", "t2"}
    Default = "admin"
    Second = "tadmin"
    Standard = "new"
    Calls <- MCCalls
    Leavers = {"tadmin"}
    Faults = {"access", "commit", "crash", "taken"}
INVARIANTS TypeOK ResetsStick FirstAdmin
PROPERTIES ImplementsBook EveryJobEnds
