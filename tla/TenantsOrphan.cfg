SPECIFICATION Spec
CONSTANTS
    None = None  Absent = Absent
    j1 = j1  j2 = j2  i1 = i1  i2 = i2
    Jobs = {j1, j2}
    Ids = {i1, i2}
    Slugs = {"acme", "beta"}
    Domains = {"a.com", "b.com"}
    Emails = {"ann", "bob"}
    Looks = {"blue", "red"}
    Calls <- MCCalls
    Faults = {}
INVARIANTS NoOrphans
