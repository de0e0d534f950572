SPECIFICATION PeopleSpec
CONSTANTS
    Crossing = {r1, r2}
    Team = {a1, a2}
    Browsers = {"t1", "t2"}
    LinksPerHour = 2
    MaxFlows = 1
    MaxSessions = 2
    Visitors = {"v"}
    MaxSaves = 3
    Customers = {"a", "b"}
    Numbers = {"n"}
    LinksPerWindow = 2
    Buyers = {"a"}
    Leads = {"l"}
    Lines = {"n", "m"}
    MaxAddresses = 2
    MaxMade = 3
    Emails = {"e1", "e2"}
    MaxPeople = 2
    SignedIn = {"s1", "s2"}
    MaxTokens = 3
SYMMETRY Alike
INVARIANTS
    SessionsEnd
    OneOfEach
CHECK_DEADLOCK FALSE
