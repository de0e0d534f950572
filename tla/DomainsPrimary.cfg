SPECIFICATION DomainsSpec
CONSTANTS
    Hosts = {"platform", "a", "b"}
    Platform = "platform"
    NoHost = "none"
    Checkers = {"job"}
    Promoters = {"q1", "q2"}
    MaxCustom = 2
    MaxFailures = 2
    MaxFaults = 0
INVARIANT OnePrimary
CHECK_DEADLOCK FALSE
