SPECIFICATION PackagesSpec
CONSTANTS
    Packages = {"a", "b", "c"}
    Products = {"x"}
    Requests = {"r1", "r2"}
    NoPackage = "none"
    MaxPackages = 3
CHECK_DEADLOCK FALSE
INVARIANTS DefaultWhileActive
