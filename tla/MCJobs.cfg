SPECIFICATION JobsSpec
CONSTANTS
    Course <- TheCourse
    TOLD_ABOUT = {"accepted", "shipped"}
    Workers = {"w1", "w2"}
    MaxAttempts = 2
    MaxFaults = 1
    Foci = {"order", "event", "mail", "media", "store", "domain"}
INVARIANTS
    MailSentOnce
PROPERTIES
    UnpaidOrdersSettle
    EventReachesConsumers
    RestIsTold
    UploadSettles
    PurchaseSettles
    EdgeFollowsZone
CHECK_DEADLOCK FALSE
