SPECIFICATION FairSpec
CONSTANTS
    Vendors = {"stripe", "razorpay"}
    MaxOrders = 3
    MaxKeys = 2
INVARIANTS
    Traceable
PROPERTIES
    ImplementsPromise
    CapturedRecorded
CHECK_DEADLOCK FALSE
