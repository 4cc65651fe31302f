SPECIFICATION FairSpec
CONSTANTS
    Vendors = {"stripe", "razorpay"}
    MaxOrders = 1
    MaxKeys = 1
PROPERTY
    NeverStranded
CHECK_DEADLOCK FALSE
