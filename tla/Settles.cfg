SPECIFICATION MCSpec
CONSTANTS
    Unused = Unused
    Parts = {"photo", "restoring", "due", "mail", "reset", "exports",
             "archiving", "auditing"}
    Callers = {c1}
    Sweepers = {w1}
    Sizes = {1}
    Retentions = {2}
    StorageLimit = 2
    PhotoTTL = 1
    StaleAfter = 2
    RequestTimeout = TRUE
    MaxSweep = 1
    MaxFailures = 1
    MaxCrashes = 1
    MaxPolicies = 0
    Writers = {w1}
    Owners = {c1}
    Purposes = {"migration"}
    UploadTTL = 1
    Lease = 2
    MaxWrites = 0
    MaxToken = 1
    Objects = {c1}
    MaxInterruptions = 2
    Borrowings = {1, 2}
    Reachable = {1, 2}
    Runs = {w1, w2}
    Limit = 1
    MaxTime = 1
    MaxDueChanges = 0
    MaxUnsent = 1
    MaxDeaths = 1
    Senders = {w1, w2}
    MaxRetries = 1
    MaxFaults = 2
    Callbacks = FALSE
    PublishFails = TRUE
    Drains = {w1}
    MaxRequests = 1
    MaxStalls = 1
    MaxDrainDeaths = 1
    MaxAttempts = 1
    MaxVersion = 1
    ExportJobs = {c1}
    Exporters = {w1, w2}
    ExportQuota = 1
    MaxRefusals = 2
    MaxLimits = 0
    Attendees = {}
    Scans = {}
    Renderers = {}
    MaxRevisions = 0
    MaxPins = 0
    Rescans = {}
    MaxRotations = 0
    Archives = {c1}
    Established = {}
    Scopes = {"deployment"}
    MaxRuns = 1
    MaxSwitches = 1
    MaxExpiries = 0
    MaxMishaps = 2
    AuditRows = 3
    MaxUnkeyed = 0
    MaxKeys = 2
    AuditMishaps = 2
    MaxRestores = 0
    c1 = c1
    w1 = w1
    w2 = w2
INVARIANT
    CutoverFenced
PROPERTIES
    StorageReclaimed
    NoticesSettle
    BackupsSettle
    AuditSettles
CHECK_DEADLOCK FALSE
