SPECIFICATION Spec
CONSTANTS
    Unused = Unused
    Parts = {"photo", "gate", "due", "mail", "reset", "exports", "render",
             "checkin", "archiving", "auditing"}
    Callers = {c1, c2}
    Sweepers = {w1, w2}
    Sizes = {1}
    Retentions = {1}
    StorageLimit = 2
    PhotoTTL = 1
    StaleAfter = 1
    RequestTimeout = FALSE
    MaxSweep = 1
    MaxFailures = 0
    MaxCrashes = 1
    MaxPolicies = 0
    Writers = {w1}
    Owners = {c1, c2}
    Purposes = {"migration", "copy_capture"}
    UploadTTL = 1
    Lease = 2
    MaxWrites = 1
    MaxToken = 2
    Objects = {}
    MaxInterruptions = 0
    Borrowings = {1, 2}
    Reachable = {1, 2}
    Runs = {w1, w2}
    Limit = 1
    MaxTime = 1
    MaxDueChanges = 0
    MaxUnsent = 1
    MaxDeaths = 1
    Senders = {w1, w2, w3}
    MaxRetries = 2
    MaxFaults = 3
    Callbacks = TRUE
    PublishFails = FALSE
    Drains = {w1, w2}
    MaxRequests = 2
    MaxStalls = 1
    MaxDrainDeaths = 0
    MaxAttempts = 1
    MaxVersion = 2
    ExportJobs = {c1, c2}
    Exporters = {w1, w2}
    ExportQuota = 1
    MaxRefusals = 1
    MaxLimits = 0
    Attendees = {c1}
    Scans = {c1}
    Renderers = {w1, w2}
    MaxRevisions = 2
    MaxPins = 0
    Rescans = {c1}
    MaxRotations = 2
    Archives = {w3, c1, c2}
    Established = {w3}
    Scopes = {"deployment"}
    MaxRuns = 1
    MaxSwitches = 2
    MaxExpiries = 1
    MaxMishaps = 1
    AuditRows = 2
    MaxUnkeyed = 1
    MaxKeys = 3
    AuditMishaps = 2
    MaxRestores = 1
    c1 = c1
    c2 = c2
    w1 = w1
    w2 = w2
    w3 = w3
SYMMETRY Symmetry
INVARIANTS
    PhotographsExact
    CertificatesSound
    MailedByOne
    RemindedOnce
    ExportsAccounted
    HandoverSafe
    ArchivesSound
    AuditChained
    VerdictHonest
PROPERTIES
    AttachmentBacked
    CheckInsCount
    ResetOnNewestCode
CHECK_DEADLOCK FALSE
